--------------------------- MODULE Threads_proofs ---------------------------
(***************************************************************************)
(* PoolSound of Workers, CliSound of CommandLine and EndpointSound of      *)
(* RtpEndpoint, for any number of threads, work items, commands, updates,  *)
(* chunks and packets.                                                     *)
(***************************************************************************)
EXTENDS Workers, CommandLine, RtpEndpoint, FiniteSetTheorems, SequenceTheorems,
        WellFoundedInduction, NaturalsInduction, TLAPS
-----------------------------------------------------------------------------
(* Where an item is.                                                       *)

\* What the queue and the workers' hands hold once n - 1 items were handed in.
Items(n) == {Marker, Reopen} \cup {Item(i, cb) : i \in 1 .. n - 1, cb \in BOOLEAN}

InQueue(q, i) == {k \in DOMAIN q : q[k].id = i}
InHands(h, i) == {w \in DOMAIN h : h[w].id = i}
InPosts(p, i) == {k \in DOMAIN p : p[k] = i}
InEnded(e, i) == {x \in e : x[1] = i}

One(S) == \E x : S = {x}

LEMMA ItemFacts ==
    ASSUME NEW n \in Nat, NEW x \in Items(n)
    PROVE  /\ x.id \in 0 .. n - 1 \/ x.id = 0
           /\ x.op = "work" <=> x.id # 0
           /\ x = Marker \/ x = Reopen \/ x.id \in 1 .. n - 1
           /\ x \in Items(n + 1)
<1>1. CASE x = Marker \/ x = Reopen
  BY <1>1 DEF Items, Marker, Reopen
<1>2. CASE x \in {Item(i, cb) : i \in 1 .. n - 1, cb \in BOOLEAN}
  <2>1. PICK i \in 1 .. n - 1, cb \in BOOLEAN : x = Item(i, cb)
    BY <1>2
  <2>2. i \in 1 .. (n + 1) - 1
    OBVIOUS
  <2> QED BY <2>1, <2>2 DEF Items, Item
<1> QED BY <1>1, <1>2 DEF Items

LEMMA AppendPlace ==
    ASSUME NEW S, NEW q \in Seq(S), NEW x \in S, NEW i
    PROVE  /\ x.id # i => InQueue(Append(q, x), i) = InQueue(q, i)
           /\ x.id = i /\ InQueue(q, i) = {} => One(InQueue(Append(q, x), i))
<1>1. /\ DOMAIN q = 1 .. Len(q) /\ Len(q) \in Nat
      /\ DOMAIN Append(q, x) = 1 .. Len(q) + 1
      /\ \A k \in 1 .. Len(q) : Append(q, x)[k] = q[k]
      /\ Append(q, x)[Len(q) + 1] = x
  OBVIOUS
<1>2. ASSUME x.id = i, InQueue(q, i) = {}
      PROVE  InQueue(Append(q, x), i) = {Len(q) + 1}
  BY <1>1, <1>2 DEF InQueue
<1>3. ASSUME x.id # i PROVE InQueue(Append(q, x), i) = InQueue(q, i)
  BY <1>1, <1>3 DEF InQueue
<1> QED BY <1>2, <1>3 DEF One

\* The m oldest entries of a queue are taken away.
LEMMA DropPlace ==
    ASSUME NEW S, NEW q \in Seq(S), NEW m \in 0 .. Len(q), NEW i
    PROVE  LET r == SubSeq(q, m + 1, Len(q)) IN
           /\ r \in Seq(S) /\ Len(r) = Len(q) - m
           /\ InQueue(q, i) = {} => InQueue(r, i) = {}
           /\ One(InQueue(q, i)) =>
                 IF \E k \in 1 .. m : q[k].id = i THEN InQueue(r, i) = {}
                                                  ELSE One(InQueue(r, i))
<1> DEFINE r == SubSeq(q, m + 1, Len(q))
<1>1. /\ DOMAIN q = 1 .. Len(q) /\ Len(q) \in Nat
      /\ r \in Seq(S) /\ Len(r) = Len(q) - m
      /\ \A k \in 1 .. Len(r) : r[k] = q[m + k]
  <2>1. \A k \in m + 1 .. Len(q) : q[k] \in S
    OBVIOUS
  <2> QED BY <2>1, SubSeqProperties
<1> HIDE DEF r
<1>2. DOMAIN r = 1 .. Len(r)
  BY <1>1
<1>3. ASSUME NEW k \in InQueue(r, i) PROVE m + k \in InQueue(q, i) /\ m + k > m
  <2>1. k \in 1 .. Len(r) /\ r[k].id = i /\ r[k] = q[m + k]
    BY <1>1, <1>2 DEF InQueue
  <2>2. m + k \in 1 .. Len(q)
    BY <1>1, <2>1
  <2> QED BY <1>1, <2>1, <2>2 DEF InQueue
<1>4. ASSUME NEW x, InQueue(q, i) = {x}
      PROVE  IF \E k \in 1 .. m : q[k].id = i THEN InQueue(r, i) = {}
                                              ELSE One(InQueue(r, i))
  <2>1. x \in 1 .. Len(q) /\ q[x].id = i /\ \A k \in 1 .. Len(q) : q[k].id = i => k = x
    BY <1>1, <1>4 DEF InQueue
  <2>2. ASSUME NEW k \in InQueue(r, i) PROVE m + k = x /\ k = x - m /\ x > m
    <3>1. m + k \in InQueue(q, i) /\ m + k > m /\ k \in 1 .. Len(r)
      BY <1>2, <1>3, <2>2 DEF InQueue
    <3> QED BY <1>4, <3>1, <1>1
  <2>3. CASE \E k \in 1 .. m : q[k].id = i
    BY <1>1, <2>1, <2>2, <2>3
  <2>4. CASE ~ \E k \in 1 .. m : q[k].id = i
    <3>1. x - m \in 1 .. Len(r) /\ m + (x - m) = x
      BY <1>1, <2>1, <2>4
    <3>2. x - m \in InQueue(r, i)
      BY <1>1, <1>2, <2>1, <3>1 DEF InQueue
    <3>3. InQueue(r, i) = {x - m}
      BY <3>2, <2>2
    <3> QED BY <3>3, <2>4 DEF One
  <2> QED BY <2>3, <2>4
<1> QED BY <1>1, <1>3, <1>4 DEF One, r

\* Item i is in one place: in the queue q, in the hands h, among the callbacks p
\* or among the items e that are finished with.
Placed(i, q, h, p, e) ==
    \/ One(InQueue(q, i)) /\ InHands(h, i) = {} /\ InPosts(p, i) = {} /\ InEnded(e, i) = {}
    \/ InQueue(q, i) = {} /\ One(InHands(h, i)) /\ InPosts(p, i) = {} /\ InEnded(e, i) = {}
    \/ InQueue(q, i) = {} /\ InHands(h, i) = {} /\ One(InPosts(p, i)) /\ InEnded(e, i) = {}
    \/ InQueue(q, i) = {} /\ InHands(h, i) = {} /\ InPosts(p, i) = {} /\ One(InEnded(e, i))

\* Counting the places is the same.
LEMMA PlacedIsOne ==
    ASSUME NEW i, NEW q, NEW h, NEW p, NEW e, Placed(i, q, h, p, e)
    PROVE  Cardinality(InQueue(q, i)) + Cardinality(InHands(h, i))
             + Cardinality(InPosts(p, i)) + Cardinality(InEnded(e, i)) = 1
<1>1. Cardinality({}) = 0
  BY FS_EmptySet
<1>2. \A S : One(S) => Cardinality(S) = 1
  BY FS_Singleton DEF One
<1> QED BY <1>1, <1>2 DEF Placed

\* The oldest entry leaves the queue.
LEMMA TailPlace ==
    ASSUME NEW S, NEW q \in Seq(S), q # <<>>, NEW i
    PROVE  /\ InQueue(q, i) = {} => InQueue(Tail(q), i) = {} /\ Head(q).id # i
           /\ One(InQueue(q, i)) => IF Head(q).id = i THEN InQueue(Tail(q), i) = {}
                                                     ELSE One(InQueue(Tail(q), i))
<1>1. /\ Tail(q) = SubSeq(q, 1 + 1, Len(q)) /\ 1 \in 0 .. Len(q)
      /\ Head(q) = q[1] /\ 1 \in DOMAIN q /\ \A k \in 1 .. 1 : k = 1
  BY TailIsSubSeq
<1>2. InQueue(q, i) = {} => Head(q).id # i
  BY <1>1 DEF InQueue
<1>3. LET r == SubSeq(q, 1 + 1, Len(q)) IN
      /\ InQueue(q, i) = {} => InQueue(r, i) = {}
      /\ One(InQueue(q, i)) => IF \E k \in 1 .. 1 : q[k].id = i THEN InQueue(r, i) = {}
                                                                ELSE One(InQueue(r, i))
  <2>1. 1 \in 0 .. Len(q)
    BY <1>1
  <2> QED BY ONLY q \in Seq(S), <2>1, DropPlace
<1>4. (\E k \in 1 .. 1 : q[k].id = i) <=> Head(q).id = i
  BY <1>1
<1> QED BY <1>1, <1>2, <1>3, <1>4

\* A worker takes an item from the queue.
LEMMA TakePlace ==
    ASSUME NEW n \in Nat, NEW q \in Seq(Items(n)), q # <<>>, NEW T,
           NEW h \in [T -> Items(n)], NEW w \in T, h[w].id = 0, NEW p, NEW e, NEW i \in 1 .. n - 1,
           Placed(i, q, h, p, e)
    PROVE  Placed(i, Tail(q), [h EXCEPT ![w] = Head(q)], p, e)
<1> DEFINE g == [h EXCEPT ![w] = Head(q)]
<1>1. w \notin InHands(h, i)
  BY DEF InHands
<1>2. CASE Head(q).id = i
  <2>1. One(InQueue(q, i))
    BY <1>2, TailPlace DEF Placed
  <2>2. InQueue(Tail(q), i) = {}
    BY <1>2, <2>1, TailPlace
  <2>3. InHands(h, i) = {}
    BY <2>1 DEF Placed, One
  <2>4. InHands(g, i) = {w}
    BY <1>2, <2>3 DEF InHands
  <2>5. InPosts(p, i) = {} /\ InEnded(e, i) = {}
    BY <2>1 DEF Placed, One
  <2> HIDE DEF g
  <2>6. Placed(i, Tail(q), g, p, e)
    BY <2>2, <2>4, <2>5 DEF Placed, One
  <2> QED BY <2>6 DEF g
<1>3. CASE Head(q).id # i
  <2>1. InHands(g, i) = InHands(h, i)
    BY <1>1, <1>3 DEF InHands
  <2>2. /\ InQueue(q, i) = {} => InQueue(Tail(q), i) = {}
        /\ One(InQueue(q, i)) => One(InQueue(Tail(q), i))
    BY <1>3, TailPlace
  <2> HIDE DEF g
  <2>3. Placed(i, Tail(q), g, p, e)
    BY <2>1, <2>2 DEF Placed
  <2> QED BY <2>3 DEF g
<1> QED BY <1>2, <1>3

\* A worker is done with its item, which goes to the callbacks or is finished with.
LEMMA FinishPlace ==
    ASSUME NEW n \in Nat, NEW T, NEW h \in [T -> Items(n)], NEW w \in T,
           NEW q, NEW p \in Seq(0 .. n - 1), NEW e, NEW how, NEW i \in 1 .. n - 1,
           Placed(i, q, h, p, e)
    PROVE  LET g == [h EXCEPT ![w] = Nothing] IN
           /\ h[w].id \in 0 .. n - 1 => Placed(i, q, g, Append(p, h[w].id), e)
           /\ Placed(i, q, g, p, e \cup {<<h[w].id, how>>})
           /\ h[w].id = 0 => Placed(i, q, g, p, e)
<1> DEFINE g == [h EXCEPT ![w] = Nothing]
<1>1. InHands(g, i) = InHands(h, i) \ {w}
  BY DEF InHands, Nothing, Marker
<1>2. CASE h[w].id = i
  <2>1. /\ InHands(h, i) = {w} /\ InQueue(q, i) = {} /\ InPosts(p, i) = {}
        /\ InEnded(e, i) = {}
    <3>1. w \in InHands(h, i)
      BY <1>2 DEF InHands
    <3> QED BY <3>1 DEF Placed, One
  <2>2. InHands(g, i) = {}
    BY <1>1, <2>1
  <2> HIDE DEF g
  <2>3. InEnded(e \cup {<<i, how>>}, i) = {<<i, how>>}
    BY <2>1 DEF InEnded
  <2>4. InPosts(Append(p, i), i) = {Len(p) + 1}
    BY <2>1 DEF InPosts
  <2>5. Placed(i, q, g, Append(p, i), e) /\ Placed(i, q, g, p, e \cup {<<i, how>>})
    BY <2>1, <2>2, <2>3, <2>4 DEF Placed, One
  <2> QED BY <1>2, <2>5 DEF g
<1>3. CASE h[w].id # i
  <2>1. InHands(g, i) = InHands(h, i)
    BY <1>1, <1>3 DEF InHands
  <2> HIDE DEF g
  <2>2. InEnded(e \cup {<<h[w].id, how>>}, i) = InEnded(e, i)
    BY <1>3 DEF InEnded
  <2>3. ASSUME h[w].id \in 0 .. n - 1 PROVE InPosts(Append(p, h[w].id), i) = InPosts(p, i)
    BY <1>3, <2>3 DEF InPosts
  <2>4. /\ h[w].id \in 0 .. n - 1 => Placed(i, q, g, Append(p, h[w].id), e)
        /\ Placed(i, q, g, p, e \cup {<<h[w].id, how>>})
        /\ Placed(i, q, g, p, e)
    BY <2>1, <2>2, <2>3 DEF Placed
  <2> QED BY <2>4 DEF g
<1> QED BY <1>2, <1>3

\* The main thread runs the oldest callback.
LEMMA CallPlace ==
    ASSUME NEW n \in Nat, NEW p \in Seq(0 .. n - 1), p # <<>>, NEW q, NEW h, NEW e,
           NEW i \in 1 .. n - 1, Placed(i, q, h, p, e)
    PROVE  /\ Placed(i, q, h, Tail(p), e \cup {<<Head(p), "called">>})
           /\ Head(p) = 0 => Placed(i, q, h, Tail(p), e)
<1>1. /\ DOMAIN p = 1 .. Len(p) /\ DOMAIN Tail(p) = 1 .. Len(p) - 1 /\ Len(p) \in Nat
      /\ \A k \in 1 .. Len(p) - 1 : Tail(p)[k] = p[k + 1]
      /\ 1 \in DOMAIN p /\ Head(p) = p[1]
  OBVIOUS
<1>2. ASSUME NEW k PROVE k \in InPosts(Tail(p), i) <=> k + 1 \in InPosts(p, i) /\ k \in 1 .. Len(p) - 1
  BY <1>1 DEF InPosts
<1>3. CASE Head(p) = i
  <2>1. /\ InPosts(p, i) = {1} /\ InQueue(q, i) = {} /\ InHands(h, i) = {}
        /\ InEnded(e, i) = {}
    <3>1. 1 \in InPosts(p, i)
      BY <1>1, <1>3 DEF InPosts
    <3> QED BY <3>1 DEF Placed, One
  <2>2. InPosts(Tail(p), i) = {}
    BY <1>1, <1>2, <2>1
  <2>3. InEnded(e \cup {<<i, "called">>}, i) = {<<i, "called">>}
    BY <2>1 DEF InEnded
  <2>4. Head(p) # 0
    BY <1>3
  <2>5. Placed(i, q, h, Tail(p), e \cup {<<i, "called">>})
    BY <2>1, <2>2, <2>3 DEF Placed, One
  <2> QED BY <1>3, <2>4, <2>5
<1>4. CASE Head(p) # i
  <2>1. InEnded(e \cup {<<Head(p), "called">>}, i) = InEnded(e, i)
    BY <1>4 DEF InEnded
  <2>2. ASSUME InPosts(p, i) = {} PROVE InPosts(Tail(p), i) = {}
    BY <1>2, <2>2
  <2>3. ASSUME One(InPosts(p, i)) PROVE One(InPosts(Tail(p), i))
    <3>1. PICK x : InPosts(p, i) = {x}
      BY <2>3 DEF One
    <3>2. x \in 2 .. Len(p)
      BY <1>1, <1>4, <3>1 DEF InPosts
    <3>3. x - 1 \in InPosts(Tail(p), i)
      <4>1. (x - 1) + 1 = x /\ x - 1 \in 1 .. Len(p) - 1
        BY <1>1, <3>2
      <4> QED BY <1>2, <3>1, <4>1
    <3>4. InPosts(Tail(p), i) = {x - 1}
      <4>1. ASSUME NEW k \in InPosts(Tail(p), i) PROVE k = x - 1
        <5>1. k + 1 \in InPosts(p, i) /\ k \in 1 .. Len(p) - 1
          BY <1>2
        <5>2. k + 1 = x /\ k \in Nat
          BY <1>1, <3>1, <5>1
        <5> QED BY <5>2
      <4> QED BY <3>3, <4>1
    <3> QED BY <3>4 DEF One
  <2> QED BY <2>1, <2>2, <2>3 DEF Placed
<1> QED BY <1>3, <1>4

\* Items 1 to n - 1 are in one place each when another one is handed in, and the
\* m oldest entries of the queue are discarded.
LEMMA SubmitPlace ==
    ASSUME NEW n \in Nat \ {0}, NEW q \in Seq(Items(n)), NEW m \in 0 .. Len(q), NEW cb \in BOOLEAN,
           NEW T, NEW h \in [T -> Items(n)], NEW p \in Seq(0 .. n - 1),
           NEW e, \A x \in e : x[1] \in 1 .. n - 1,
           \A i \in 1 .. n - 1 : Placed(i, q, h, p, e), NEW d,
           d = {<<q[k].id, "discarded">> : k \in {l \in 1 .. m : q[l].op = "work"}},
           NEW i \in 1 .. n
    PROVE  Placed(i, Append(SubSeq(q, m + 1, Len(q)), Item(n, cb)), h, p, e \cup d)
<1> DEFINE r == SubSeq(q, m + 1, Len(q))
           x == Item(n, cb)
<1>1. /\ r \in Seq(Items(n)) /\ Len(r) = Len(q) - m
      /\ InQueue(q, i) = {} => InQueue(r, i) = {}
      /\ One(InQueue(q, i)) => IF \E k \in 1 .. m : q[k].id = i THEN InQueue(r, i) = {}
                                                                ELSE One(InQueue(r, i))
  BY DropPlace
<1>2. \A k \in 1 .. Len(q) : q[k] \in Items(n)
  OBVIOUS
<1>3. \A k \in 1 .. Len(q) : (q[k].op = "work" <=> q[k].id # 0) /\ q[k].id # n
  BY <1>2, ItemFacts
<1>4. x \in Items(n + 1) /\ x.id = n
  <2>1. n \in 1 .. (n + 1) - 1
    OBVIOUS
  <2> QED BY <2>1 DEF Items, Item
<1>5. r \in Seq(Items(n + 1))
  <2>1. Items(n) \subseteq Items(n + 1)
    BY ItemFacts
  <2> QED BY <1>1, <2>1, SeqMonotonic
<1> HIDE DEF r, x
<1>6. /\ n # i => InQueue(Append(r, x), i) = InQueue(r, i)
      /\ n = i /\ InQueue(r, i) = {} => One(InQueue(Append(r, x), i))
  BY <1>4, <1>5, AppendPlace
<1>7. CASE i = n
  <2>1. InQueue(q, i) = {}
    <3>1. DOMAIN q = 1 .. Len(q)
      OBVIOUS
    <3>2. \A k \in DOMAIN q : q[k].id # i
      BY <3>1, <1>3, <1>7
    <3> QED BY <3>2 DEF InQueue
  <2>2. InHands(h, i) = {}
    <3>1. \A w \in T : h[w].id # n
      BY ItemFacts
    <3> QED BY <1>7, <3>1 DEF InHands
  <2>3. InPosts(p, i) = {}
    BY <1>7 DEF InPosts
  <2>4. InEnded(e \cup d, i) = {}
    <3>1. \A y \in d : y[1] # n
      BY <1>3
    <3>2. \A y \in e : y[1] # n
      OBVIOUS
    <3> QED BY <1>7, <3>1, <3>2 DEF InEnded
  <2>5. One(InQueue(Append(r, x), i))
    BY <1>1, <1>6, <1>7, <2>1
  <2> QED BY <2>2, <2>3, <2>4, <2>5 DEF Placed, r, x
<1>8. CASE i # n
  <2>1. i \in 1 .. n - 1 /\ i # 0 /\ Placed(i, q, h, p, e)
    BY <1>8
  <2>2. CASE \E k \in 1 .. m : q[k].id = i
    <3>1. PICK k \in 1 .. m : q[k].id = i
      BY <2>2
    <3>2. k \in 1 .. Len(q) /\ q[k].op = "work"
      BY <1>3, <2>1, <3>1
    <3>3. k \in InQueue(q, i)
      BY <3>1, <3>2 DEF InQueue
    <3>4. /\ One(InQueue(q, i)) /\ InHands(h, i) = {} /\ InPosts(p, i) = {}
          /\ InEnded(e, i) = {}
      BY <2>1, <3>3 DEF Placed
    <3>5. <<i, "discarded">> \in d /\ \A y \in d : y[1] = i => y = <<i, "discarded">>
      BY <3>1, <3>2
    <3>6. InEnded(e \cup d, i) = {<<i, "discarded">>}
      BY <3>4, <3>5 DEF InEnded
    <3>7. InQueue(Append(r, x), i) = {}
      BY <1>1, <1>6, <1>8, <2>2, <3>4
    <3> QED BY <3>4, <3>6, <3>7 DEF Placed, One, r, x
  <2>3. CASE ~ \E k \in 1 .. m : q[k].id = i
    <3>1. ASSUME NEW y \in d PROVE y[1] # i
      <4>1. PICK k \in 1 .. m : y = <<q[k].id, "discarded">>
        OBVIOUS
      <4> QED BY <2>3, <4>1
    <3>2. InEnded(e \cup d, i) = InEnded(e, i)
      BY <3>1 DEF InEnded
    <3>3. /\ InQueue(q, i) = {} => InQueue(Append(r, x), i) = {}
          /\ One(InQueue(q, i)) => One(InQueue(Append(r, x), i))
      BY <1>1, <1>6, <1>8, <2>3
    <3> QED BY <2>1, <3>2, <3>3 DEF Placed, r, x
  <2> QED BY <2>2, <2>3
<1> QED BY <1>7, <1>8

-----------------------------------------------------------------------------
(* The invariant of a pool.                                                *)

\* The types of what TypeOK leaves out.
Typed ==
    /\ TypeOK
    /\ queue \in Seq(Items(next)) /\ hand \in [Threads -> Items(next)]
    /\ tries \in [Threads -> 0 .. MaxRecurse]
    /\ posted \in Seq(0 .. next - 1) /\ \A x \in ended : x[1] \in 1 .. next - 1
    /\ reopens \in 0 .. MaxReopens

\* Only a thread that works on an item has one.
EmptyHanded == \A w \in Threads : pc[w] \notin {"taken", "writing", "reading"} => hand[w].id = 0

\* Which pools relay the marker, which wait for their threads, and how long the log's
\* queue can become: every reopen request adds one, and so does the marker.
PoolKinds ==
    /\ kind = "command" => main = "up"
    /\ kind = "log" => /\ \A w \in Threads : pc[w] # "relaying"
                       /\ main # "closing"
                       /\ Len(queue) <= MaxQueue + 1 + reopens + (IF main = "up" THEN 0 ELSE 1)

\* Only the log is told to reopen its file, and a thread keeps no marker.
Works ==
    kind # "log" => /\ \A k \in DOMAIN queue : queue[k].op # "reopen"
                    /\ \A w \in Threads : pc[w] \in {"taken", "writing", "reading"} => hand[w].id # 0

AllPlaced == \A i \in 1 .. next - 1 : Placed(i, queue, hand, posted, ended)

TypeInv == Typed /\ EmptyHanded /\ PoolKinds

PoolInv == TypeInv /\ Works /\ AllPlaced /\ NoLostWakeup /\ MarkerKept

LEMMA NotifiedFacts ==
    ASSUME NEW p \in [Threads -> States], NEW r \in Notified(p)
    PROVE  /\ r \in [Threads -> States]
           /\ \A w \in Threads : r[w] = p[w] \/ (p[w] = "waiting" /\ r[w] = "ready")
           /\ \/ r = p /\ \A w \in Threads : p[w] # "waiting"
              \/ \E w \in Threads : p[w] = "waiting" /\ r = [p EXCEPT ![w] = "ready"]
BY DEF Notified, States

LEMMA PoolInit == Init => PoolInv
<1> SUFFICES ASSUME Init PROVE PoolInv
  OBVIOUS
<1> USE DEF Init
<1>1. Threads = Pool[kind] /\ Marker \in Items(1)
  BY DEF Threads, Items
<1>2. TypeInv
  BY <1>1, BoundsAssumption DEF TypeInv, Typed, TypeOK, EmptyHanded, PoolKinds, States, Nothing,
                                Marker, Ids
<1>3. AllPlaced
  BY DEF AllPlaced
<1>4. NoLostWakeup /\ MarkerKept /\ Works
  BY <1>1 DEF NoLostWakeup, MarkerKept, In, Works
<1> QED BY <1>2, <1>3, <1>4 DEF PoolInv

LEMMA KindKept == [Next]_vars => kind' = kind /\ Threads' = Threads
<1>1. [Next]_vars => kind' = kind
  BY DEF Next, vars, Submit, reopen, ShutSocket, Shutdown, Join, RunPosted, cancel, Work, Wait,
         Take, Relay, CheckCancelled, Execute, ReadResult, SendData, WriteLog, SendRaw, ChildDies,
         Receive, EmptyRead, ReceiveError
<1> QED BY <1>1 DEF Threads

\* Putting a marker or a reopen request into the queue.
LEMMA PutTyped ==
    ASSUME TypeInv, NEW q \in Seq(Items(next)), NEW p \in [Threads -> States],
           NEW x \in {Marker, Reopen}, PutOn(q, p, x), next' = next,
           \A w \in Threads : p[w] = pc[w] \/ (p[w] = "gone" /\ pc[w] \in {"ready", "relaying"})
    PROVE  /\ queue' \in Seq(Items(next')) /\ Len(queue') = Len(q) + 1
           /\ pc' \in [Threads -> States]
           /\ \A w \in Threads : pc'[w] \notin {"taken", "writing", "reading"} =>
                 pc[w] \notin {"taken", "writing", "reading"}
           /\ \A w \in Threads : pc'[w] = "relaying" => pc[w] = "relaying"
<1>1. x \in Items(next)
  BY DEF Items
<1>2. queue' = Append(q, x) /\ pc' \in Notified(p)
  BY DEF PutOn
<1>3. /\ pc' \in [Threads -> States]
      /\ \A w \in Threads : pc'[w] = p[w] \/ (p[w] = "waiting" /\ pc'[w] = "ready")
  BY <1>2, NotifiedFacts
<1>4. Append(q, x) \in Seq(Items(next)) /\ Len(Append(q, x)) = Len(q) + 1
  BY <1>1
<1> QED BY <1>2, <1>3, <1>4

\* A worker is done with its item.
LEMMA FinishTyped ==
    ASSUME TypeInv, NEW w \in Threads, NEW s \in {"ready", "gone"}, NEW how,
           pc[w] \in {"taken", "writing", "reading"}, Finish(w, s, how), next' = next, Threads' = Threads
    PROVE  /\ pc' \in [Threads -> States] /\ hand' \in [Threads -> Items(next')]
           /\ tries' \in [Threads -> 0 .. MaxRecurse]
           /\ posted' \in Seq(0 .. next' - 1) /\ \A x \in ended' : x[1] \in 1 .. next' - 1
           /\ EmptyHanded' /\ \A v \in Threads : pc'[v] = "relaying" => pc[v] = "relaying"
<1> USE DEF TypeInv, Typed, TypeOK
<1>1. next \in Nat /\ hand[w] \in Items(next)
  BY BoundsAssumption
<1>2. hand[w].id \in 0 .. next - 1 /\ (hand[w].op = "work" => hand[w].id \in 1 .. next - 1)
  <2>1. next \in Nat \ {0}
    BY BoundsAssumption
  <2>2. /\ hand[w].id \in 0 .. next - 1 \/ hand[w].id = 0
        /\ hand[w].op = "work" <=> hand[w].id # 0
    BY <1>1, ItemFacts
  <2> QED BY <2>1, <2>2
<1>3. Nothing \in Items(next) /\ Nothing.id = 0
  BY DEF Nothing, Marker, Items
<1>4. pc' \in [Threads -> States] /\ \A v \in Threads : pc'[v] = "relaying" => pc[v] = "relaying"
  BY DEF Finish, States
<1>5. hand' \in [Threads -> Items(next')] /\ tries' \in [Threads -> 0 .. MaxRecurse]
  BY <1>3, BoundsAssumption DEF Finish
<1>6. posted' \in Seq(0 .. next' - 1)
  <2>1. posted' = posted \/ posted' = Append(posted, hand[w].id)
    BY DEF Finish
  <2>2. posted \in Seq(0 .. next - 1)
    OBVIOUS
  <2>3. hand[w].id \in 0 .. next - 1
    BY <1>2
  <2>4. Append(posted, hand[w].id) \in Seq(0 .. next - 1)
    BY <2>2, <2>3, AppendProperties
  <2> QED BY <2>1, <2>2, <2>4, Zenon
<1>7. \A x \in ended' : x[1] \in 1 .. next' - 1
  BY <1>2 DEF Finish
<1>8. EmptyHanded'
  <2>1. ASSUME NEW v \in Threads, pc'[v] \notin {"taken", "writing", "reading"} PROVE hand'[v].id = 0
    <3>1. CASE v = w
      BY <1>3, <3>1 DEF Finish
    <3>2. CASE v # w
      BY <2>1, <3>2 DEF Finish, EmptyHanded
    <3> QED BY <3>1, <3>2
  <2> QED BY <2>1 DEF EmptyHanded
<1> QED BY <1>4, <1>5, <1>6, <1>7, <1>8

LEMMA TypeStep == TypeInv /\ Works /\ [Next]_vars => TypeInv'
<1> SUFFICES ASSUME TypeInv, Works, [Next]_vars PROVE TypeInv'
  OBVIOUS
<1>b. /\ MaxItems \in Nat /\ MaxReopens \in Nat /\ MaxRecurse \in Nat
      /\ MaxQueue \in Nat \ {0} /\ MaxEmpty \in Nat \ {0}
  BY BoundsAssumption
<1>t. /\ kind \in Kinds /\ main \in {"up", "closing", "joining", "down"}
      /\ pc \in [Threads -> States] /\ child \subseteq Threads
      /\ cancelled \subseteq 1 .. MaxItems /\ ran \subseteq 1 .. MaxItems
      /\ next \in 1 .. MaxItems + 1 /\ skt \in {"open", "shut", "closed"}
      /\ rx \in [Receivers -> 0 .. MaxEmpty]
      /\ queue \in Seq(Items(next)) /\ hand \in [Threads -> Items(next)]
      /\ tries \in [Threads -> 0 .. MaxRecurse]
      /\ posted \in Seq(0 .. next - 1) /\ \A x \in ended : x[1] \in 1 .. next - 1
      /\ reopens \in 0 .. MaxReopens
  BY DEF TypeInv, Typed, TypeOK, Ids
<1>e. EmptyHanded /\ PoolKinds
  BY DEF TypeInv
<1>0. kind' = kind /\ Threads' = Threads /\ next \in Nat \ {0}
  BY <1>b, <1>t, KindKept
\* What is left to show of a step once the parts of the invariant it changes are known.
<1>i. ASSUME kind' \in Kinds, main' \in {"up", "closing", "joining", "down"},
             pc' \in [Threads -> States], child' \subseteq Threads,
             cancelled' \subseteq 1 .. MaxItems, ran' \subseteq 1 .. MaxItems,
             next' \in 1 .. MaxItems + 1, skt' \in {"open", "shut", "closed"},
             rx' \in [Receivers -> 0 .. MaxEmpty],
             queue' \in Seq(Items(next')), hand' \in [Threads -> Items(next')],
             tries' \in [Threads -> 0 .. MaxRecurse],
             posted' \in Seq(0 .. next' - 1), \A x \in ended' : x[1] \in 1 .. next' - 1,
             reopens' \in 0 .. MaxReopens, EmptyHanded', PoolKinds'
      PROVE  TypeInv'
  <2>1. kind' = "log" => Len(queue') <= MaxQueue + 2 + MaxReopens
    <3>1. Len(queue') \in Nat
      BY <1>i
    <3>2. kind' = "log" => Len(queue') <= MaxQueue + 1 + reopens' + (IF main' = "up" THEN 0 ELSE 1)
      BY <1>i DEF PoolKinds
    <3> QED BY <1>b, <1>i, <3>1, <3>2
  <2>2. \A w \in Threads : tries'[w] \in 0 .. MaxRecurse
    BY <1>i
  <2> QED BY <1>0, <1>i, <2>1, <2>2 DEF TypeInv, Typed, TypeOK, Ids
<1>1. CASE Submit
  <2> DEFINE r == SubSeq(queue, Excess + 1, Len(queue))
  <2>1. PICK cb \in BOOLEAN : PutOn(r, pc, Item(next, cb))
    BY <1>1 DEF Submit
  <2>2. /\ next' = next + 1 /\ next <= MaxItems /\ main = "up" /\ ended' = ended \cup Discarded
        /\ UNCHANGED <<kind, main, hand, tries, child, cancelled, ran, posted, reopens, reads,
                       deaths, skt, rx>>
    BY <1>1 DEF Submit
  <2>3. Excess \in 0 .. Len(queue) /\ (kind = "log" => Len(queue) - Excess <= MaxQueue)
    <3>1. Len(queue) \in Nat
      BY <1>t
    <3> QED BY <1>b, <3>1 DEF Excess
  <2>4. r \in Seq(Items(next)) /\ Len(r) = Len(queue) - Excess
    BY <1>t, <2>3, DropPlace
  <2>5. Items(next) \subseteq Items(next + 1) /\ Item(next, cb) \in Items(next + 1)
    <3>1. next \in 1 .. (next + 1) - 1
      BY <1>0
    <3>2. Item(next, cb) \in Items(next + 1)
      BY <3>1 DEF Items
    <3> QED BY <1>0, <3>2, ItemFacts
  <2>6. r \in Seq(Items(next + 1))
    BY <2>4, <2>5, SeqMonotonic
  <2> HIDE DEF r
  <2>7. queue' = Append(r, Item(next, cb)) /\ pc' \in Notified(pc)
    BY <2>1 DEF PutOn
  <2>8. queue' \in Seq(Items(next')) /\ Len(queue') = Len(queue) - Excess + 1
    <3>1. /\ Append(r, Item(next, cb)) \in Seq(Items(next + 1))
          /\ Len(Append(r, Item(next, cb))) = Len(r) + 1
      BY <2>5, <2>6, AppendProperties
    <3> QED BY <2>2, <2>4, <2>7, <3>1
  <2>9. /\ pc' \in [Threads -> States]
        /\ \A w \in Threads : pc'[w] = pc[w] \/ (pc[w] = "waiting" /\ pc'[w] = "ready")
    BY <1>t, <2>7, NotifiedFacts
  <2>10. hand' \in [Threads -> Items(next')]
    BY <1>t, <2>2, <2>5
  <2>11. posted' \in Seq(0 .. next' - 1)
    <3>1. 0 .. next - 1 \subseteq 0 .. next' - 1
      BY <1>0, <2>2
    <3>2. posted \in Seq(0 .. next - 1)
      BY <1>t
    <3>3. posted \in Seq(0 .. next' - 1)
      BY <3>1, <3>2, SeqMonotonic
    <3> QED BY <3>3, <2>2
  <2>12. \A x \in ended' : x[1] \in 1 .. next' - 1
    <3>1. ASSUME NEW x \in Discarded PROVE x[1] \in 1 .. next - 1
      <4>1. PICK k \in 1 .. Excess : queue[k].op = "work" /\ x = <<queue[k].id, "discarded">>
        BY <3>1 DEF Discarded
      <4>2. queue[k] \in Items(next)
        BY <1>t, <2>3
      <4>3. queue[k].id \in 1 .. next - 1
        <5>1. /\ queue[k].id \in 0 .. next - 1 \/ queue[k].id = 0
              /\ queue[k].id # 0
          BY <1>0, <4>1, <4>2, ItemFacts
        <5> QED BY <1>0, <5>1
      <4> QED BY <4>1, <4>3
    <3> QED BY <1>0, <1>t, <2>2, <3>1
  <2>13. EmptyHanded'
    BY <1>0, <1>e, <2>2, <2>9 DEF EmptyHanded
  <2>14. PoolKinds'
    <3>1. kind' = "log" => Len(queue') <= MaxQueue + 1 + reopens' + (IF main' = "up" THEN 0 ELSE 1)
      <4>1. Len(queue) \in Nat
        BY <1>t
      <4> QED BY <1>0, <1>b, <1>t, <2>2, <2>3, <2>8, <4>1
    <3> QED BY <1>0, <1>e, <2>2, <2>9, <3>1 DEF PoolKinds
  <2>15. next' \in 1 .. MaxItems + 1
    BY <1>b, <1>t, <2>2
  <2> QED BY <1>i, <1>t, <2>2, <2>8, <2>9, <2>10, <2>11, <2>12, <2>13, <2>14, <2>15
<1>2. CASE reopen
  <2>1. /\ PutOn(queue, pc, Reopen)
        /\ reopens' \in 0 .. MaxReopens /\ reopens' = reopens + 1 /\ main = "up" /\ kind = "log"
        /\ UNCHANGED <<kind, main, hand, tries, child, cancelled, ran, posted, ended, next,
                       skt, rx>>
    BY <1>b, <1>t, <1>2 DEF reopen
  <2>2. /\ queue' \in Seq(Items(next')) /\ Len(queue') = Len(queue) + 1
        /\ pc' \in [Threads -> States]
        /\ \A w \in Threads : pc'[w] \notin {"taken", "writing", "reading"} =>
                 pc[w] \notin {"taken", "writing", "reading"}
        /\ \A w \in Threads : pc'[w] = "relaying" => pc[w] = "relaying"
    <3>1. queue \in Seq(Items(next)) /\ pc \in [Threads -> States] /\ next' = next
      BY <1>t, <2>1
    <3>2. \A w \in Threads : pc[w] = pc[w] \/ (pc[w] = "gone" /\ pc[w] \in {"ready", "relaying"})
      OBVIOUS
    <3> QED BY <2>1, <3>1, <3>2, PutTyped
  <2>3. EmptyHanded'
    BY <1>0, <1>e, <2>1, <2>2 DEF EmptyHanded
  <2>4. PoolKinds'
    <3>1. Len(queue) \in Nat
      BY <1>t
    <3> QED BY <1>0, <1>b, <1>e, <1>t, <2>1, <2>2, <3>1 DEF PoolKinds
  <2>5. main' \in {"up", "closing", "joining", "down"}
    BY <1>t, <2>1
  <2> QED BY <1>i, <1>t, <2>1, <2>2, <2>3, <2>4, <2>5
<1>3. CASE Shutdown
  <2>1. /\ PutOn(queue, pc, Marker)
        /\ main' = (IF kind = "command" THEN "up" ELSE "joining")
        /\ main = (IF kind = "udp" THEN "closing" ELSE "up")
        /\ UNCHANGED <<kind, hand, tries, child, cancelled, ran, posted, ended, next,
                       reopens, skt, rx>>
    BY <1>b, <1>t, <1>3 DEF Shutdown
  <2>2. /\ queue' \in Seq(Items(next')) /\ Len(queue') = Len(queue) + 1
        /\ pc' \in [Threads -> States]
        /\ \A w \in Threads : pc'[w] \notin {"taken", "writing", "reading"} =>
                 pc[w] \notin {"taken", "writing", "reading"}
        /\ \A w \in Threads : pc'[w] = "relaying" => pc[w] = "relaying"
    <3>1. queue \in Seq(Items(next)) /\ pc \in [Threads -> States] /\ next' = next
      BY <1>t, <2>1
    <3>2. \A w \in Threads : pc[w] = pc[w] \/ (pc[w] = "gone" /\ pc[w] \in {"ready", "relaying"})
      OBVIOUS
    <3> QED BY <2>1, <3>1, <3>2, PutTyped
  <2>3. EmptyHanded'
    BY <1>0, <1>e, <2>1, <2>2 DEF EmptyHanded
  <2>4. PoolKinds'
    <3>1. Len(queue) \in Nat
      BY <1>t
    <3> QED BY <1>0, <1>b, <1>e, <1>t, <2>1, <2>2, <3>1 DEF PoolKinds
  <2>5. main' \in {"up", "closing", "joining", "down"}
    BY <1>t, <2>1
  <2> QED BY <1>i, <1>t, <2>1, <2>2, <2>3, <2>4, <2>5
<1>4. CASE ShutSocket
  <2>1. EmptyHanded' /\ PoolKinds'
    BY <1>0, <1>e, <1>4 DEF ShutSocket, EmptyHanded, PoolKinds
  <2> QED BY <1>i, <1>t, <1>4, <2>1 DEF ShutSocket
<1>5. CASE Join
  <2>1. EmptyHanded' /\ PoolKinds'
    BY <1>0, <1>e, <1>5 DEF Join, EmptyHanded, PoolKinds
  <2> QED BY <1>i, <1>t, <1>5, <2>1 DEF Join
<1>6. CASE RunPosted
  <2>1. /\ posted' = Tail(posted) /\ posted # <<>>
        /\ ended' = ended \/ (Head(posted) # 0 /\ ended' = ended \cup {<<Head(posted), "called">>})
        /\ UNCHANGED <<kind, main, queue, pc, hand, tries, child, cancelled, ran, next, reopens,
                       reads, deaths, skt, rx>>
    BY <1>6 DEF RunPosted
  <2>2. Head(posted) \in 0 .. next - 1 /\ Tail(posted) \in Seq(0 .. next - 1)
    BY <1>t, <2>1
  <2>3. \A x \in ended' : x[1] \in 1 .. next' - 1
    <3>1. CASE ended' = ended
      BY <1>t, <2>1, <3>1
    <3>2. CASE Head(posted) # 0 /\ ended' = ended \cup {<<Head(posted), "called">>}
      <4>1. Head(posted) \in 1 .. next - 1
        BY <1>0, <2>2, <3>2
      <4> QED BY <1>t, <2>1, <3>2, <4>1
    <3> QED BY <2>1, <3>1, <3>2
  <2>4. EmptyHanded' /\ PoolKinds'
    BY <1>0, <1>e, <2>1 DEF EmptyHanded, PoolKinds
  <2> QED BY <1>i, <1>t, <2>1, <2>2, <2>3, <2>4
<1>7. ASSUME NEW i \in Ids, cancel(i) PROVE TypeInv'
  <2>1. EmptyHanded' /\ PoolKinds'
    BY <1>0, <1>e, <1>7 DEF cancel, EmptyHanded, PoolKinds
  <2> QED BY <1>i, <1>t, <1>7, <2>1 DEF cancel, Ids
<1>8. ASSUME NEW w \in Threads, Wait(w) PROVE TypeInv'
  <2>1. pc' \in [Threads -> States]
    BY <1>t, <1>8 DEF Wait, States
  <2>2. EmptyHanded' /\ PoolKinds'
    BY <1>0, <1>e, <1>t, <1>8 DEF Wait, EmptyHanded, PoolKinds
  <2> QED BY <1>i, <1>t, <1>8, <2>1, <2>2 DEF Wait
<1>9. ASSUME NEW w \in Threads, Take(w) PROVE TypeInv'
  <2>1. /\ pc[w] = "ready" /\ queue # <<>>
        /\ UNCHANGED <<kind, main, tries, child, cancelled, ran, posted, ended, next, reopens,
                       reads, deaths, skt, rx>>
    BY <1>9 DEF Take
  <2>2. /\ Head(queue) \in Items(next) /\ Tail(queue) \in Seq(Items(next))
        /\ Len(Tail(queue)) = Len(queue) - 1 /\ Len(queue) \in Nat
    BY <1>t, <2>1
  <2>3. CASE Head(queue) # Marker \/ kind # "command"
    <3>1. /\ queue' = Tail(queue)
          /\ \/ pc' = [pc EXCEPT ![w] = "taken"] /\ hand' = [hand EXCEPT ![w] = Head(queue)]
             \/ pc' = [pc EXCEPT ![w] = "gone"] /\ hand' = hand
             \/ pc' = [pc EXCEPT ![w] = "relaying"] /\ hand' = hand /\ kind # "log"
      BY <1>9, <2>3 DEF Take
    <3>2. pc' \in [Threads -> States] /\ hand' \in [Threads -> Items(next)]
      BY <1>t, <2>2, <3>1 DEF States
    <3>3. EmptyHanded'
      BY <1>0, <1>e, <1>t, <2>1, <3>1 DEF EmptyHanded
    <3>4. PoolKinds'
      <4>1. kind = "log" => \A v \in Threads : pc'[v] # "relaying"
        BY <1>e, <1>t, <3>1 DEF PoolKinds
      <4>2. Len(queue') <= Len(queue) /\ Len(queue') \in Nat
        BY <2>2, <3>1
      <4> QED BY <1>0, <1>b, <1>e, <1>t, <2>1, <2>2, <4>1, <4>2 DEF PoolKinds
    <3> QED BY <1>i, <1>t, <2>1, <2>2, <3>1, <3>2, <3>3, <3>4
  <2>4. CASE Head(queue) = Marker /\ kind = "command"
    <3> DEFINE p == [pc EXCEPT ![w] = "gone"]
    <3>1. PutOn(Tail(queue), p, Marker) /\ hand' = hand
      BY <1>9, <2>4 DEF Take
    <3>2. p \in [Threads -> States]
      BY <1>t DEF States
    <3>3. \A v \in Threads : p[v] = pc[v] \/ (p[v] = "gone" /\ pc[v] \in {"ready", "relaying"})
      <4>1. pc \in [Threads -> States]
        BY <1>t
      <4> QED BY <2>1, <4>1
    <3> HIDE DEF p
    <3>4. /\ queue' \in Seq(Items(next')) /\ pc' \in [Threads -> States]
          /\ \A v \in Threads : pc'[v] \notin {"taken", "writing", "reading"} =>
                 pc[v] \notin {"taken", "writing", "reading"}
      BY <2>1, <2>2, <3>1, <3>2, <3>3, PutTyped
    <3>5. EmptyHanded'
      BY <1>0, <1>e, <3>1, <3>4 DEF EmptyHanded
    <3>6. PoolKinds'
      BY <1>0, <1>e, <2>1, <2>4 DEF PoolKinds
    <3> QED BY <1>i, <1>t, <2>1, <3>1, <3>4, <3>5, <3>6
  <2> QED BY <2>3, <2>4
<1>10. ASSUME NEW w \in Threads, Relay(w) PROVE TypeInv'
  <2> DEFINE p == [pc EXCEPT ![w] = "gone"]
  <2>1. /\ PutOn(queue, p, Marker) /\ pc[w] = "relaying"
        /\ UNCHANGED <<kind, main, hand, tries, child, cancelled, ran, posted, ended, next,
                       reopens, reads, deaths, skt, rx>>
    BY <1>10 DEF Relay
  <2>2. p \in [Threads -> States]
    BY <1>t DEF States
  <2>3. \A v \in Threads : p[v] = pc[v] \/ (p[v] = "gone" /\ pc[v] \in {"ready", "relaying"})
    <3>1. pc \in [Threads -> States]
      BY <1>t
    <3> QED BY <2>1, <3>1
  <2> HIDE DEF p
  <2>4. /\ queue' \in Seq(Items(next')) /\ pc' \in [Threads -> States]
        /\ \A v \in Threads : pc'[v] \notin {"taken", "writing", "reading"} =>
               pc[v] \notin {"taken", "writing", "reading"}
    BY <1>t, <2>1, <2>2, <2>3, PutTyped
  <2>5. EmptyHanded'
    BY <1>0, <1>e, <2>1, <2>4 DEF EmptyHanded
  <2>6. kind # "log" /\ PoolKinds'
    BY <1>0, <1>e, <2>1 DEF PoolKinds
  <2> QED BY <1>i, <1>t, <2>1, <2>4, <2>5, <2>6
<1>11. ASSUME NEW w \in Threads, NEW s \in {"ready", "gone"}, NEW how, Finish(w, s, how),
              pc[w] \in {"taken", "writing", "reading"},
              UNCHANGED <<kind, main, queue, child, cancelled, ran, next, reopens, reads,
                          deaths, skt, rx>>
       PROVE  TypeInv'
  <2>1. next' = next
    BY <1>11
  <2>2. /\ pc' \in [Threads -> States] /\ hand' \in [Threads -> Items(next')]
        /\ tries' \in [Threads -> 0 .. MaxRecurse]
        /\ posted' \in Seq(0 .. next' - 1) /\ \A x \in ended' : x[1] \in 1 .. next' - 1
        /\ EmptyHanded' /\ \A v \in Threads : pc'[v] = "relaying" => pc[v] = "relaying"
    BY <1>0, <1>11, <2>1, FinishTyped
  <2>3. PoolKinds'
    BY <1>0, <1>e, <1>11, <2>2 DEF PoolKinds
  <2> QED BY <1>i, <1>t, <1>11, <2>2, <2>3
<1>c. ASSUME NEW w \in Threads, CheckCancelled(w) PROVE TypeInv'
  <2>1. CASE Finish(w, "ready", "cancelled")
    BY <1>11, <1>c, <2>1 DEF CheckCancelled
  <2>2. CASE pc' = [pc EXCEPT ![w] = "writing"] /\ UNCHANGED <<hand, tries, posted, ended>>
    <3>1. pc[w] = "taken" /\ kind = "command"
      BY <1>c DEF CheckCancelled
    <3>2. pc' \in [Threads -> States]
      BY <1>t, <2>2 DEF States
    <3>3. EmptyHanded'
      BY <1>0, <1>e, <1>t, <2>2, <3>1 DEF EmptyHanded
    <3>4. PoolKinds'
      BY <1>0, <1>e, <1>c, <3>1 DEF CheckCancelled, PoolKinds
    <3> QED BY <1>i, <1>t, <1>c, <2>2, <3>2, <3>3, <3>4 DEF CheckCancelled
  <2> QED BY <1>c, <2>1, <2>2 DEF CheckCancelled
<1>12. ASSUME NEW w \in Threads, Execute(w) PROVE TypeInv'
  <2>2. CASE Finish(w, "gone", "lost") /\ UNCHANGED ran
    BY <1>11, <1>12, <2>2 DEF Execute
  <2>3. CASE /\ pc' = [pc EXCEPT ![w] = "reading"] /\ ran' = ran \cup {hand[w].id}
             /\ UNCHANGED <<hand, tries, posted, ended>>
    <3>1. hand[w] \in Items(next) /\ hand[w].id # 0 /\ pc[w] = "writing" /\ kind = "command"
      BY <1>t, <1>12 DEF Execute, Works
    <3>2. hand[w].id \in 1 .. MaxItems
      <4>1. hand[w].id \in 0 .. next - 1 \/ hand[w].id = 0
        BY <1>0, <3>1, ItemFacts
      <4> QED BY <1>0, <1>b, <1>t, <3>1, <4>1
    <3>3. pc' \in [Threads -> States] /\ ran' \subseteq 1 .. MaxItems
      BY <1>t, <2>3, <3>2 DEF States
    <3>4. EmptyHanded'
      BY <1>0, <1>e, <1>t, <2>3, <3>1 DEF EmptyHanded
    <3>5. PoolKinds'
      BY <1>0, <1>e, <1>12, <3>1 DEF Execute, PoolKinds
    <3> QED BY <1>i, <1>t, <1>12, <2>3, <3>3, <3>4, <3>5 DEF Execute
  <2> QED BY <1>12, <2>2, <2>3 DEF Execute
<1>13. ASSUME NEW w \in Threads, ReadResult(w) \/ WriteLog(w) PROVE TypeInv'
  BY <1>11, <1>13 DEF ReadResult, WriteLog
<1>14. ASSUME NEW w \in Threads, SendData(w) PROVE TypeInv'
  BY <1>11, <1>14 DEF SendData
<1>15. ASSUME NEW w \in Threads, SendRaw(w) PROVE TypeInv'
  <2>1. CASE Finish(w, "ready", "answer")
    BY <1>11, <1>15, <2>1 DEF SendRaw
  <2>2. CASE /\ tries[w] < MaxRecurse /\ tries' = [tries EXCEPT ![w] = @ + 1]
             /\ UNCHANGED <<pc, hand, posted, ended>>
    <3>1. tries' \in [Threads -> 0 .. MaxRecurse]
      BY <1>b, <1>t, <2>2
    <3>2. EmptyHanded' /\ PoolKinds'
      BY <1>0, <1>e, <1>15, <2>2 DEF SendRaw, EmptyHanded, PoolKinds
    <3> QED BY <1>i, <1>t, <1>15, <2>2, <3>1, <3>2 DEF SendRaw
  <2> QED BY <1>15, <2>1, <2>2 DEF SendRaw
<1>16. ASSUME NEW w \in Threads, ChildDies(w) PROVE TypeInv'
  <2>1. EmptyHanded' /\ PoolKinds'
    BY <1>0, <1>e, <1>16 DEF ChildDies, EmptyHanded, PoolKinds
  <2> QED BY <1>i, <1>t, <1>16, <2>1 DEF ChildDies
<1>17. ASSUME NEW r \in Receivers, Receive(r) PROVE TypeInv'
  <2>1. posted' \in Seq(0 .. next - 1) /\ rx' \in [Receivers -> 0 .. MaxEmpty]
    <3>1. 0 \in 0 .. next - 1 /\ MaxEmpty \in 0 .. MaxEmpty
      BY <1>0, <1>b
    <3> QED BY <1>t, <1>17, <3>1 DEF Receive
  <2>2. EmptyHanded' /\ PoolKinds'
    BY <1>0, <1>e, <1>17 DEF Receive, EmptyHanded, PoolKinds
  <2> QED BY <1>i, <1>t, <1>17, <2>1, <2>2 DEF Receive
<1>18. ASSUME NEW r \in Receivers, EmptyRead(r) \/ ReceiveError(r) PROVE TypeInv'
  <2>1. rx' \in [Receivers -> 0 .. MaxEmpty]
    BY <1>b, <1>t, <1>18 DEF EmptyRead, ReceiveError
  <2>2. EmptyHanded' /\ PoolKinds'
    BY <1>0, <1>e, <1>18 DEF EmptyRead, ReceiveError, EmptyHanded, PoolKinds
  <2> QED BY <1>i, <1>t, <1>18, <2>1, <2>2 DEF EmptyRead, ReceiveError
<1>19. CASE UNCHANGED vars
  <2>1. EmptyHanded' /\ PoolKinds'
    BY <1>0, <1>e, <1>19 DEF vars, EmptyHanded, PoolKinds
  <2> QED BY <1>i, <1>t, <1>19, <2>1 DEF vars
<1> QED
  BY <1>1, <1>2, <1>3, <1>4, <1>5, <1>6, <1>7, <1>8, <1>9, <1>10, <1>c, <1>12, <1>13, <1>14, <1>15,
     <1>16, <1>17, <1>18, <1>19 DEF Next, Work

LEMMA WorksStep == TypeInv /\ Works /\ [Next]_vars => Works'
<1> SUFFICES ASSUME TypeInv, Works, [Next]_vars, kind # "log" PROVE Works'
  BY KindKept DEF Works
<1>0. /\ kind' = kind /\ Threads' = Threads /\ next \in Nat
      /\ queue \in Seq(Items(next)) /\ pc \in [Threads -> States]
      /\ hand \in [Threads -> Items(next)]
  BY BoundsAssumption, KindKept DEF TypeInv, Typed, TypeOK
<1>1. /\ \A k \in DOMAIN queue : queue[k].op # "reopen"
      /\ \A w \in Threads : pc[w] \in {"taken", "writing", "reading"} => hand[w].id # 0
  BY DEF Works
\* Something else than a reopen request goes into the queue.
<1>2. ASSUME NEW S, NEW q \in Seq(S), \A k \in DOMAIN q : q[k].op # "reopen",
             NEW p \in [Threads -> States], NEW x, x.op # "reopen", PutOn(q, p, x),
             \A w \in Threads : p[w] \in {"taken", "writing", "reading"} => pc[w] \in {"taken", "writing", "reading"},
             hand' = hand
      PROVE  Works'
  <2>1. queue' = Append(q, x) /\ pc' \in Notified(p)
    BY <1>2 DEF PutOn
  <2>2. \A w \in Threads : pc'[w] = p[w] \/ (p[w] = "waiting" /\ pc'[w] = "ready")
    BY <1>2, <2>1, NotifiedFacts
  <2>3. \A k \in DOMAIN queue' : queue'[k].op # "reopen"
    <3>1. /\ DOMAIN queue' = 1 .. Len(q) + 1 /\ Len(q) \in Nat /\ DOMAIN q = 1 .. Len(q)
          /\ queue'[Len(q) + 1] = x /\ \A k \in 1 .. Len(q) : queue'[k] = q[k]
      BY <1>2, <2>1
    <3>2. \A k \in 1 .. Len(q) + 1 : k \in 1 .. Len(q) \/ k = Len(q) + 1
      BY <3>1
    <3> QED BY <1>2, <3>1, <3>2
  <2>4. \A w \in Threads : pc'[w] \in {"taken", "writing", "reading"} => hand'[w].id # 0
    BY <1>1, <1>2, <2>2
  <2> QED BY <1>0, <2>3, <2>4 DEF Works
<1>3. /\ \A cb \in BOOLEAN : Item(next, cb).op # "reopen"
      /\ Marker.op # "reopen"
  BY DEF Item, Marker
<1>4. CASE Submit
  <2>1. PICK cb \in BOOLEAN :
           PutOn(SubSeq(queue, Excess + 1, Len(queue)), pc, Item(next, cb)) /\ hand' = hand
    BY <1>4 DEF Submit
  <2>2. Excess + 1 = 1
    BY DEF Excess
  <2>3. SubSeq(queue, Excess + 1, Len(queue)) = queue
    BY <1>0, <2>2, SubSeqFull
  <2> QED BY <1>0, <1>1, <1>2, <1>3, <2>1, <2>3
<1>5. CASE Shutdown
  BY <1>0, <1>1, <1>2, <1>3, <1>5 DEF Shutdown
<1>6. ASSUME NEW w \in Threads, Relay(w) PROVE Works'
  <2> DEFINE p == [pc EXCEPT ![w] = "gone"]
  <2>1. p \in [Threads -> States] /\ PutOn(queue, p, Marker) /\ hand' = hand
    BY <1>0, <1>6 DEF Relay, States
  <2>2. \A v \in Threads : p[v] \in {"taken", "writing", "reading"} => pc[v] \in {"taken", "writing", "reading"}
    BY <1>0
  <2> HIDE DEF p
  <2> QED BY <1>0, <1>1, <1>2, <1>3, <2>1, <2>2
<1>7. ASSUME NEW w \in Threads, Take(w) PROVE Works'
  <2>1. pc[w] = "ready" /\ queue # <<>>
    BY <1>7 DEF Take
  <2>2. /\ Head(queue) \in Items(next) /\ Head(queue).op # "reopen"
        /\ Tail(queue) \in Seq(Items(next)) /\ \A k \in DOMAIN Tail(queue) : Tail(queue)[k].op # "reopen"
    <3>1. /\ DOMAIN queue = 1 .. Len(queue) /\ DOMAIN Tail(queue) = 1 .. Len(queue) - 1
          /\ \A k \in 1 .. Len(queue) - 1 : Tail(queue)[k] = queue[k + 1]
          /\ Head(queue) = queue[1] /\ 1 \in DOMAIN queue /\ Len(queue) \in Nat
          /\ Head(queue) \in Items(next) /\ Tail(queue) \in Seq(Items(next))
      BY <1>0, <2>1
    <3>2. \A k \in 1 .. Len(queue) - 1 : k + 1 \in DOMAIN queue
      BY <3>1
    <3> QED BY <1>1, <3>1, <3>2
  <2>3. CASE Head(queue) # Marker
    <3>1. /\ queue' = Tail(queue) /\ pc' = [pc EXCEPT ![w] = "taken"]
          /\ hand' = [hand EXCEPT ![w] = Head(queue)]
      BY <1>7, <2>3 DEF Take
    <3>2. Head(queue).id # 0
      BY <2>2, <2>3 DEF Items, Reopen, Item
    <3>3. \A v \in Threads : pc'[v] \in {"taken", "writing", "reading"} => hand'[v].id # 0
      BY <1>0, <1>1, <3>1, <3>2
    <3> QED BY <1>0, <2>2, <3>1, <3>3 DEF Works
  <2>4. CASE Head(queue) = Marker /\ kind # "command"
    <3>1. queue' = Tail(queue) /\ pc' = [pc EXCEPT ![w] = "relaying"] /\ hand' = hand
      BY <1>7, <2>4 DEF Take
    <3>2. \A v \in Threads : pc'[v] \in {"taken", "writing", "reading"} => hand'[v].id # 0
      BY <1>0, <1>1, <3>1
    <3> QED BY <1>0, <2>2, <3>1, <3>2 DEF Works
  <2>5. CASE Head(queue) = Marker /\ kind = "command"
    <3> DEFINE p == [pc EXCEPT ![w] = "gone"]
    <3>1. p \in [Threads -> States] /\ PutOn(Tail(queue), p, Marker) /\ hand' = hand
      BY <1>0, <1>7, <2>5 DEF Take, States
    <3>2. \A v \in Threads : p[v] \in {"taken", "writing", "reading"} => pc[v] \in {"taken", "writing", "reading"}
      BY <1>0
    <3> HIDE DEF p
    <3> QED BY <1>0, <1>2, <1>3, <2>2, <3>1, <3>2
  <2> QED BY <2>3, <2>4, <2>5
<1>8. ASSUME NEW w \in Threads, NEW s \in {"ready", "gone"}, NEW how, Finish(w, s, how),
             queue' = queue
      PROVE  Works'
  <2>1. \A v \in Threads : pc'[v] \in {"taken", "writing", "reading"} => hand'[v].id # 0
    BY <1>0, <1>1, <1>8 DEF Finish
  <2> QED BY <1>0, <1>1, <1>8, <2>1 DEF Works
<1>c. ASSUME NEW w \in Threads, CheckCancelled(w) PROVE Works'
  <2>1. CASE pc' = [pc EXCEPT ![w] = "writing"] /\ hand' = hand
    <3>1. \A v \in Threads : pc'[v] \in {"taken", "writing", "reading"} => hand'[v].id # 0
      BY <1>0, <1>1, <1>c, <2>1 DEF CheckCancelled
    <3> QED BY <1>0, <1>1, <1>c, <3>1 DEF CheckCancelled, Works
  <2> QED BY <1>8, <1>c, <2>1 DEF CheckCancelled
<1>9. ASSUME NEW w \in Threads, Execute(w) PROVE Works'
  <2>1. CASE pc' = [pc EXCEPT ![w] = "reading"] /\ hand' = hand
    <3>1. \A v \in Threads : pc'[v] \in {"taken", "writing", "reading"} => hand'[v].id # 0
      BY <1>0, <1>1, <1>9, <2>1 DEF Execute
    <3> QED BY <1>0, <1>1, <1>9, <3>1 DEF Execute, Works
  <2> QED BY <1>8, <1>9, <2>1 DEF Execute
<1>10. ASSUME NEW w \in Threads, ReadResult(w) \/ SendData(w) \/ SendRaw(w) PROVE Works'
  <2>1. CASE UNCHANGED <<pc, hand, queue>>
    BY <1>0, <1>1, <2>1 DEF Works
  <2> QED BY <1>8, <1>10, <2>1 DEF ReadResult, SendData, SendRaw
<1>11. ASSUME NEW w \in Threads, Wait(w) PROVE Works'
  <2>1. \A v \in Threads : pc'[v] \in {"taken", "writing", "reading"} => hand'[v].id # 0
    BY <1>0, <1>1, <1>11 DEF Wait
  <2> QED BY <1>0, <1>1, <1>11, <2>1 DEF Wait, Works
<1>12. CASE UNCHANGED <<queue, pc, hand>>
  BY <1>0, <1>1, <1>12 DEF Works
<1> QED
  BY <1>4, <1>5, <1>6, <1>7, <1>c, <1>9, <1>10, <1>11, <1>12
     DEF Next, Work, vars, reopen, ShutSocket, Join, RunPosted, cancel, WriteLog, ChildDies,
         Receive, EmptyRead, ReceiveError

\* OnePlace is inductive: every step that moves an item takes it out of one place
\* and puts it into the next.
LEMMA PlacedStep == TypeInv /\ AllPlaced /\ [Next]_vars => AllPlaced'
<1> SUFFICES ASSUME TypeInv, AllPlaced, [Next]_vars PROVE AllPlaced'
  OBVIOUS
<1>0. /\ next \in Nat \ {0} /\ queue \in Seq(Items(next)) /\ hand \in [Threads -> Items(next)]
      /\ posted \in Seq(0 .. next - 1) /\ \A x \in ended : x[1] \in 1 .. next - 1
      /\ pc \in [Threads -> States]
  BY BoundsAssumption DEF TypeInv, Typed, TypeOK
<1>1. \A i \in 1 .. next - 1 : Placed(i, queue, hand, posted, ended)
  BY DEF AllPlaced
<1>2. Marker \in Items(next) /\ Reopen \in Items(next) /\ Marker.id = 0 /\ Reopen.id = 0
  BY DEF Items, Marker, Reopen
\* A marker or a reopen request is no item.
<1>3. ASSUME NEW x \in {Marker, Reopen}, queue' = Append(queue, x),
             UNCHANGED <<hand, posted, ended, next>>
      PROVE  AllPlaced'
  <2>1. ASSUME NEW i \in 1 .. next - 1 PROVE Placed(i, queue', hand, posted, ended)
    <3>1. x \in Items(next) /\ x.id # i
      BY <1>2, <2>1
    <3>2. InQueue(queue', i) = InQueue(queue, i)
      BY <1>0, <1>3, <3>1, AppendPlace
    <3> QED BY <1>1, <2>1, <3>2 DEF Placed
  <2> QED BY <1>3, <2>1 DEF AllPlaced
<1>4. CASE Submit
  <2>1. PICK cb \in BOOLEAN : queue' = Append(SubSeq(queue, Excess + 1, Len(queue)), Item(next, cb))
    BY <1>4 DEF Submit, PutOn
  <2>2. next' = next + 1 /\ ended' = ended \cup Discarded /\ hand' = hand /\ posted' = posted
    BY <1>4 DEF Submit
  <2>3. Excess \in 0 .. Len(queue)
    <3>1. Len(queue) \in Nat /\ MaxQueue \in Nat
      BY <1>0, BoundsAssumption
    <3> QED BY <3>1 DEF Excess
  <2>4. \A i \in 1 .. next : Placed(i, queue', hand, posted, ended \cup Discarded)
    <3> DEFINE d == {<<queue[k].id, "discarded">> : k \in {l \in 1 .. Excess : queue[l].op = "work"}}
    <3>1. Discarded = d
      BY DEF Discarded
    <3> HIDE DEF d
    <3>2. \A i \in 1 .. next : Placed(i, Append(SubSeq(queue, Excess + 1, Len(queue)), Item(next, cb)),
                                      hand, posted, ended \cup d)
      BY <1>0, <1>1, <2>3, SubmitPlace DEF d
    <3> QED BY <2>1, <3>1, <3>2
  <2>5. 1 .. next' - 1 = 1 .. next
    BY <1>0, <2>2
  <2> QED BY <2>2, <2>4, <2>5 DEF AllPlaced
<1>5. CASE reopen
  BY <1>3, <1>5 DEF reopen, PutOn
<1>6. CASE Shutdown
  BY <1>3, <1>6 DEF Shutdown, PutOn
<1>7. ASSUME NEW w \in Threads, Relay(w) PROVE AllPlaced'
  BY <1>3, <1>7 DEF Relay, PutOn
<1>8. CASE RunPosted
  <2>1. /\ posted' = Tail(posted) /\ posted # <<>> /\ queue' = queue /\ hand' = hand /\ next' = next
        /\ \/ Head(posted) = 0 /\ ended' = ended
           \/ ended' = ended \cup {<<Head(posted), "called">>}
    BY <1>8 DEF RunPosted
  <2>2. ASSUME NEW i \in 1 .. next - 1
        PROVE  /\ Placed(i, queue, hand, Tail(posted), ended \cup {<<Head(posted), "called">>})
               /\ Head(posted) = 0 => Placed(i, queue, hand, Tail(posted), ended)
    <3>1. next \in Nat
      BY <1>0
    <3> QED BY <1>0, <1>1, <2>1, <2>2, <3>1, CallPlace
  <2>3. \A i \in 1 .. next - 1 : Placed(i, queue', hand', posted', ended')
    BY <2>1, <2>2
  <2> QED BY <2>1, <2>3 DEF AllPlaced
<1>9. ASSUME NEW w \in Threads, Take(w) PROVE AllPlaced'
  <2>1. /\ pc[w] = "ready" /\ queue # <<>> /\ UNCHANGED <<posted, ended, next>>
    BY <1>9 DEF Take
  <2>2. hand[w].id = 0
    BY <2>1 DEF TypeInv, EmptyHanded
  <2>3. CASE Head(queue) # Marker
    <3>1. queue' = Tail(queue) /\ hand' = [hand EXCEPT ![w] = Head(queue)]
      BY <1>9, <2>3 DEF Take
    <3>2. \A i \in 1 .. next - 1 : Placed(i, Tail(queue), [hand EXCEPT ![w] = Head(queue)], posted, ended)
      <4>1. next \in Nat
        BY <1>0
      <4> QED BY <1>0, <1>1, <2>1, <2>2, <4>1, TakePlace
    <3>3. \A i \in 1 .. next - 1 : Placed(i, queue', hand', posted', ended')
      BY <2>1, <3>1, <3>2
    <3> QED BY <2>1, <3>3 DEF AllPlaced
  <2>4. CASE Head(queue) = Marker
    <3>1. hand' = hand /\ (queue' = Tail(queue) \/ queue' = Append(Tail(queue), Marker))
      BY <1>9, <2>4 DEF Take, PutOn
    <3>2. ASSUME NEW i \in 1 .. next - 1 PROVE Placed(i, queue', hand, posted, ended)
      <4>1. Head(queue).id # i /\ Marker.id # i
        BY <1>2, <2>4, <3>2
      <4>2. /\ InQueue(queue, i) = {} => InQueue(Tail(queue), i) = {}
            /\ One(InQueue(queue, i)) => One(InQueue(Tail(queue), i))
        BY <1>0, <2>1, <4>1, TailPlace
      <4>3. Tail(queue) \in Seq(Items(next))
        BY <1>0, <2>1
      <4>4. InQueue(queue', i) = InQueue(Tail(queue), i)
        <5>1. InQueue(Append(Tail(queue), Marker), i) = InQueue(Tail(queue), i)
          BY <1>2, <4>1, <4>3, AppendPlace
        <5> QED BY <3>1, <5>1
      <4> QED BY <1>1, <3>2, <4>2, <4>4 DEF Placed
    <3> QED BY <2>1, <3>1, <3>2 DEF AllPlaced
  <2> QED BY <2>3, <2>4
<1>10. ASSUME NEW w \in Threads, NEW s, NEW how, Finish(w, s, how), UNCHANGED <<queue, next>>
       PROVE  AllPlaced'
  <2>1. /\ hand[w] \in Items(next) /\ hand[w].id \in 0 .. next - 1
        /\ hand[w].op # "work" => hand[w].id = 0
    <3>1. hand[w] \in Items(next) /\ next \in Nat
      BY <1>0
    <3>2. /\ hand[w].id \in 0 .. next - 1 \/ hand[w].id = 0
          /\ hand[w].op = "work" <=> hand[w].id # 0
      BY <3>1, ItemFacts
    <3> QED BY <1>0, <3>1, <3>2
  <2>2. /\ hand' = [hand EXCEPT ![w] = Nothing]
        /\ \/ posted' = Append(posted, hand[w].id) /\ ended' = ended
           \/ posted' = posted /\ ended' = ended \cup {<<hand[w].id, how>>}
           \/ posted' = posted /\ ended' = ended /\ hand[w].op # "work"
    BY <1>10 DEF Finish
  <2>3. ASSUME NEW i \in 1 .. next - 1
        PROVE  LET g == [hand EXCEPT ![w] = Nothing] IN
               /\ Placed(i, queue, g, Append(posted, hand[w].id), ended)
               /\ Placed(i, queue, g, posted, ended \cup {<<hand[w].id, how>>})
               /\ hand[w].id = 0 => Placed(i, queue, g, posted, ended)
    <3>1. next \in Nat /\ Placed(i, queue, hand, posted, ended)
      BY <1>0, <1>1, <2>3
    <3> QED BY <1>0, <2>1, <3>1, FinishPlace
  <2>4. \A i \in 1 .. next - 1 : Placed(i, queue, hand', posted', ended')
    BY <2>1, <2>2, <2>3
  <2> QED BY <1>10, <2>4 DEF AllPlaced
<1>11. CASE UNCHANGED <<queue, hand, posted, ended, next>>
  BY <1>1, <1>11 DEF AllPlaced
<1>12. ASSUME NEW w \in Threads,
              CheckCancelled(w) \/ Execute(w) \/ ReadResult(w) \/ SendData(w) \/ SendRaw(w)
                \/ WriteLog(w)
       PROVE  AllPlaced'
  BY <1>10, <1>11, <1>12 DEF CheckCancelled, Execute, ReadResult, SendData, SendRaw, WriteLog
<1>13. ASSUME NEW r \in Receivers, Receive(r) PROVE AllPlaced'
  <2>1. posted' = Append(posted, 0) /\ UNCHANGED <<queue, hand, ended, next>>
    BY <1>13 DEF Receive
  <2>2. ASSUME NEW i \in 1 .. next - 1 PROVE InPosts(posted', i) = InPosts(posted, i)
    <3>1. /\ DOMAIN posted' = 1 .. Len(posted) + 1 /\ posted'[Len(posted) + 1] = 0
          /\ DOMAIN posted = 1 .. Len(posted) /\ Len(posted) \in Nat
          /\ \A k \in 1 .. Len(posted) : posted'[k] = posted[k]
      BY <1>0, <2>1
    <3>2. i # 0
      BY <2>2
    <3> QED BY <3>1, <3>2 DEF InPosts
  <2>3. \A i \in 1 .. next - 1 : Placed(i, queue, hand, posted', ended)
    BY <1>1, <2>2 DEF Placed
  <2> QED BY <2>1, <2>3 DEF AllPlaced
<1> QED
  BY <1>4, <1>5, <1>6, <1>7, <1>8, <1>9, <1>11, <1>12, <1>13
     DEF Next, Work, vars, ShutSocket, Join, cancel, Wait, ChildDies, EmptyRead, ReceiveError

\* How many threads are in a state.
Count(p, s) == Cardinality({w \in DOMAIN p : p[w] = s})

LEMMA CountType ==
    ASSUME NEW T, IsFiniteSet(T), NEW p \in [T -> States]
    PROVE  IsFiniteSet({w \in DOMAIN p : p[w] = "ready"}) /\ Count(p, "ready") \in Nat
<1> DEFINE P == {w \in DOMAIN p : p[w] = "ready"}
<1>1. P \in SUBSET T
  OBVIOUS
<1> HIDE DEF P
<1>2. IsFiniteSet(P)
  BY <1>1, FS_Subset
<1>3. Cardinality(P) \in Nat
  BY <1>2, FS_CardinalityType
<1> QED BY <1>2, <1>3 DEF Count, P

LEMMA CountMore ==
    ASSUME NEW T, IsFiniteSet(T), NEW p \in [T -> States], NEW w \in T, p[w] # "ready"
    PROVE  Count([p EXCEPT ![w] = "ready"], "ready") = Count(p, "ready") + 1
<1> DEFINE P == {v \in DOMAIN p : p[v] = "ready"}
           R == {v \in DOMAIN [p EXCEPT ![w] = "ready"] : [p EXCEPT ![w] = "ready"][v] = "ready"}
<1>1. w \notin P /\ R = P \cup {w}
  OBVIOUS
<1>2. IsFiniteSet(P)
  BY CountType
<1> HIDE DEF P, R
<1>3. Cardinality(R) = Cardinality(P) + 1
  BY <1>1, <1>2, FS_AddElement
<1> QED BY <1>3 DEF Count, P, R

LEMMA CountLess ==
    ASSUME NEW T, IsFiniteSet(T), NEW p \in [T -> States], NEW w \in T, NEW s, s # "ready"
    PROVE  Count([p EXCEPT ![w] = s], "ready") =
              Count(p, "ready") - (IF p[w] = "ready" THEN 1 ELSE 0)
<1> DEFINE P == {v \in DOMAIN p : p[v] = "ready"}
           R == {v \in DOMAIN [p EXCEPT ![w] = s] : [p EXCEPT ![w] = s][v] = "ready"}
<1>1. R = P \ {w} /\ (w \in P <=> p[w] = "ready")
  OBVIOUS
<1>2. IsFiniteSet(P) /\ Cardinality(P) \in Nat
  BY CountType DEF Count
<1> HIDE DEF P, R
<1>3. Cardinality(R) = IF w \in P THEN Cardinality(P) - 1 ELSE Cardinality(P)
  BY <1>1, <1>2, FS_RemoveElement
<1>4. Cardinality(R) = Cardinality(P) - (IF p[w] = "ready" THEN 1 ELSE 0)
  BY <1>1, <1>2, <1>3
<1> QED BY <1>4 DEF Count, P, R

\* NoLostWakeup, for the states p of the threads and a queue of length n.
Awake(p, n) == (\E w \in DOMAIN p : p[w] = "waiting") => n <= Count(p, "ready")

\* Appending and notifying keeps it.
LEMMA PutAwake ==
    ASSUME IsFiniteSet(Threads), NEW p \in [Threads -> States], NEW n \in Nat, Awake(p, n),
           NEW r \in Notified(p), NEW m \in Nat, m <= n + 1
    PROVE  Awake(r, m)
<1>1. CASE r = p /\ \A w \in Threads : p[w] # "waiting"
  BY <1>1 DEF Awake
<1>2. CASE \E w \in Threads : p[w] = "waiting" /\ r = [p EXCEPT ![w] = "ready"]
  <2>1. PICK w \in Threads : p[w] = "waiting" /\ r = [p EXCEPT ![w] = "ready"]
    BY <1>2
  <2>2. Count(p, "ready") \in Nat /\ Count(r, "ready") = Count(p, "ready") + 1
    <3>1. Count([p EXCEPT ![w] = "ready"], "ready") = Count(p, "ready") + 1
      BY <2>1, CountMore
    <3> QED BY <2>1, <3>1, CountType
  <2>3. n <= Count(p, "ready")
    BY <2>1 DEF Awake
  <2> QED BY <2>2, <2>3 DEF Awake
<1> QED BY <1>1, <1>2, NotifiedFacts

LEMMA AwakeStep == TypeInv /\ TypeInv' /\ NoLostWakeup /\ [Next]_vars => NoLostWakeup'
<1> SUFFICES ASSUME TypeInv, TypeInv', NoLostWakeup, [Next]_vars PROVE NoLostWakeup'
  OBVIOUS
<1>0. /\ Threads' = Threads /\ pc \in [Threads -> States] /\ pc' \in [Threads -> States]
      /\ queue \in Seq(Items(next)) /\ Len(queue) \in Nat /\ IsFiniteSet(Threads)
      /\ Len(queue') \in Nat
  <2>1. Threads' = Threads /\ pc \in [Threads -> States] /\ queue \in Seq(Items(next))
    BY KindKept DEF TypeInv, Typed, TypeOK
  <2>2. IsFiniteSet(Threads)
    BY BoundsAssumption DEF TypeInv, Typed, TypeOK, Threads
  <2>3. pc' \in [Threads -> States] /\ queue' \in Seq(Items(next'))
    BY <2>1 DEF TypeInv, Typed, TypeOK
  <2> QED BY <2>1, <2>2, <2>3
<1>1. Awake(pc, Len(queue))
  <2>1. In("ready") = {w \in DOMAIN pc : pc[w] = "ready"}
    BY <1>0 DEF In
  <2>2. (\E w \in DOMAIN pc : pc[w] = "waiting") => In("waiting") # {}
    BY <1>0 DEF In
  <2> QED BY <2>1, <2>2 DEF NoLostWakeup, Awake, Count
<1>2. SUFFICES Awake(pc', Len(queue'))
  <2>1. In("ready")' = {w \in DOMAIN pc' : pc'[w] = "ready"}
    BY <1>0 DEF In
  <2>2. In("waiting")' # {} => \E w \in DOMAIN pc' : pc'[w] = "waiting"
    BY <1>0 DEF In
  <2> QED BY <1>2, <2>1, <2>2 DEF NoLostWakeup, Awake, Count
\* A thread that leaves a state other than "ready", and does not go to sleep.
<1>3. ASSUME NEW w \in Threads, NEW s \in {"ready", "writing", "reading", "relaying", "gone"},
             pc[w] \notin {"ready", s}
      PROVE  Awake([pc EXCEPT ![w] = s], Len(queue))
  <2> DEFINE r == [pc EXCEPT ![w] = s]
  <2>1. Count(pc, "ready") \in Nat /\ Count(r, "ready") \in Nat /\ Count(r, "ready") >= Count(pc, "ready")
    <3>1. Count(pc, "ready") \in Nat
      BY <1>0, CountType
    <3>2. Count(r, "ready") = Count(pc, "ready") + 1 \/ Count(r, "ready") = Count(pc, "ready")
      <4>1. CASE s = "ready"
        BY <1>0, <1>3, <4>1, CountMore
      <4>2. CASE s # "ready"
        <5>1. Count(r, "ready") = Count(pc, "ready") - (IF pc[w] = "ready" THEN 1 ELSE 0)
          BY <1>0, <4>2, CountLess
        <5> QED BY <1>3, <3>1, <5>1
      <4> QED BY <4>1, <4>2
    <3> HIDE DEF r
    <3> QED BY <3>1, <3>2
  <2>2. (\E v \in DOMAIN r : r[v] = "waiting") => \E v \in DOMAIN pc : pc[v] = "waiting"
    BY <1>0, <1>3
  <2> HIDE DEF r
  <2>3. Awake(r, Len(queue))
    BY <1>0, <1>1, <2>1, <2>2 DEF Awake
  <2> QED BY <2>3 DEF r
\* A thread that takes the oldest entry.
<1>4. ASSUME NEW w \in Threads, NEW s \in {"taken", "relaying", "gone"}, pc[w] = "ready", queue # <<>>
      PROVE  Awake([pc EXCEPT ![w] = s], Len(queue) - 1) /\ Len(queue) - 1 \in Nat
  <2> DEFINE r == [pc EXCEPT ![w] = s]
  <2>1. Count(pc, "ready") \in Nat /\ Count(r, "ready") = Count(pc, "ready") - 1
    <3>1. Count(pc, "ready") \in Nat
      BY <1>0, CountType
    <3>2. Count(r, "ready") = Count(pc, "ready") - (IF pc[w] = "ready" THEN 1 ELSE 0)
      BY <1>0, <1>4, CountLess
    <3> QED BY <1>4, <3>1, <3>2
  <2>2. (\E v \in DOMAIN r : r[v] = "waiting") => \E v \in DOMAIN pc : pc[v] = "waiting"
    BY <1>0, <1>4
  <2>3. Len(queue) - 1 \in Nat
    BY <1>0, <1>4
  <2> HIDE DEF r
  <2>4. Awake(r, Len(queue) - 1)
    BY <1>0, <1>1, <2>1, <2>2 DEF Awake
  <2> QED BY <2>3, <2>4 DEF r
<1>5. CASE Submit
  <2>1. PICK cb \in BOOLEAN : /\ queue' = Append(SubSeq(queue, Excess + 1, Len(queue)), Item(next, cb))
                             /\ pc' \in Notified(pc)
    BY <1>5 DEF Submit, PutOn
  <2>2. Excess \in 0 .. Len(queue)
    <3>1. MaxQueue \in Nat
      BY BoundsAssumption
    <3> QED BY <1>0, <3>1 DEF Excess
  <2> DEFINE r == SubSeq(queue, Excess + 1, Len(queue))
  <2>3. r \in Seq(Items(next)) /\ Len(r) = Len(queue) - Excess
    BY <1>0, <2>2, DropPlace
  <2> HIDE DEF r
  <2>4. Len(Append(r, Item(next, cb))) = Len(r) + 1
    BY <2>3
  <2>5. Len(queue') <= Len(queue) + 1
    BY <1>0, <2>1, <2>2, <2>3, <2>4 DEF r
  <2> QED BY <1>0, <1>1, <2>1, <2>5, PutAwake
<1>6. CASE reopen \/ Shutdown
  <2>1. pc' \in Notified(pc) /\ \E x : queue' = Append(queue, x)
    BY <1>6 DEF reopen, Shutdown, PutOn
  <2>2. Len(queue') = Len(queue) + 1
    BY <1>0, <2>1
  <2> QED BY <1>0, <1>1, <2>1, <2>2, PutAwake
<1>7. ASSUME NEW w \in Threads, Relay(w) PROVE Awake(pc', Len(queue'))
  <2> DEFINE p == [pc EXCEPT ![w] = "gone"]
  <2>1. pc[w] = "relaying" /\ pc' \in Notified(p) /\ queue' = Append(queue, Marker)
    BY <1>7 DEF Relay, PutOn
  <2>2. Len(queue') = Len(queue) + 1
    BY <1>0, <2>1
  <2>3. p \in [Threads -> States]
    BY <1>0 DEF States
  <2>4. Awake(p, Len(queue))
    BY <1>3, <2>1
  <2> HIDE DEF p
  <2> QED BY <1>0, <2>1, <2>2, <2>3, <2>4, PutAwake
<1>8. ASSUME NEW w \in Threads, Take(w) PROVE Awake(pc', Len(queue'))
  <2>1. pc[w] = "ready" /\ queue # <<>> /\ Len(Tail(queue)) = Len(queue) - 1 /\ Tail(queue) \in Seq(Items(next))
    BY <1>0, <1>8 DEF Take
  <2>2. CASE queue' = Tail(queue) /\ \E s \in {"taken", "relaying", "gone"} : pc' = [pc EXCEPT ![w] = s]
    BY <1>4, <2>1, <2>2
  <2>3. CASE PutOn(Tail(queue), [pc EXCEPT ![w] = "gone"], Marker)
    <3> DEFINE p == [pc EXCEPT ![w] = "gone"]
    <3>1. p \in [Threads -> States] /\ Awake(p, Len(queue) - 1) /\ Len(queue) - 1 \in Nat
      BY <1>0, <1>4, <2>1 DEF States
    <3>2. pc' \in Notified(p) /\ queue' = Append(Tail(queue), Marker)
      BY <2>3 DEF PutOn
    <3> HIDE DEF p
    <3>3. Len(queue') = Len(queue) - 1 + 1
      BY <1>0, <2>1, <3>2
    <3> QED BY <1>0, <3>1, <3>2, <3>3, PutAwake
  <2> QED BY <1>8, <2>2, <2>3 DEF Take
<1>9. ASSUME NEW w \in Threads,
             CheckCancelled(w) \/ Execute(w) \/ ReadResult(w) \/ SendData(w) \/ SendRaw(w)
               \/ WriteLog(w)
      PROVE  Awake(pc', Len(queue'))
  <2>1. /\ queue' = queue /\ pc[w] \in {"taken", "writing", "reading"}
        /\ \/ pc' = pc
           \/ pc[w] = "taken" /\ pc' = [pc EXCEPT ![w] = "writing"]
           \/ pc[w] = "writing" /\ pc' = [pc EXCEPT ![w] = "reading"]
           \/ \E s \in {"ready", "gone"} : pc' = [pc EXCEPT ![w] = s]
    BY <1>9 DEF CheckCancelled, Execute, ReadResult, SendData, SendRaw, WriteLog, Finish
  <2> QED BY <1>1, <1>3, <2>1
<1>10. ASSUME NEW w \in Threads, Wait(w) PROVE Awake(pc', Len(queue'))
  <2>1. Len(queue') = 0
    BY <1>10 DEF Wait
  <2>2. Count(pc', "ready") \in Nat
    BY <1>0, CountType
  <2> QED BY <2>1, <2>2 DEF Awake
<1>11. CASE UNCHANGED <<pc, queue>>
  BY <1>1, <1>11
<1> QED
  BY <1>5, <1>6, <1>7, <1>8, <1>9, <1>10, <1>11
     DEF Next, Work, vars, ShutSocket, Join, RunPosted, cancel, ChildDies, Receive, EmptyRead,
         ReceiveError

\* The marker is in the queue q.
HasMarker(q) == \E k \in DOMAIN q : q[k] = Marker

LEMMA AppendMarker ==
    ASSUME NEW S, NEW q \in Seq(S), NEW x
    PROVE  /\ HasMarker(q) => HasMarker(Append(q, x))
           /\ HasMarker(Append(q, Marker))
<1>1. /\ DOMAIN q = 1 .. Len(q) /\ Len(q) \in Nat
      /\ \A y : DOMAIN Append(q, y) = 1 .. Len(q) + 1
      /\ \A y : \A k \in 1 .. Len(q) : Append(q, y)[k] = q[k]
      /\ \A y : Append(q, y)[Len(q) + 1] = y
  OBVIOUS
<1>2. Len(q) + 1 \in 1 .. Len(q) + 1 /\ \A k \in 1 .. Len(q) : k \in 1 .. Len(q) + 1
  BY <1>1
<1> QED BY <1>1, <1>2 DEF HasMarker

LEMMA TailMarker ==
    ASSUME NEW S, NEW q \in Seq(S), q # <<>>, Head(q) # Marker, HasMarker(q)
    PROVE  HasMarker(Tail(q))
<1>1. PICK k \in DOMAIN q : q[k] = Marker
  BY DEF HasMarker
<1>2. /\ DOMAIN q = 1 .. Len(q) /\ DOMAIN Tail(q) = 1 .. Len(q) - 1 /\ Head(q) = q[1]
      /\ \A j \in 1 .. Len(q) - 1 : Tail(q)[j] = q[j + 1] /\ Len(q) \in Nat
  OBVIOUS
<1>3. k - 1 \in 1 .. Len(q) - 1 /\ (k - 1) + 1 = k
  BY <1>1, <1>2
<1>4. Tail(q)[k - 1] = Marker
  BY <1>1, <1>2, <1>3
<1> QED BY <1>2, <1>3, <1>4 DEF HasMarker

LEMMA MarkerStep == TypeInv /\ MarkerKept /\ [Next]_vars => MarkerKept'
<1> SUFFICES ASSUME TypeInv, MarkerKept, [Next]_vars, main' = "joining", ~Gone(pc)'
             PROVE  HasMarker(queue') \/ \E w \in Threads' : pc'[w] = "relaying"
  BY DEF MarkerKept, HasMarker, In, Range
<1>0. /\ kind' = kind /\ Threads' = Threads /\ kind \in Kinds
      /\ queue \in Seq(Items(next)) /\ pc \in [Threads -> States]
  BY KindKept DEF TypeInv, Typed, TypeOK
<1>1. main = "joining" /\ ~Gone(pc) => HasMarker(queue) \/ \E w \in Threads : pc[w] = "relaying"
  BY DEF MarkerKept, HasMarker, In, Range
<1>2. \E w \in Threads : pc'[w] # "gone"
  BY <1>0 DEF Gone
\* A step that leaves the queue alone and stops nobody from relaying.
<1>3. ASSUME main = "joining", queue' = queue,
             \A w \in Threads : /\ pc[w] = "gone" => pc'[w] = "gone"
                                /\ pc[w] = "relaying" => pc'[w] = "relaying"
      PROVE  HasMarker(queue') \/ \E w \in Threads' : pc'[w] = "relaying"
  <2>1. ~Gone(pc)
    <3>1. PICK w \in Threads : pc'[w] # "gone"
      BY <1>2
    <3>2. pc[w] # "gone"
      BY <1>3, <3>1
    <3> QED BY <3>2 DEF Gone
  <2>2. HasMarker(queue) \/ \E w \in Threads : pc[w] = "relaying"
    BY <1>1, <1>3, <2>1
  <2> QED BY <1>0, <1>3, <2>2
<1>4. CASE Shutdown
  <2>1. queue' = Append(queue, Marker)
    BY <1>4 DEF Shutdown, PutOn
  <2> QED BY <1>0, <2>1, AppendMarker
<1>5. ASSUME NEW w \in Threads, Relay(w) PROVE HasMarker(queue')
  <2>1. queue' = Append(queue, Marker)
    BY <1>5 DEF Relay, PutOn
  <2> QED BY <1>0, <2>1, AppendMarker
<1>6. ASSUME NEW w \in Threads, Take(w)
      PROVE  HasMarker(queue') \/ \E v \in Threads : pc'[v] = "relaying"
  <2>1. pc[w] = "ready" /\ queue # <<>> /\ main = "joining"
    BY <1>6 DEF Take
  <2>2. HasMarker(queue) \/ \E v \in Threads : pc[v] = "relaying"
    BY <1>1, <2>1 DEF Gone
  <2>3. CASE Head(queue) # Marker
    <3>1. queue' = Tail(queue) /\ pc' = [pc EXCEPT ![w] = "taken"]
      BY <1>6, <2>3 DEF Take
    <3>2. \A v \in Threads : pc[v] = "relaying" => pc'[v] = "relaying"
      BY <1>0, <2>1, <3>1
    <3>3. HasMarker(queue) => HasMarker(queue')
      BY <1>0, <2>1, <2>3, <3>1, TailMarker
    <3> QED BY <2>2, <3>2, <3>3
  <2>4. CASE Head(queue) = Marker /\ kind = "command"
    BY <2>1, <2>4 DEF TypeInv, PoolKinds
  <2>5. CASE Head(queue) = Marker /\ kind = "log"
    <3>1. pc' = [pc EXCEPT ![w] = "gone"]
      BY <1>6, <2>5 DEF Take
    <3>2. PICK x : Threads = {x}
      <4>1. IsFiniteSet(Threads) /\ Cardinality(Threads) = 1
        BY <1>0, <2>5, BoundsAssumption DEF Threads
      <4> QED BY <4>1, FS_Singleton
    <3>3. Gone(pc)'
      BY <1>0, <3>1, <3>2 DEF Gone
    <3> QED BY <3>3
  <2>6. CASE Head(queue) = Marker /\ kind \notin {"command", "log"}
    <3>1. pc' = [pc EXCEPT ![w] = "relaying"]
      BY <1>6, <2>6 DEF Take
    <3> QED BY <1>0, <3>1
  <2> QED BY <2>3, <2>4, <2>5, <2>6
<1>7. ASSUME NEW w \in Threads,
             CheckCancelled(w) \/ Execute(w) \/ ReadResult(w) \/ SendData(w) \/ SendRaw(w)
               \/ WriteLog(w) \/ Wait(w)
      PROVE  HasMarker(queue') \/ \E v \in Threads' : pc'[v] = "relaying"
  <2>1. /\ queue' = queue /\ main = "joining" /\ pc[w] \in {"taken", "writing", "reading", "ready"}
        /\ pc' = pc \/ \E s : pc' = [pc EXCEPT ![w] = s]
    BY <1>7 DEF CheckCancelled, Execute, ReadResult, SendData, SendRaw, WriteLog, Wait, Finish
  <2>2. \A v \in Threads : /\ pc[v] = "gone" => pc'[v] = "gone"
                           /\ pc[v] = "relaying" => pc'[v] = "relaying"
    BY <1>0, <2>1
  <2> QED BY <1>3, <2>1, <2>2
<1>8. CASE UNCHANGED <<main, pc, queue>>
  BY <1>3, <1>8
<1> QED
  BY <1>0, <1>4, <1>5, <1>6, <1>7, <1>8
     DEF Next, Work, vars, Submit, reopen, ShutSocket, Join, RunPosted, cancel, ChildDies, Receive,
         EmptyRead, ReceiveError

LEMMA PoolStep == PoolInv /\ [Next]_vars => PoolInv'
BY TypeStep, WorksStep, PlacedStep, AwakeStep, MarkerStep DEF PoolInv

LEMMA PoolInvSound == PoolInv => PoolSound
<1> SUFFICES ASSUME PoolInv PROVE PoolSound
  OBVIOUS
<1>1. TypeOK /\ NoLostWakeup /\ MarkerKept /\ AllPlaced /\ hand \in [Threads -> Items(next)]
  BY DEF PoolInv, TypeInv, Typed
<1>2. ASSUME NEW i \in 1 .. next - 1
      PROVE  Cardinality({k \in DOMAIN queue : queue[k].id = i})
               + Cardinality({w \in Threads : hand[w].id = i})
               + Cardinality({k \in DOMAIN posted : posted[k] = i})
               + Cardinality({e \in ended : e[1] = i}) = 1
  <2>1. Placed(i, queue, hand, posted, ended)
    BY <1>1, <1>2 DEF AllPlaced
  <2>2. DOMAIN hand = Threads
    BY <1>1
  <2> QED BY <2>1, <2>2, PlacedIsOne DEF InQueue, InHands, InPosts, InEnded
<1> QED BY <1>1, <1>2 DEF PoolSound, OnePlace

\* However many threads a pool has and however they interleave with the main
\* thread: an item handed to it (process_command(), send_to(), send_command(),
\* write_logfile()) is in exactly one place until it is finished with, no thread
\* sleeps in wait() while an item is there that nobody is about to take, and the
\* shutdown marker is not lost while shutdown() waits for a thread.
THEOREM PoolIsSound == Spec => []PoolSound
<1>1. Spec => []PoolInv
  BY PoolInit, PoolStep, PTL DEF Spec
<1> QED BY <1>1, PoolInvSound, PTL

\* What was given to a helper process is neither in the queue nor about to be looked at.
RanSeen == \A i \in ran : i \in 1 .. next - 1 /\ ~Unseen(i)

\* An item that is not in the queue does not come back to it.
LEMMA QueueLeft ==
    ASSUME TypeInv, [Next]_vars, NEW i \in 1 .. next - 1, InQueue(queue, i) = {}
    PROVE  InQueue(queue', i) = {}
<1>0. next \in Nat \ {0} /\ queue \in Seq(Items(next))
  BY BoundsAssumption DEF TypeInv, Typed, TypeOK
<1>1. Marker \in Items(next) /\ Reopen \in Items(next) /\ Marker.id # i /\ Reopen.id # i
  BY DEF Items, Marker, Reopen
<1>2. ASSUME NEW q \in Seq(Items(next)), InQueue(q, i) = {}, NEW x \in {Marker, Reopen}
      PROVE  InQueue(Append(q, x), i) = {}
  BY <1>1, <1>2, AppendPlace
<1>3. CASE Submit
  <2>1. PICK cb \in BOOLEAN : queue' = Append(SubSeq(queue, Excess + 1, Len(queue)), Item(next, cb))
    BY <1>3 DEF Submit, PutOn
  <2>2. Excess \in 0 .. Len(queue)
    <3>1. Len(queue) \in Nat /\ MaxQueue \in Nat
      BY <1>0, BoundsAssumption
    <3> QED BY <3>1 DEF Excess
  <2>3. PICK m \in 0 .. Len(queue) : m = Excess
    BY <2>2
  <2> DEFINE r == SubSeq(queue, m + 1, Len(queue))
  <2>4. r \in Seq(Items(next)) /\ InQueue(r, i) = {}
    BY <1>0, DropPlace
  <2>5. queue' = Append(r, Item(next, cb))
    BY <2>1, <2>3
  <2> HIDE DEF r
  <2>6. Item(next, cb).id # i
    BY <1>0 DEF Item
  <2>7. Items(next) \subseteq Items(next + 1) /\ Item(next, cb) \in Items(next + 1)
    <3>1. Items(next) \subseteq Items(next + 1)
      BY <1>0, ItemFacts
    <3>2. next \in 1 .. (next + 1) - 1
      BY <1>0
    <3> QED BY <3>1, <3>2 DEF Items
  <2>8. r \in Seq(Items(next + 1))
    BY <2>4, <2>7, SeqMonotonic
  <2> QED BY <2>4, <2>5, <2>6, <2>7, <2>8, AppendPlace
<1>4. CASE queue # <<>> /\ queue' = Tail(queue)
  BY <1>0, <1>4, TailPlace
<1>5. CASE queue # <<>> /\ queue' = Append(Tail(queue), Marker)
  <2>1. Tail(queue) \in Seq(Items(next)) /\ InQueue(Tail(queue), i) = {}
    BY <1>0, <1>5, TailPlace
  <2> QED BY <1>2, <1>5, <2>1
<1>6. CASE \E x \in {Marker, Reopen} : queue' = Append(queue, x)
  BY <1>0, <1>2, <1>6
<1>7. ASSUME NEW w \in Threads, Take(w) PROVE InQueue(queue', i) = {}
  BY <1>4, <1>5, <1>7 DEF Take, PutOn
<1>8. CASE queue' = queue
  BY <1>8
<1> QED
  BY <1>3, <1>6, <1>7, <1>8
     DEF Next, Work, vars, reopen, ShutSocket, Shutdown, Join, RunPosted, cancel, Wait, Relay,
         CheckCancelled, Execute, ReadResult, SendData, WriteLog, SendRaw, ChildDies, Receive,
         EmptyRead, ReceiveError, PutOn

\* A step takes an item into a worker's hand only out of the queue, and lets it
\* be written only if it was not cancelled.
LEMMA HandsStep ==
    ASSUME TypeInv, [Next]_vars, NEW i \in 1 .. MaxItems, NEW v \in Threads
    PROVE  /\ pc'[v] = "taken" /\ hand'[v].id = i =>
                 (pc[v] = "taken" /\ hand[v].id = i) \/ Queued(i)
           /\ pc'[v] = "writing" /\ hand'[v].id = i =>
                 (pc[v] = "writing" /\ hand[v].id = i) \/ i \notin cancelled
           /\ i \in ran' => i \in ran \/ \E w \in Threads : pc[w] = "writing" /\ hand[w].id = i
           /\ i \in cancelled => i \in cancelled'
<1>0. /\ Threads' = Threads /\ pc \in [Threads -> States] /\ hand \in [Threads -> Items(next)]
      /\ queue \in Seq(Items(next))
  BY KindKept DEF TypeInv, Typed, TypeOK
<1>1. i # 0 /\ Nothing.id = 0
  BY DEF Nothing, Marker
<1>2. ASSUME NEW p \in [Threads -> States], pc' \in Notified(p), hand' = hand,
             p[v] \in {"taken", "writing"} => pc[v] = p[v]
      PROVE  pc'[v] \in {"taken", "writing"} => pc[v] = pc'[v] /\ hand'[v] = hand[v]
  BY <1>2, NotifiedFacts
<1>3. CASE Submit
  <2>1. pc' \in Notified(pc) /\ UNCHANGED <<hand, ran, cancelled>>
    BY <1>3 DEF Submit, PutOn
  <2> QED BY <1>0, <1>2, <2>1
<1>4. CASE reopen \/ Shutdown
  <2>1. pc' \in Notified(pc) /\ UNCHANGED <<hand, ran, cancelled>>
    BY <1>4 DEF reopen, Shutdown, PutOn
  <2> QED BY <1>0, <1>2, <2>1
<1>5. ASSUME NEW w \in Threads, Relay(w) \/ (Take(w) /\ Head(queue) = Marker)
      PROVE  /\ pc'[v] \in {"taken", "writing"} => pc[v] = pc'[v] /\ hand'[v] = hand[v]
             /\ ran' = ran /\ cancelled' = cancelled
  <2> DEFINE p == [pc EXCEPT ![w] = "gone"]
  <2>1. p \in [Threads -> States] /\ (p[v] \in {"taken", "writing"} => pc[v] = p[v])
    BY <1>0 DEF States
  <2>2. UNCHANGED <<hand, ran, cancelled>>
    BY <1>5 DEF Relay, Take
  <2>3. pc' \in Notified(p) \/ pc' = p \/ pc' = [pc EXCEPT ![w] = "relaying"]
    BY <1>5 DEF Relay, Take, PutOn
  <2>4. CASE pc' \in Notified(p)
    <3> HIDE DEF p
    <3> QED BY <1>2, <2>1, <2>2, <2>4
  <2>5. CASE pc' = p \/ pc' = [pc EXCEPT ![w] = "relaying"]
    BY <1>0, <2>2, <2>5
  <2> QED BY <2>2, <2>3, <2>4, <2>5
<1>6. ASSUME NEW w \in Threads, Take(w), Head(queue) # Marker
      PROVE  /\ pc'[v] = "taken" => (pc[v] = "taken" /\ hand'[v] = hand[v]) \/ hand'[v] = Head(queue)
             /\ pc'[v] = "writing" => pc[v] = "writing" /\ hand'[v] = hand[v]
             /\ ran' = ran /\ cancelled' = cancelled /\ queue # <<>>
  BY <1>0, <1>6 DEF Take
<1>7. queue # <<>> /\ Head(queue).id = i => Queued(i)
  <2>1. queue # <<>> => 1 \in DOMAIN queue /\ Head(queue) = queue[1]
    BY <1>0
  <2> QED BY <2>1 DEF Queued
<1>8. ASSUME NEW w \in Threads, NEW s \in {"ready", "gone"}, NEW how, Finish(w, s, how)
      PROVE  pc'[v] \in {"taken", "writing"} => pc[v] = pc'[v] /\ hand'[v] = hand[v]
  BY <1>0, <1>8 DEF Finish
<1>9. ASSUME NEW w \in Threads, CheckCancelled(w)
      PROVE  /\ pc'[v] \in {"taken", "writing"} =>
                   \/ pc[v] = pc'[v] /\ hand'[v] = hand[v]
                   \/ pc'[v] = "writing" /\ hand'[v].id \notin cancelled
             /\ ran' = ran /\ cancelled' = cancelled
  <2>1. CASE Finish(w, "ready", "cancelled")
    BY <1>8, <1>9, <2>1 DEF CheckCancelled
  <2>2. CASE /\ hand[w].id \notin cancelled /\ pc' = [pc EXCEPT ![w] = "writing"] /\ hand' = hand
    BY <1>0, <1>9, <2>2 DEF CheckCancelled
  <2> QED BY <1>9, <2>1, <2>2 DEF CheckCancelled
<1>10. ASSUME NEW w \in Threads, Execute(w)
       PROVE  /\ pc'[v] \in {"taken", "writing"} => pc[v] = pc'[v] /\ hand'[v] = hand[v]
              /\ ran' \subseteq ran \cup {hand[w].id} /\ pc[w] = "writing" /\ cancelled' = cancelled
  <2>1. CASE Finish(w, "gone", "lost") /\ ran' = ran
    BY <1>8, <1>10, <2>1 DEF Execute
  <2>2. CASE /\ pc' = [pc EXCEPT ![w] = "reading"] /\ ran' = ran \cup {hand[w].id} /\ hand' = hand
    BY <1>0, <1>10, <2>2 DEF Execute
  <2> QED BY <1>10, <2>1, <2>2 DEF Execute
<1>11. ASSUME NEW w \in Threads,
              ReadResult(w) \/ SendData(w) \/ SendRaw(w) \/ WriteLog(w) \/ Wait(w)
       PROVE  /\ pc'[v] \in {"taken", "writing"} => pc[v] = pc'[v] /\ hand'[v] = hand[v]
              /\ ran' = ran /\ cancelled' = cancelled
  <2>1. CASE \E s \in {"ready", "gone"}, how \in {"answer", "sent", "lost", "written"} : Finish(w, s, how)
    BY <1>8, <1>11, <2>1 DEF ReadResult, SendData, SendRaw, WriteLog, Wait
  <2>2. CASE pc' = pc /\ hand' = hand
    BY <1>11, <2>2 DEF ReadResult, SendData, SendRaw, WriteLog, Wait
  <2>3. CASE Wait(w)
    BY <1>0, <2>3 DEF Wait
  <2> QED BY <1>11, <2>1, <2>2, <2>3 DEF ReadResult, SendData, SendRaw, WriteLog
<1>12. CASE UNCHANGED <<pc, hand, ran>> /\ cancelled \subseteq cancelled'
  BY <1>12
<1>13. ASSUME NEW w \in Threads, Work(w)
       PROVE  /\ pc'[v] = "taken" /\ hand'[v].id = i =>
                    (pc[v] = "taken" /\ hand[v].id = i) \/ Queued(i)
              /\ pc'[v] = "writing" /\ hand'[v].id = i =>
                    (pc[v] = "writing" /\ hand[v].id = i) \/ i \notin cancelled
              /\ i \in ran' => i \in ran \/ \E x \in Threads : pc[x] = "writing" /\ hand[x].id = i
              /\ i \in cancelled => i \in cancelled'
  <2>1. CASE Take(w)
    BY <1>5, <1>6, <1>7, <2>1
  <2>2. CASE CheckCancelled(w)
    BY <1>9, <2>2
  <2>3. CASE Execute(w)
    BY <1>10, <2>3
  <2>4. CASE Relay(w)
    BY <1>5, <2>4
  <2>5. CASE ReadResult(w) \/ SendData(w) \/ SendRaw(w) \/ WriteLog(w) \/ Wait(w)
    BY <1>11, <2>5
  <2> QED BY <1>13, <2>1, <2>2, <2>3, <2>4, <2>5 DEF Work
<1>14. CASE \/ ShutSocket \/ Join \/ RunPosted \/ \E j \in Ids : cancel(j)
            \/ \E w \in Threads : ChildDies(w)
            \/ \E r \in Receivers : Receive(r) \/ EmptyRead(r) \/ ReceiveError(r)
            \/ UNCHANGED vars
  <2>1. UNCHANGED <<pc, hand, ran>> /\ cancelled \subseteq cancelled'
    BY <1>14 DEF vars, ShutSocket, Join, RunPosted, cancel, ChildDies, Receive, EmptyRead, ReceiveError
  <2> QED BY <1>12, <2>1
<1> QED BY <1>3, <1>4, <1>13, <1>14 DEF Next

\* An item in a worker's hand is nowhere else.
LEMMA HeldOnce ==
    ASSUME PoolInv, NEW w \in Threads, NEW i \in 1 .. next - 1, hand[w].id = i
    PROVE  InQueue(queue, i) = {} /\ \A v \in Threads : hand[v].id = i => v = w
<1>1. Placed(i, queue, hand, posted, ended) /\ DOMAIN hand = Threads
  BY DEF PoolInv, TypeInv, Typed, AllPlaced
<1>2. w \in InHands(hand, i)
  BY <1>1 DEF InHands
<1>3. InQueue(queue, i) = {} /\ One(InHands(hand, i))
  BY <1>1, <1>2 DEF Placed
<1> QED BY <1>1, <1>3 DEF One, InHands

LEMMA QueuedIs == ASSUME NEW i PROVE Queued(i) <=> InQueue(queue, i) # {}
BY DEF Queued, InQueue

LEMMA QueuedIsNext == ASSUME NEW i PROVE Queued(i)' <=> InQueue(queue', i) # {}
BY DEF Queued, InQueue

LEMMA RanSeenStep == PoolInv /\ RanSeen /\ [Next]_vars => RanSeen'
<1> SUFFICES ASSUME PoolInv, RanSeen, [Next]_vars, NEW i \in ran'
             PROVE  i \in 1 .. next' - 1 /\ ~Unseen(i)'
  BY DEF RanSeen
<1>0. /\ TypeInv /\ TypeInv' /\ Threads' = Threads /\ next \in Nat /\ next' \in Nat /\ i \in 1 .. MaxItems
      /\ hand \in [Threads -> Items(next)] /\ Works
  <2>1. TypeInv /\ TypeInv' /\ Works
    BY PoolStep DEF PoolInv
  <2>2. Threads' = Threads /\ MaxItems \in Nat
    BY KindKept, BoundsAssumption
  <2>3. hand \in [Threads -> Items(next)] /\ next \in 1 .. MaxItems + 1
    BY <2>1 DEF TypeInv, Typed, TypeOK
  <2>4. ran' \subseteq 1 .. MaxItems /\ next' \in 1 .. MaxItems + 1
    BY <2>1 DEF TypeInv, Typed, TypeOK, Ids
  <2> QED BY <2>1, <2>2, <2>3, <2>4
<1>1. next <= next'
  <2>1. next' = next \/ next' = next + 1
    BY DEF Next, vars, Submit, reopen, ShutSocket, Shutdown, Join, RunPosted, cancel, Work, Wait, Take,
           Relay, CheckCancelled, Execute, ReadResult, SendData, WriteLog, SendRaw, ChildDies, Receive,
           EmptyRead, ReceiveError
  <2> QED BY <1>0, <2>1
<1>2. \A v \in Threads :
         /\ pc'[v] = "taken" /\ hand'[v].id = i => (pc[v] = "taken" /\ hand[v].id = i) \/ Queued(i)
         /\ i \in ran' => i \in ran \/ \E w \in Threads : pc[w] = "writing" /\ hand[w].id = i
  BY <1>0, HandsStep
<1>3. CASE i \in ran
  <2>1. i \in 1 .. next - 1 /\ ~Queued(i) /\ \A v \in Threads : pc[v] = "taken" => hand[v].id # i
    BY <1>3 DEF RanSeen, Unseen
  <2>2. ~Queued(i)'
    BY <1>0, <2>1, QueueLeft, QueuedIs, QueuedIsNext
  <2>3. \A v \in Threads' : pc'[v] = "taken" => hand'[v].id # i
    BY <1>0, <1>2, <2>1
  <2> QED BY <1>0, <1>1, <2>1, <2>2, <2>3 DEF Unseen
<1>4. CASE i \notin ran
  <2>1. PICK w \in Threads : pc[w] = "writing" /\ hand[w].id = i
    <3>1. Threads # {}
      BY <1>4 DEF Next, vars, Submit, reopen, ShutSocket, Shutdown, Join, RunPosted, cancel, Work, Wait,
         Take, Relay, CheckCancelled, Execute, ReadResult, SendData, WriteLog, SendRaw, ChildDies,
         Receive, EmptyRead, ReceiveError
    <3> QED BY <1>2, <1>4, <3>1
  <2>2. i \in 1 .. next - 1
    <3>1. hand[w] \in Items(next) /\ hand[w].id = i
      BY <1>0, <2>1
    <3>2. hand[w].id \in 0 .. next - 1 \/ hand[w].id = 0
      BY <1>0, <3>1, ItemFacts
    <3> QED BY <1>0, <3>1, <3>2
  <2>3. InQueue(queue, i) = {} /\ \A v \in Threads : hand[v].id = i => v = w
    BY <2>1, <2>2, HeldOnce
  <2>4. ~Queued(i)'
    BY <1>0, <2>2, <2>3, QueueLeft, QueuedIsNext
  <2>5. \A v \in Threads' : pc'[v] = "taken" => hand'[v].id # i
    BY <1>0, <1>2, <2>1, <2>3, QueuedIs
  <2> QED BY <1>0, <1>1, <2>2, <2>4, <2>5 DEF Unseen
<1> QED BY <1>3, <1>4

\* The item was cancelled and no worker can get as far as writing it.
Barred(i) ==
    i \in cancelled /\ i \notin ran /\ \A w \in Threads : pc[w] = "writing" => hand[w].id # i

LEMMA BarredStep == ASSUME NEW i \in Ids, PoolInv, Barred(i), [Next]_vars PROVE Barred(i)'
<1>0. TypeInv /\ Threads' = Threads /\ i \in 1 .. MaxItems
  BY KindKept DEF PoolInv, Ids
<1>1. \A v \in Threads :
         /\ pc'[v] = "writing" /\ hand'[v].id = i =>
               (pc[v] = "writing" /\ hand[v].id = i) \/ i \notin cancelled
         /\ i \in ran' => i \in ran \/ \E w \in Threads : pc[w] = "writing" /\ hand[w].id = i
         /\ i \in cancelled => i \in cancelled'
  BY <1>0, HandsStep
<1>2. CASE Threads # {}
  BY <1>0, <1>1, <1>2 DEF Barred
<1>3. CASE Threads = {}
  <2>1. ran' = ran /\ cancelled \subseteq cancelled'
    BY <1>3 DEF Next, vars, Submit, reopen, ShutSocket, Shutdown, Join, RunPosted, cancel, Receive,
                EmptyRead, ReceiveError
  <2> QED BY <1>0, <1>3, <2>1 DEF Barred
<1> QED BY <1>2, <1>3

LEMMA BarredStart ==
    ASSUME NEW i \in Ids, PoolInv, RanSeen, i \in cancelled /\ Unseen(i) PROVE Barred(i)
<1>1. i \notin ran
  BY DEF RanSeen
<1>2. ASSUME NEW w \in Threads, pc[w] = "writing", hand[w].id = i PROVE FALSE
  <2>1. hand[w] \in Items(next) /\ next \in Nat /\ i # 0
    BY BoundsAssumption DEF PoolInv, TypeInv, Typed, TypeOK, Ids
  <2>2. hand[w].id \in 0 .. next - 1 \/ hand[w].id = 0
    BY <2>1, ItemFacts
  <2>3. i \in 1 .. next - 1
    BY <1>2, <2>1, <2>2
  <2>4. InQueue(queue, i) = {} /\ \A v \in Threads : hand[v].id = i => v = w
    BY <1>2, <2>3, HeldOnce
  <2>5. \E v \in Threads : pc[v] = "taken" /\ hand[v].id = i
    BY <2>4, QueuedIs DEF Unseen
  <2> QED BY <1>2, <2>4, <2>5
<1> QED BY <1>1, <1>2 DEF Barred

\* A command that is cancelled before the worker that takes it has asked
\* is_cancelled() is never given to a helper process, at any later time, for any
\* number of workers, commands and helpers that die: nothing brings an item back
\* into the queue, and no second worker has it.
THEOREM CancelledIsNotStarted == Spec => CancelledNotStarted
<1>1. Spec => [](PoolInv /\ RanSeen)
  <2>1. Init => RanSeen
    BY DEF Init, RanSeen
  <2>2. PoolInv /\ RanSeen /\ [Next]_vars => (PoolInv /\ RanSeen)'
    BY PoolStep, RanSeenStep
  <2> QED BY <2>1, <2>2, PoolInit, PTL DEF Spec
<1>2. ASSUME NEW i \in Ids
      PROVE  Spec => [](i \in cancelled /\ Unseen(i) => [](i \notin ran))
  <2>1. PoolInv /\ RanSeen => (i \in cancelled /\ Unseen(i) => Barred(i))
    BY <1>2, BarredStart
  <2>2. PoolInv /\ Barred(i) /\ [Next]_vars => Barred(i)'
    BY <1>2, BarredStep
  <2>3. Barred(i) => i \notin ran
    BY DEF Barred
  <2> QED BY <1>1, <2>1, <2>2, <2>3, PTL DEF Spec
<1> QED BY <1>2 DEF CancelledNotStarted

-----------------------------------------------------------------------------
(* The invariant of the command socket.                                    *)

Posts == [do : {"accept", "reader", "writer", "cmd"}, n : 0 .. MaxCmds]

\* The types; a buffer that is not closed holds replies only.
CliTyped ==
    /\ acceptor \in {"poll", "accept", "gone"} /\ clis \in {"up", "joining", "down"}
    /\ peer \in {"none", "open", "eof", "reset"} /\ sock \in {"none", "open", "closed"}
    /\ rthr \in {"none", "recv", "gone"}
    /\ wthr \in {"none", "ready", "waiting", "send", "gone"}
    /\ wbuffer \in Seq(1 .. MaxCmds) \/ wbuffer = Closed
    /\ sending \in Seq(1 .. MaxCmds) /\ out \in Seq(1 .. MaxCmds) /\ wire \in Seq(1 .. MaxCmds)
    /\ wclose \in BOOLEAN /\ served \in BOOLEAN
    /\ cmds \in 0 .. MaxCmds /\ call \in CallStates
    /\ due \in 0 .. Len(out) /\ calls \in Seq(Posts)

\* There is one connection: nothing of it is there before handle_accept(), which runs
\* once, and everything of it afterwards.
OneConnection ==
    /\ acceptor = "accept" => peer # "none"
    /\ (peer = "none" \/ acceptor = "accept") => (sock = "none" /\ calls = <<>>)
    /\ sock = "none" => /\ rthr = "none" /\ wthr = "none" /\ cmds = 0
                        /\ wbuffer = <<>> /\ ~wclose /\ out = <<>> /\ wire = <<>>
                        /\ Len(calls) <= 1 /\ \A k \in DOMAIN calls : calls[k].do = "accept"
    /\ sock # "none" => /\ rthr # "none" /\ wthr # "none"
                        /\ \A k \in DOMAIN calls : calls[k].do # "accept"

\* What is queued for the main thread: the commands, and one last request of each
\* thread.
FewCalls ==
    Len(calls) <= cmds + (IF sock = "none" THEN 1 ELSE 0)
                       + (IF rthr = "gone" THEN 1 ELSE 0) + (IF wthr = "gone" THEN 1 ELSE 0)

\* The commands in the queue are in order and later than the ones answered.
CommandsInOrder ==
    /\ \A k \in DOMAIN calls : calls[k].do = "cmd" => calls[k].n \in 1 .. cmds
    /\ \A j, k \in DOMAIN calls :
          j < k /\ calls[j].do = "cmd" /\ calls[k].do = "cmd" => calls[j].n < calls[k].n
    /\ \A i \in DOMAIN out : out[i] <= cmds
    /\ \A i \in DOMAIN out, k \in DOMAIN calls : calls[k].do = "cmd" => out[i] < calls[k].n
    /\ \A i, j \in DOMAIN out : i < j => out[i] < out[j]

\* The replies on their way; none is in the hands of a writer that is not sending.
Rest(b) == IF b = Closed THEN <<>> ELSE b

OnTheWay ==
    /\ wthr # "send" => sending = <<>>
    /\ Len(wire) <= Len(out) /\ \A i \in 1 .. Len(wire) : wire[i] = out[i]
    /\ sock = "open" /\ wthr # "gone" => out = (wire \o sending) \o Rest(wbuffer)

\* A writer that has asked for the connection to be closed has sent what was due.
AskedIsFlushed ==
    /\ sock = "open" /\ (\E k \in DOMAIN calls : calls[k].do = "writer") =>
          wclose /\ Len(wire) >= due
    /\ closedBy = "writer" => sock = "closed" /\ Len(wire) >= due

CliInv == /\ CliTyped /\ OneConnection /\ FewCalls /\ CommandsInOrder /\ OnTheWay
          /\ AskedIsFlushed /\ WriterAwake

LEMMA AppendFacts ==
    ASSUME NEW S, NEW s \in Seq(S), NEW x \in S
    PROVE  /\ Append(s, x) \in Seq(S) /\ Len(Append(s, x)) = Len(s) + 1
           /\ DOMAIN Append(s, x) = 1 .. Len(s) + 1
           /\ \A k \in 1 .. Len(s) : Append(s, x)[k] = s[k]
           /\ Append(s, x)[Len(s) + 1] = x
OBVIOUS

LEMMA TailFacts ==
    ASSUME NEW S, NEW s \in Seq(S), s # <<>>
    PROVE  /\ Tail(s) \in Seq(S) /\ Len(Tail(s)) = Len(s) - 1 /\ Len(s) >= 1
           /\ DOMAIN Tail(s) = 1 .. Len(s) - 1
           /\ \A k \in 1 .. Len(s) - 1 : Tail(s)[k] = s[k + 1]
           /\ Head(s) = s[1] /\ s[1] \in S
OBVIOUS

\* What a step of the client, the threads or the main loop does to the queue.
LEMMA QueueStep ==
    ASSUME CliInv, CliNext
    PROVE  \/ calls' = calls
           \/ calls # <<>> /\ calls' = Tail(calls)
           \/ \E p \in Posts : calls' = Append(calls, p)
<1> USE CommandsAssumption DEF Post, Posts
<1>t. cmds \in 0 .. MaxCmds
  BY DEF CliInv, CliTyped
<1>1. CASE Connect \/ Acceptor \/ ShutdownListener \/ JoinAcceptor
  BY <1>1 DEF Connect, Acceptor, Accept, Wakeup, ShutdownListener, JoinAcceptor
<1>2. CASE RunMain
  BY <1>2 DEF RunMain
<1>3. CASE Write
  BY <1>3 DEF Write, WriterWait, WriterTake, WriterSend, WriterFails, WriterEnds
<1>4. CASE ReadCommand
  BY <1>4, <1>t DEF ReadCommand
<1>5. CASE Read \/ PeerEnds
  BY <1>5 DEF Read, ReadEof, ReadReset, PeerEnds
<1> QED BY <1>1, <1>2, <1>3, <1>4, <1>5 DEF CliNext

\* The main loop's three kinds of call.
LEMMA RunMainCases ==
    ASSUME CliInv, RunMain
    PROVE  /\ calls # <<>> /\ calls' = Tail(calls) /\ Head(calls) = calls[1]
           /\ \/ calls[1].do = "accept" /\ handle_accept
              \/ calls[1].do \in {"reader", "writer"} /\ shutdown(calls[1].do)
              \/ calls[1].do = "cmd" /\ handle_cmd(calls[1].n)
           /\ calls[1] \in Posts
           /\ UNCHANGED <<acceptor, clis, peer, wire, cmds>>
<1>1. calls \in Seq(Posts) /\ calls # <<>>
  BY DEF CliInv, CliTyped, RunMain
<1>2. Head(calls) = calls[1] /\ calls[1] \in Posts
  BY <1>1, TailFacts
<1> QED BY <1>1, <1>2 DEF RunMain, Listening

LEMMA CommandCases ==
    ASSUME NEW n, handle_cmd(n)
    PROVE  /\ \E m \in {0, n}, cl \in BOOLEAN : SendAndClose(m, cl)
           /\ UNCHANGED <<sock, served, rthr, closedBy>>
           /\ call' \in {call, "Disconnecting"}
BY DEF handle_cmd

LEMMA CliTypedStep ==
    ASSUME CliInv, CliNext
    PROVE  CliTyped'
<1> USE CommandsAssumption DEF CallStates
<1>t. CliTyped
  BY DEF CliInv
<1>q. calls' \in Seq(Posts)
  <2>1. calls \in Seq(Posts)
    BY <1>t DEF CliTyped
  <2>2. CASE calls # <<>> /\ calls' = Tail(calls)
    BY <2>1, <2>2, TailFacts
  <2>3. ASSUME NEW p \in Posts, calls' = Append(calls, p)
        PROVE  calls' \in Seq(Posts)
    BY <2>1, <2>3, AppendFacts
  <2> QED BY <2>1, <2>2, <2>3, QueueStep
<1>1. CASE Connect \/ Acceptor \/ ShutdownListener \/ JoinAcceptor
  <2>1. CASE Connect
    BY <2>1, <1>t, <1>q DEF CliTyped, Connect, Writer, History
  <2>2. CASE Acceptor
    BY <2>2, <1>t, <1>q DEF CliTyped, Acceptor, Accept, Wakeup, Writer, History
  <2>3. CASE ShutdownListener
    <3>1. served' \in BOOLEAN
      BY <2>3 DEF ShutdownListener
    <3> QED BY <3>1, <2>3, <1>t, <1>q DEF CliTyped, ShutdownListener, Writer, History
  <2>4. CASE JoinAcceptor
    BY <2>4, <1>t, <1>q DEF CliTyped, JoinAcceptor, Writer, History
  <2> QED BY <1>1, <2>1, <2>2, <2>3, <2>4
<1>2. CASE RunMain
  <2>1. CASE calls[1].do = "accept" /\ handle_accept
    BY <1>2, <2>1, <1>t, <1>q, RunMainCases DEF CliTyped, handle_accept, History
  <2>2. CASE shutdown(calls[1].do)
    BY <1>2, <2>2, <1>t, <1>q, RunMainCases DEF CliTyped, shutdown, Awoken
  <2>3. CASE handle_cmd(calls[1].n)
    <3>1. PICK m \in {0, calls[1].n}, cl \in BOOLEAN : SendAndClose(m, cl)
      BY <2>3, CommandCases
    <3>2. m \in 0 .. MaxCmds
      BY <3>1, <1>2, RunMainCases DEF Posts
    <3>3. /\ UNCHANGED <<sock, served, rthr, closedBy, acceptor, clis, peer, wire, cmds, sending>>
          /\ call' \in {call, "Disconnecting"}
      BY <1>2, <2>3, <3>1, RunMainCases, CommandCases DEF SendAndClose
    <3>4. /\ wthr' \in {wthr, "ready"} /\ wclose' \in BOOLEAN
      BY <3>1, <1>t DEF SendAndClose, Awoken, CliTyped
    <3>5. CASE m # 0 /\ wbuffer # Closed /\ sock = "open"
      <4>1. /\ wbuffer' = Append(wbuffer, m) /\ out' = Append(out, m)
            /\ due' = due \/ due' = Len(out')
        BY <3>1, <3>5 DEF SendAndClose
      <4>2. wbuffer' \in Seq(1 .. MaxCmds) /\ out' \in Seq(1 .. MaxCmds) /\ due' \in 0 .. Len(out')
        BY <4>1, <3>5, <3>2, <1>t DEF CliTyped
      <4> QED BY <4>2, <3>3, <3>4, <1>t, <1>q DEF CliTyped
    <3>6. CASE ~ (m # 0 /\ wbuffer # Closed /\ sock = "open")
      <4>1. /\ wbuffer' = wbuffer /\ out' = out /\ due' \in {due, Len(out)}
        BY <3>1, <3>6 DEF SendAndClose
      <4> QED BY <4>1, <3>3, <3>4, <1>t, <1>q DEF CliTyped
    <3> QED BY <3>5, <3>6
  <2> QED BY <1>2, <2>1, <2>2, <2>3, RunMainCases
<1>3. CASE Write
  <2>1. CASE WriterWait
    BY <2>1, <1>t, <1>q DEF CliTyped, WriterWait, Listening, History
  <2>2. CASE WriterTake
    <3>1. sending' \in Seq(1 .. MaxCmds) /\ (wbuffer' \in Seq(1 .. MaxCmds) \/ wbuffer' = Closed)
      <4>1. wbuffer \in Seq(1 .. MaxCmds) /\ sending' = wbuffer /\ (wbuffer' = Closed \/ wbuffer' = <<>>)
        BY <2>2, <1>t DEF CliTyped, WriterTake
      <4>2. <<>> \in Seq(1 .. MaxCmds)
        OBVIOUS
      <4> QED BY <4>1, <4>2
    <3> QED BY <3>1, <2>2, <1>t, <1>q DEF CliTyped, WriterTake, Listening, History
  <2>4. CASE WriterFails
    <3>1. sending' \in Seq(1 .. MaxCmds)
      BY <2>4 DEF WriterFails
    <3> QED BY <3>1, <2>4, <1>t, <1>q DEF CliTyped, WriterFails, Listening, History
  <2>5. CASE WriterEnds
    BY <2>5, <1>t, <1>q DEF CliTyped, WriterEnds, Listening, History
  <2>3. CASE WriterSend
    <3>1. PICK k \in 0 .. Len(sending) :
             /\ wire' = wire \o SubSeq(sending, 1, k)
             /\ sending' = SubSeq(sending, k + 1, Len(sending))
             /\ wthr' \in {"ready", "send"}
      <4>1. Len(sending) \in Nat
        BY <1>t DEF CliTyped
      <4>2. (IF sending = <<>> THEN {0} ELSE 1 .. Len(sending)) \subseteq 0 .. Len(sending)
        BY <4>1
      <4> QED BY <2>3, <4>2 DEF WriterSend
    <3>2. wire' \in Seq(1 .. MaxCmds) /\ sending' \in Seq(1 .. MaxCmds)
      <4>1. wire \in Seq(1 .. MaxCmds) /\ sending \in Seq(1 .. MaxCmds)
        BY <1>t DEF CliTyped
      <4>2. /\ SubSeq(sending, 1, k) \in Seq(1 .. MaxCmds)
            /\ SubSeq(sending, k + 1, Len(sending)) \in Seq(1 .. MaxCmds)
        BY <4>1, SubSeqProperties
      <4> QED BY <3>1, <4>1, <4>2, ConcatProperties
    <3> QED BY <3>1, <3>2, <2>3, <1>t, <1>q DEF CliTyped, WriterSend, Listening, History
  <2> QED BY <1>3, <2>1, <2>2, <2>3, <2>4, <2>5 DEF Write
<1>4. CASE ReadCommand
  BY <1>4, <1>t, <1>q DEF CliTyped, ReadCommand, Listening, Writer, History
<1>5. CASE Read \/ PeerEnds
  BY <1>5, <1>t, <1>q DEF CliTyped, Read, ReadEof, ReadReset, PeerEnds, Listening, Writer, History
<1> QED BY <1>1, <1>2, <1>3, <1>4, <1>5 DEF CliNext

\* What CliTyped says of the queue and of the threads.
LEMMA QueueFacts ==
    ASSUME CliInv
    PROVE  /\ calls \in Seq(Posts) /\ Len(calls) \in Nat /\ DOMAIN calls = 1 .. Len(calls)
           /\ calls = <<>> <=> Len(calls) = 0
           /\ cmds \in Nat /\ sock \in {"none", "open", "closed"}
           /\ acceptor \in {"poll", "accept", "gone"}
           /\ rthr \in {"none", "recv", "gone"}
           /\ wthr \in {"none", "ready", "waiting", "send", "gone"}
BY CommandsAssumption DEF CliInv, CliTyped

\* The queue after callFromThread(), for the invariants that quantify over it.
LEMMA PostFacts ==
    ASSUME CliInv, NEW f \in {"accept", "reader", "writer", "cmd"}, NEW n \in 0 .. MaxCmds,
           calls' = Post(f, n)
    PROVE  /\ Len(calls') = Len(calls) + 1 /\ DOMAIN calls' = 1 .. Len(calls) + 1 /\ calls' # <<>>
           /\ \A k \in DOMAIN calls : k \in DOMAIN calls' /\ calls'[k] = calls[k]
           /\ \A k \in DOMAIN calls' : k \in DOMAIN calls \/ k = Len(calls) + 1
           /\ calls'[Len(calls) + 1].do = f /\ calls'[Len(calls) + 1].n = n
<1>1. [do |-> f, n |-> n] \in Posts
  BY DEF Posts
<1>2. calls \in Seq(Posts) /\ Len(calls) \in Nat /\ DOMAIN calls = 1 .. Len(calls)
  BY QueueFacts
<1>3. calls' = Append(calls, [do |-> f, n |-> n])
  BY DEF Post
<1>4. /\ Len(calls') = Len(calls) + 1 /\ DOMAIN calls' = 1 .. Len(calls) + 1
      /\ \A k \in 1 .. Len(calls) : calls'[k] = calls[k]
      /\ calls'[Len(calls) + 1] = [do |-> f, n |-> n]
  BY <1>1, <1>2, <1>3, AppendFacts
<1> QED BY <1>2, <1>4

\* The queue after the main loop took its head.
LEMMA RunFacts ==
    ASSUME CliInv, calls # <<>>, calls' = Tail(calls)
    PROVE  /\ Len(calls') = Len(calls) - 1 /\ Len(calls) >= 1 /\ 1 \in DOMAIN calls
           /\ DOMAIN calls' = 1 .. Len(calls) - 1
           /\ \A k \in DOMAIN calls' : /\ k + 1 \in DOMAIN calls /\ calls'[k] = calls[k + 1]
                                       /\ k \in Nat
<1>1. calls \in Seq(Posts) /\ Len(calls) \in Nat /\ DOMAIN calls = 1 .. Len(calls)
  BY QueueFacts
<1>2. /\ Len(calls') = Len(calls) - 1 /\ Len(calls) >= 1
      /\ DOMAIN calls' = 1 .. Len(calls) - 1
      /\ \A k \in 1 .. Len(calls) - 1 : calls'[k] = calls[k + 1]
  BY <1>1, TailFacts
<1> QED BY <1>1, <1>2

LEMMA ConnectionStep ==
    ASSUME CliInv, CliNext
    PROVE  OneConnection' /\ FewCalls'
<1> USE CommandsAssumption
<1>t. /\ Len(calls) \in Nat /\ DOMAIN calls = 1 .. Len(calls)
      /\ calls = <<>> <=> Len(calls) = 0
      /\ cmds \in Nat /\ sock \in {"none", "open", "closed"}
      /\ acceptor \in {"poll", "accept", "gone"}
      /\ rthr \in {"none", "recv", "gone"}
      /\ wthr \in {"none", "ready", "waiting", "send", "gone"}
  BY QueueFacts
<1>i. OneConnection /\ FewCalls
  BY DEF CliInv
<1>1. CASE Connect
  BY <1>1, <1>t, <1>i DEF OneConnection, FewCalls, Connect, Writer, History
<1>2. CASE Accept
  <2>1. CASE calls' = Post("accept", 0)
    <3>1. 0 \in 0 .. MaxCmds
      OBVIOUS
    <3> QED BY <1>2, <2>1, <3>1, <1>t, <1>i, PostFacts
            DEF OneConnection, FewCalls, Accept, Writer, History
  <2>2. CASE calls' = calls
    BY <1>2, <2>2, <1>t, <1>i DEF OneConnection, FewCalls, Accept, Writer, History
  <2> QED BY <1>2, <2>1, <2>2 DEF Accept
<1>3. CASE Wakeup
  BY <1>3, <1>t, <1>i DEF OneConnection, FewCalls, Wakeup, Writer, History
<1>4. CASE ShutdownListener
  BY <1>4, <1>t, <1>i DEF OneConnection, FewCalls, ShutdownListener, Writer, History
<1>5. CASE JoinAcceptor
  BY <1>5, <1>t, <1>i DEF OneConnection, FewCalls, JoinAcceptor, Writer, History
<1>6. CASE RunMain
  <2>r. /\ UNCHANGED <<acceptor, clis, peer, wire, cmds>> /\ calls # <<>>
        /\ Len(calls') = Len(calls) - 1 /\ Len(calls) >= 1 /\ 1 \in DOMAIN calls
        /\ DOMAIN calls' = 1 .. Len(calls) - 1
        /\ \A k \in DOMAIN calls' : k + 1 \in DOMAIN calls /\ calls'[k] = calls[k + 1]
    BY <1>6, RunMainCases, RunFacts
  <2>1. CASE calls[1].do = "accept" /\ handle_accept
    <3>1. sock = "none" /\ Len(calls) = 1 /\ sock' = "open" /\ rthr' = "recv" /\ wthr' = "ready"
      BY <2>1, <2>r, <1>t, <1>i DEF OneConnection, handle_accept
    <3>2. DOMAIN calls' = {} /\ Len(calls') = 0
      BY <3>1, <2>r
    <3> QED BY <3>1, <3>2, <2>r, <1>t, <1>i DEF OneConnection, FewCalls
  <2>2. CASE calls[1].do \in {"reader", "writer"} /\ shutdown(calls[1].do)
    <3>1. sock # "none" /\ sock' # "none" /\ rthr' = rthr /\ (wthr' = "gone" <=> wthr = "gone")
          /\ (wthr # "none" => wthr' # "none")
      BY <2>2, <2>r, <1>t, <1>i DEF OneConnection, shutdown, Awoken
    <3> QED BY <3>1, <2>r, <1>t, <1>i DEF OneConnection, FewCalls
  <2>3. CASE calls[1].do = "cmd" /\ handle_cmd(calls[1].n)
    <3>1. sock # "none" /\ sock' = sock /\ rthr' = rthr
      BY <2>3, <2>r, <1>t, <1>i, CommandCases DEF OneConnection
    <3>2. PICK m \in {0, calls[1].n}, cl \in BOOLEAN : SendAndClose(m, cl)
      BY <2>3, CommandCases
    <3>3. (wthr' = "gone" <=> wthr = "gone") /\ (wthr # "none" => wthr' # "none")
      BY <3>2, <1>t DEF SendAndClose, Awoken
    <3> QED BY <3>1, <3>3, <2>r, <1>t, <1>i DEF OneConnection, FewCalls
  <2> QED BY <1>6, <2>1, <2>2, <2>3, RunMainCases
<1>7. CASE Write
  <2>1. CASE WriterWait \/ WriterTake \/ WriterSend \/ WriterFails
    <3>1. /\ wthr # "none" /\ wthr # "gone" /\ wthr' # "none"
          /\ UNCHANGED <<acceptor, clis, peer, sock, rthr, calls, cmds>>
      BY <2>1 DEF WriterWait, WriterTake, WriterSend, WriterFails, Listening
    <3> QED BY <3>1, <1>t, <1>i DEF OneConnection, FewCalls
  <2>2. CASE WriterEnds
    <3>1. /\ wthr = "ready" /\ wthr' = "gone"
          /\ UNCHANGED <<acceptor, clis, peer, sock, rthr, cmds>>
      BY <2>2 DEF WriterEnds, Listening
    <3>s. sock # "none"
      BY <3>1, <1>i DEF OneConnection
    <3>2. CASE calls' = Post("writer", 0)
      <4>1. 0 \in 0 .. MaxCmds
        OBVIOUS
      <4> QED BY <3>1, <3>s, <3>2, <4>1, <1>t, <1>i, PostFacts DEF OneConnection, FewCalls
    <3>3. CASE calls' = calls
      BY <3>1, <3>s, <3>3, <1>t, <1>i DEF OneConnection, FewCalls
    <3> QED BY <2>2, <3>2, <3>3 DEF WriterEnds
  <2> QED BY <1>7, <2>1, <2>2 DEF Write
<1>8. CASE ReadCommand
  <2>1. /\ rthr = "recv" /\ sock = "open" /\ cmds' = cmds + 1 /\ cmds' \in 0 .. MaxCmds
        /\ UNCHANGED <<acceptor, clis, peer, sock, wthr>>
    BY <1>8, <1>t DEF ReadCommand, Listening, Writer
  <2>2. CASE calls' = Post("cmd", cmds') /\ rthr' = rthr
    BY <2>1, <2>2, <1>t, <1>i, PostFacts DEF OneConnection, FewCalls
  <2>3. CASE calls' = Post("reader", 0) /\ rthr' = "gone"
    <3>1. 0 \in 0 .. MaxCmds
      OBVIOUS
    <3> QED BY <2>1, <2>3, <3>1, <1>t, <1>i, PostFacts DEF OneConnection, FewCalls
  <2> QED BY <1>8, <2>2, <2>3 DEF ReadCommand
<1>9. CASE Read
  <2>1. /\ rthr = "recv" /\ rthr' = "gone" /\ UNCHANGED <<acceptor, clis, peer, sock, wthr, cmds>>
    BY <1>9 DEF Read, ReadEof, ReadReset, Listening, Writer
  <2>2. CASE calls' = Post("reader", 0)
    <3>1. 0 \in 0 .. MaxCmds
      OBVIOUS
    <3> QED BY <2>1, <2>2, <3>1, <1>t, <1>i, PostFacts DEF OneConnection, FewCalls
  <2>3. CASE calls' = calls
    BY <2>1, <2>3, <1>t, <1>i DEF OneConnection, FewCalls
  <2> QED BY <1>9, <2>2, <2>3 DEF Read, ReadEof, ReadReset
<1>10. CASE PeerEnds
  BY <1>10, <1>t, <1>i DEF OneConnection, FewCalls, PeerEnds, Listening, Writer, History
<1> QED BY <1>1, <1>2, <1>3, <1>4, <1>5, <1>6, <1>7, <1>8, <1>9, <1>10 DEF CliNext, Acceptor

LEMMA ElementsTyped ==
    ASSUME NEW S, NEW s \in Seq(S)
    PROVE  \A i \in DOMAIN s : s[i] \in S
OBVIOUS

\* Posting something that is not a command leaves the order of the commands alone.
LEMMA PostKeepsOrder ==
    ASSUME CliInv, NEW f \in {"accept", "reader", "writer"}, calls' = Post(f, 0),
           out' = out, cmds' \in {cmds, cmds + 1}
    PROVE  CommandsInOrder'
<1>1. 0 \in 0 .. MaxCmds /\ cmds \in Nat /\ out \in Seq(1 .. MaxCmds)
  BY CommandsAssumption DEF CliInv, CliTyped
<1>2. CommandsInOrder
  BY DEF CliInv
<1>3. /\ \A k \in DOMAIN calls : k \in DOMAIN calls' /\ calls'[k] = calls[k]
      /\ \A k \in DOMAIN calls' : k \in DOMAIN calls \/ k = Len(calls) + 1
      /\ calls'[Len(calls) + 1].do = f
  BY <1>1, PostFacts
<1>4. \A k \in DOMAIN calls' : calls'[k].do = "cmd" => k \in DOMAIN calls /\ calls'[k] = calls[k]
  BY <1>3
<1>5. \A k \in DOMAIN calls' : calls'[k].do = "cmd" => calls'[k].n \in 1 .. cmds'
  BY <1>1, <1>2, <1>4 DEF CommandsInOrder
<1>6. \A i \in DOMAIN out : out[i] <= cmds'
  <2>1. \A i \in DOMAIN out : out[i] <= cmds /\ out[i] \in 1 .. MaxCmds
    <3>1. out \in Seq(1 .. MaxCmds)
      BY <1>1
    <3>2. \A i \in DOMAIN out : out[i] \in 1 .. MaxCmds
      BY <3>1, ElementsTyped
    <3> QED BY <3>2, <1>2 DEF CommandsInOrder
  <2> QED BY <2>1, <1>1, CommandsAssumption
<1> QED BY <1>2, <1>4, <1>5, <1>6 DEF CommandsInOrder

LEMMA OrderStep ==
    ASSUME CliInv, CliNext
    PROVE  CommandsInOrder'
<1> USE CommandsAssumption
<1>t. /\ Len(calls) \in Nat /\ DOMAIN calls = 1 .. Len(calls)
      /\ cmds \in Nat /\ out \in Seq(1 .. MaxCmds)
  BY QueueFacts DEF CliInv, CliTyped
<1>i. CommandsInOrder
  BY DEF CliInv
<1>u. ASSUME UNCHANGED <<calls, out, cmds>>
      PROVE  CommandsInOrder'
  BY <1>u, <1>i DEF CommandsInOrder
<1>1. CASE Connect \/ Wakeup \/ ShutdownListener \/ JoinAcceptor \/ PeerEnds \/ ReadReset
  BY <1>1, <1>u DEF Connect, Wakeup, ShutdownListener, JoinAcceptor, PeerEnds, ReadReset, History
<1>2. CASE Accept
  BY <1>2, <1>u, PostKeepsOrder DEF Accept, History
<1>3. CASE WriterWait \/ WriterTake \/ WriterSend \/ WriterFails
  BY <1>3, <1>u DEF WriterWait, WriterTake, WriterSend, WriterFails, History
<1>4. CASE WriterEnds
  BY <1>4, <1>u, PostKeepsOrder DEF WriterEnds, History
<1>5. CASE ReadEof
  BY <1>5, <1>u, PostKeepsOrder DEF ReadEof, History
<1>6. CASE ReadCommand
  <2>1. cmds' = cmds + 1 /\ cmds' \in 0 .. MaxCmds /\ out' = out
    BY <1>6, <1>t DEF ReadCommand, History
  <2>2. CASE calls' = Post("reader", 0)
    BY <2>1, <2>2, PostKeepsOrder
  <2>3. CASE calls' = Post("cmd", cmds')
    <3>1. /\ DOMAIN calls' = 1 .. Len(calls) + 1
          /\ \A k \in DOMAIN calls : k \in DOMAIN calls' /\ calls'[k] = calls[k]
          /\ \A k \in DOMAIN calls' : k \in DOMAIN calls \/ k = Len(calls) + 1
          /\ calls'[Len(calls) + 1].do = "cmd" /\ calls'[Len(calls) + 1].n = cmds + 1
      BY <2>1, <2>3, PostFacts
    <3>2. \A k \in DOMAIN calls' : calls'[k].do = "cmd" => calls'[k].n \in 1 .. cmds'
      BY <2>1, <3>1, <1>t, <1>i DEF CommandsInOrder
    <3>3. \A j, k \in DOMAIN calls' :
             j < k /\ calls'[j].do = "cmd" /\ calls'[k].do = "cmd" => calls'[j].n < calls'[k].n
      <4>1. SUFFICES ASSUME NEW j \in DOMAIN calls', NEW k \in DOMAIN calls', j < k,
                            calls'[j].do = "cmd", calls'[k].do = "cmd"
                     PROVE  calls'[j].n < calls'[k].n
        OBVIOUS
      <4>2. j \in DOMAIN calls /\ calls'[j] = calls[j] /\ calls[j].n \in 1 .. cmds
        BY <3>1, <4>1, <1>t, <1>i DEF CommandsInOrder
      <4>3. CASE k \in DOMAIN calls
        BY <3>1, <4>1, <4>2, <4>3, <1>i DEF CommandsInOrder
      <4>4. CASE k = Len(calls) + 1
        BY <3>1, <4>2, <4>4, <1>t
      <4> QED BY <3>1, <4>3, <4>4
    <3>4. \A i \in DOMAIN out : out[i] <= cmds /\ out[i] \in Nat
      BY <1>t, <1>i DEF CommandsInOrder
    <3>5. \A i \in DOMAIN out, k \in DOMAIN calls' : calls'[k].do = "cmd" => out[i] < calls'[k].n
      <4>1. SUFFICES ASSUME NEW i \in DOMAIN out, NEW k \in DOMAIN calls', calls'[k].do = "cmd"
                     PROVE  out[i] < calls'[k].n
        OBVIOUS
      <4>2. CASE k \in DOMAIN calls
        BY <3>1, <4>1, <4>2, <1>i DEF CommandsInOrder
      <4>3. CASE k = Len(calls) + 1
        <5>1. out[i] <= cmds /\ out[i] \in Nat /\ cmds \in Nat /\ calls'[k].n = cmds + 1
          BY <3>1, <3>4, <4>3, <1>t
        <5> QED BY <5>1
      <4> QED BY <3>1, <4>2, <4>3
    <3> QED BY <2>1, <3>2, <3>3, <3>4, <3>5, <1>t, <1>i DEF CommandsInOrder
  <2> QED BY <1>6, <2>2, <2>3 DEF ReadCommand
<1>7. CASE RunMain
  <2>r. /\ cmds' = cmds /\ 1 \in DOMAIN calls /\ calls[1] \in Posts
        /\ DOMAIN calls' = 1 .. Len(calls) - 1
        /\ \A k \in DOMAIN calls' : k + 1 \in DOMAIN calls /\ calls'[k] = calls[k + 1] /\ k \in Nat
    BY <1>7, RunMainCases, RunFacts
  <2>q. /\ \A k \in DOMAIN calls' : calls'[k].do = "cmd" => calls'[k].n \in 1 .. cmds
        /\ \A j, k \in DOMAIN calls' :
              j < k /\ calls'[j].do = "cmd" /\ calls'[k].do = "cmd" => calls'[j].n < calls'[k].n
        /\ \A i \in DOMAIN out, k \in DOMAIN calls' : calls'[k].do = "cmd" => out[i] < calls'[k].n
    <3>1. \A j, k \in DOMAIN calls' : j < k => j + 1 < k + 1
      BY <2>r
    <3> QED BY <3>1, <2>r, <1>i DEF CommandsInOrder
  <2>u. CASE out' = out
    BY <2>u, <2>q, <2>r, <1>i DEF CommandsInOrder
  <2>3. CASE calls[1].do = "cmd" /\ handle_cmd(calls[1].n)
    <3>1. PICK m \in {0, calls[1].n}, cl \in BOOLEAN : SendAndClose(m, cl)
      BY <2>3, CommandCases
    <3>2. CASE m # 0 /\ wbuffer # Closed /\ sock = "open"
      <4>1. /\ out' = Append(out, calls[1].n) /\ calls[1].n \in 1 .. cmds /\ calls[1].n \in 1 .. MaxCmds
        BY <3>1, <3>2, <2>3, <2>r, <1>i DEF SendAndClose, CommandsInOrder, Posts
      <4>2. /\ DOMAIN out' = 1 .. Len(out) + 1 /\ Len(out) \in Nat /\ DOMAIN out = 1 .. Len(out)
            /\ \A k \in 1 .. Len(out) : out'[k] = out[k]
            /\ out'[Len(out) + 1] = calls[1].n
        BY <4>1, <1>t, AppendFacts
      <4>3. \A i \in DOMAIN out : out[i] < calls[1].n
        BY <2>3, <2>r, <1>i DEF CommandsInOrder
      <4>4. \A k \in DOMAIN calls' : calls'[k].do = "cmd" => calls[1].n < calls'[k].n
        BY <2>3, <2>r, <1>i DEF CommandsInOrder
      <4>5. \A i \in DOMAIN out' : out'[i] <= cmds'
        BY <4>1, <4>2, <2>r, <1>i DEF CommandsInOrder
      <4>6. \A i \in DOMAIN out', k \in DOMAIN calls' : calls'[k].do = "cmd" => out'[i] < calls'[k].n
        BY <4>2, <4>4, <2>q
      <4>7. \A i, j \in DOMAIN out' : i < j => out'[i] < out'[j]
        BY <4>2, <4>3, <1>i DEF CommandsInOrder
      <4> QED BY <4>5, <4>6, <4>7, <2>q, <2>r DEF CommandsInOrder
    <3>3. CASE ~ (m # 0 /\ wbuffer # Closed /\ sock = "open")
      BY <2>u, <3>1, <3>3 DEF SendAndClose
    <3> QED BY <3>2, <3>3
  <2>4. CASE handle_accept \/ shutdown(calls[1].do)
    BY <2>4, <2>u DEF handle_accept, shutdown, History
  <2> QED BY <1>7, <2>3, <2>4, RunMainCases
<1> QED BY <1>1, <1>2, <1>3, <1>4, <1>5, <1>6, <1>7 DEF CliNext, Acceptor, Write, Read

\* Sequences of replies.
LEMMA SomeSent ==
    ASSUME NEW S, NEW a \in Seq(S), NEW b \in Seq(S), NEW k \in 0 .. Len(b)
    PROVE  a \o b = (a \o SubSeq(b, 1, k)) \o SubSeq(b, k + 1, Len(b))
<1> DEFINE p == SubSeq(b, 1, k)
           r == SubSeq(b, k + 1, Len(b))
<1>l. Len(a) \in Nat /\ Len(b) \in Nat /\ k \in Int /\ k + 1 \in Int /\ 0 <= k /\ k <= Len(b)
  OBVIOUS
<1>e. (\A i \in 1 .. k : b[i] \in S) /\ (\A i \in k + 1 .. Len(b) : b[i] \in S)
  BY <1>l
<1>1. p \in Seq(S) /\ Len(p) = k /\ \A i \in 1 .. k : p[i] = b[i]
  BY <1>e, <1>l, SubSeqProperties
<1>2. r \in Seq(S) /\ Len(r) = Len(b) - k /\ \A i \in 1 .. Len(b) - k : r[i] = b[k + i]
  BY <1>e, <1>l, SubSeqProperties
<1> HIDE DEF p, r
<1>3. a \o p \in Seq(S) /\ (a \o p) \o r \in Seq(S) /\ a \o b \in Seq(S)
  BY <1>1, <1>2, ConcatProperties
<1>4. Len((a \o p) \o r) = Len(a \o b)
  BY <1>1, <1>2, <1>l
<1>5. ASSUME NEW i \in 1 .. Len(a) + Len(b)
      PROVE  (a \o b)[i] = ((a \o p) \o r)[i]
  <2>1. CASE i <= Len(a)
    BY <2>1, <1>1, <1>2, <1>l
  <2>2. CASE i > Len(a) /\ i <= Len(a) + k
    BY <2>2, <1>1, <1>2, <1>l
  <2>3. CASE i > Len(a) + k
    <3>1. /\ Len(a \o p) = Len(a) + k
          /\ i - (Len(a) + k) \in 1 .. Len(b) - k /\ k + (i - (Len(a) + k)) = i - Len(a)
      <4>1. Len(a \o p) = Len(a) + k
        BY <1>1, ConcatProperties
      <4>2. \A x, y \in Nat : i > x + k /\ i <= x + y =>
                i - (x + k) \in 1 .. y - k /\ k + (i - (x + k)) = i - x
        BY <1>l
      <4>3. i <= Len(a) + Len(b)
        BY <1>l
      <4> QED BY <2>3, <4>1, <4>2, <4>3, <1>l
    <3>2. (a \o b)[i] = b[i - Len(a)]
      BY <2>3, <1>l, ConcatProperties
    <3>3. i \in 1 .. Len(a \o p) + Len(r)
      BY <3>1, <1>2, <1>l
    <3>4. ((a \o p) \o r)[i] = r[i - (Len(a) + k)]
      BY <2>3, <3>1, <3>3, <1>2, <1>3, <1>l, ConcatProperties
    <3> QED BY <3>1, <3>2, <3>4, <1>2
  <2>4. i <= Len(a) \/ (i > Len(a) /\ i <= Len(a) + k) \/ i > Len(a) + k
    BY <1>l
  <2> QED BY <2>1, <2>2, <2>3, <2>4
<1>6. Len(a \o b) = Len(a) + Len(b)
  BY ConcatProperties
<1> QED BY <1>3, <1>4, <1>5, <1>6, SeqEqual DEF p, r

LEMMA SentIsPrefix ==
    ASSUME NEW S, NEW a \in Seq(S), NEW b \in Seq(S), NEW c \in Seq(S)
    PROVE  /\ Len(a) <= Len((a \o b) \o c) /\ \A i \in 1 .. Len(a) : a[i] = ((a \o b) \o c)[i]
           /\ Len(a) <= Len(a \o b) /\ \A i \in 1 .. Len(a) : a[i] = (a \o b)[i]
OBVIOUS

\* The part of OnTheWay about the open connection, once the rest is known.
LEMMA PrefixOfSum ==
    ASSUME NEW S, NEW o, NEW a \in Seq(S), NEW b \in Seq(S), NEW c \in Seq(S), o = (a \o b) \o c
    PROVE  Len(a) <= Len(o) /\ \A i \in 1 .. Len(a) : a[i] = o[i]
BY SentIsPrefix

LEMMA OnTheWayStep ==
    ASSUME CliInv, CliNext
    PROVE  OnTheWay'
<1> USE CommandsAssumption
<1>t. /\ sending \in Seq(1 .. MaxCmds) /\ out \in Seq(1 .. MaxCmds) /\ wire \in Seq(1 .. MaxCmds)
      /\ Rest(wbuffer) \in Seq(1 .. MaxCmds) /\ <<>> \in Seq(1 .. MaxCmds)
      /\ sock \in {"none", "open", "closed"}
  <2>1. <<>> \in Seq(1 .. MaxCmds)
    OBVIOUS
  <2> QED BY <2>1 DEF CliInv, CliTyped, Rest
<1>i. OnTheWay
  BY DEF CliInv
<1>c. OneConnection
  BY DEF CliInv
<1>u. ASSUME UNCHANGED <<sock, sending, out, wire, wbuffer>>,
             wthr' = wthr \/ (wthr # "send" /\ wthr # "gone")
                          \/ (wthr' # "send" /\ sending = <<>> /\ (sock = "open" => wthr # "gone"))
      PROVE  OnTheWay'
  BY <1>u, <1>i DEF OnTheWay
<1>1. CASE Connect \/ Acceptor \/ ShutdownListener \/ JoinAcceptor
  BY <1>1, <1>u DEF Connect, Acceptor, Accept, Wakeup, ShutdownListener, JoinAcceptor, Writer, History
<1>2. CASE RunMain
  <2>r. wire' = wire /\ calls # <<>> /\ 1 \in DOMAIN calls
    BY <1>2, RunMainCases, RunFacts
  <2>1. CASE calls[1].do = "accept" /\ handle_accept
    <3>1. sock = "none"
      BY <2>1, <2>r, <1>c, <1>t DEF OneConnection
    <3>2. /\ wire = <<>> /\ out = <<>> /\ wbuffer = <<>> /\ sending = <<>>
      BY <3>1, <1>c, <1>i DEF OneConnection, OnTheWay
    <3>3. /\ wire' = <<>> /\ out' = <<>> /\ wbuffer' = <<>> /\ sending' = <<>>
      BY <3>2, <2>1, <2>r DEF handle_accept, History
    <3>4. <<>> = (<<>> \o <<>>) \o Rest(<<>>) /\ Len(<<>>) = 0
      BY DEF Rest
    <3>5. OnTheWay' <=> /\ wthr' # "send" => sending' = <<>>
                        /\ Len(wire') <= Len(out') /\ \A i \in 1 .. Len(wire') : wire'[i] = out'[i]
                        /\ sock' = "open" /\ wthr' # "gone" =>
                              out' = (wire' \o sending') \o Rest(wbuffer')
      BY DEF OnTheWay, Rest
    <3> QED BY <3>3, <3>4, <3>5
  <2>2. CASE shutdown(calls[1].do)
    <3>1. CASE sock = "open"
      <4>1. sock' = "closed" /\ UNCHANGED <<out, sending>> /\ wthr' = Awoken(wthr)
        BY <2>2, <3>1 DEF shutdown
      <4>2. wthr' # "send" => wthr # "send"
        BY <4>1 DEF Awoken
      <4> QED BY <4>1, <4>2, <2>r, <1>i DEF OnTheWay
    <3>2. CASE sock # "open"
      BY <2>2, <3>2, <2>r, <1>i DEF shutdown, OnTheWay
    <3> QED BY <3>1, <3>2
  <2>3. CASE calls[1].do = "cmd" /\ handle_cmd(calls[1].n)
    <3>1. PICK m \in {0, calls[1].n}, cl \in BOOLEAN : SendAndClose(m, cl)
      BY <2>3, CommandCases
    <3>2. sending' = sending /\ sock' = sock
      BY <2>3, <3>1, CommandCases DEF SendAndClose
    <3>3. (wthr' # "send" => wthr # "send") /\ (wthr' # "gone" => wthr # "gone")
      BY <3>1 DEF SendAndClose, Awoken
    <3>4. CASE m # 0 /\ wbuffer # Closed /\ sock = "open"
      <4>1. out' = Append(out, m) /\ wbuffer' = Append(wbuffer, m) /\ m \in 1 .. MaxCmds
        BY <3>1, <3>4, <1>2, RunMainCases DEF SendAndClose, Posts
      <4>2. wbuffer \in Seq(1 .. MaxCmds) /\ wbuffer' # Closed
        <5>1. wbuffer \in Seq(1 .. MaxCmds)
          BY <3>4, <1>t DEF Rest
        <5>2. Append(wbuffer, m)[Len(wbuffer) + 1] = m /\ Len(Append(wbuffer, m)) = Len(wbuffer) + 1
          BY <4>1, <5>1, AppendFacts
        <5>3. Closed[1] = 0 /\ Len(Closed) = 1
          BY DEF Closed
        <5> QED BY <4>1, <5>1, <5>2, <5>3
      <4>3. Len(wire) <= Len(out') /\ \A i \in 1 .. Len(wire) : wire[i] = out'[i]
        BY <4>1, <1>t, <1>i, AppendFacts DEF OnTheWay
      <4>4. ASSUME wthr' # "gone"
            PROVE  out' = (wire \o sending) \o wbuffer'
        <5>1. out = (wire \o sending) \o wbuffer
          BY <4>4, <3>3, <3>4, <1>i DEF OnTheWay, Rest
        <5>2. wire \o sending \in Seq(1 .. MaxCmds)
          BY <1>t, ConcatProperties
        <5> DEFINE sent == wire \o sending
                   Reply == 1 .. MaxCmds
        <5>3. sent \in Seq(Reply) /\ wbuffer \in Seq(Reply) /\ m \in Reply
          BY <4>1, <4>2, <5>2
        <5>4. out = sent \o wbuffer
          BY <5>1
        <5> HIDE DEF sent, Reply
        <5>5. Append(sent \o wbuffer, m) = sent \o Append(wbuffer, m)
          BY <5>3
        <5>6. Append(out, m) = Append(sent \o wbuffer, m)
          BY <5>4
        <5>7. out' = sent \o wbuffer'
          BY <4>1, <5>5, <5>6
        <5> QED BY <5>7 DEF sent
      <4> QED BY <4>2, <4>3, <4>4, <3>2, <3>3, <2>r, <1>i DEF OnTheWay, Rest
    <3>5. CASE ~ (m # 0 /\ wbuffer # Closed /\ sock = "open")
      <4>1. out' = out /\ wbuffer' = wbuffer
        BY <3>1, <3>5 DEF SendAndClose
      <4> QED BY <4>1, <3>2, <3>3, <2>r, <1>i DEF OnTheWay
    <3> QED BY <3>4, <3>5
  <2> QED BY <1>2, <2>1, <2>2, <2>3, RunMainCases
<1>3. CASE WriterWait \/ WriterEnds
  <2>1. /\ wthr = "ready" /\ wthr' # "send" /\ UNCHANGED <<sock, sending, out, wire, wbuffer>>
    BY <1>3 DEF WriterWait, WriterEnds, History
  <2> QED BY <2>1, <1>u
<1>4. CASE WriterTake
  <2>1. /\ wthr = "ready" /\ wthr' = "send" /\ sending' = wbuffer /\ wbuffer # Closed
        /\ Rest(wbuffer') = <<>> /\ UNCHANGED <<sock, out, wire>>
    BY <1>4 DEF WriterTake, History, Rest
  <2>2. ASSUME sock = "open"
        PROVE  out = (wire \o wbuffer) \o <<>>
    <3>1. out = (wire \o <<>>) \o wbuffer /\ wbuffer \in Seq(1 .. MaxCmds)
      BY <2>1, <2>2, <1>i, <1>t DEF OnTheWay, Rest
    <3>2. wire \o wbuffer \in Seq(1 .. MaxCmds)
      BY <3>1, <1>t, ConcatProperties
    <3> QED BY <3>1, <3>2, <1>t, ConcatEmptySeq
  <2>3. OnTheWay' <=> /\ wthr' # "send" => sending' = <<>>
                      /\ Len(wire') <= Len(out') /\ \A i \in 1 .. Len(wire') : wire'[i] = out'[i]
                      /\ sock' = "open" /\ wthr' # "gone" =>
                            out' = (wire' \o sending') \o Rest(wbuffer')
    BY DEF OnTheWay, Rest
  <2> QED BY <2>1, <2>2, <2>3, <1>i DEF OnTheWay
<1>5. CASE WriterSend
  <2>l. Len(sending) \in Nat
    BY <1>t
  <2>1. PICK k \in (IF sending = <<>> THEN {0} ELSE 1 .. Len(sending)) :
           /\ wire' = wire \o SubSeq(sending, 1, k)
           /\ sending' = SubSeq(sending, k + 1, Len(sending))
           /\ wthr' = IF k = Len(sending) THEN "ready" ELSE "send"
    BY <1>5 DEF WriterSend
  <2>2. k \in 0 .. Len(sending)
    BY <2>1, <2>l
  <2>3. UNCHANGED <<sock, out, wbuffer>> /\ sock = "open" /\ wthr = "send"
    BY <1>5 DEF WriterSend, History
  <2>4. wthr' # "send" => sending' = <<>>
    BY <2>1, <2>2, <2>l, SubSeqEmpty
  <2>5. out = (wire \o sending) \o Rest(wbuffer)
    BY <2>3, <1>i DEF OnTheWay
  <2>6. wire \o sending = wire' \o sending'
    BY <2>1, <2>2, <1>t, SomeSent
  <2>7. wire' \in Seq(1 .. MaxCmds) /\ sending' \in Seq(1 .. MaxCmds)
    BY CliTypedStep DEF CliTyped
  <2>8. out = (wire' \o sending') \o Rest(wbuffer)
    BY <2>5, <2>6
  <2>9. Len(wire') <= Len(out) /\ \A i \in 1 .. Len(wire') : wire'[i] = out[i]
    BY <2>7, <2>8, <1>t, PrefixOfSum
  <2> QED BY <2>3, <2>4, <2>8, <2>9 DEF OnTheWay, Rest
<1>6. CASE WriterFails
  BY <1>6, <1>i DEF WriterFails, OnTheWay, History
<1>7. CASE ReadCommand \/ Read \/ PeerEnds
  BY <1>7, <1>u DEF ReadCommand, Read, ReadEof, ReadReset, PeerEnds, Writer, History
<1> QED BY <1>1, <1>2, <1>3, <1>4, <1>5, <1>6, <1>7 DEF CliNext, Write

LEMMA AwakeWriterStep ==
    ASSUME CliInv, CliNext
    PROVE  WriterAwake'
<1>i. WriterAwake
  BY DEF CliInv
<1>u. ASSUME UNCHANGED <<wthr, wbuffer, wclose>> \/ wthr' # "waiting"
      PROVE  WriterAwake'
  BY <1>u, <1>i DEF WriterAwake
<1>1. CASE Connect \/ Acceptor \/ ShutdownListener \/ JoinAcceptor
  BY <1>1, <1>u DEF Connect, Acceptor, Accept, Wakeup, ShutdownListener, JoinAcceptor, Writer
<1>2. CASE RunMain
  <2>1. CASE handle_accept
    BY <2>1, <1>u DEF handle_accept
  <2>2. CASE shutdown(calls[1].do)
    BY <2>2, <1>u DEF shutdown, Awoken
  <2>3. CASE handle_cmd(calls[1].n)
    <3>1. PICK m \in {0, calls[1].n}, cl \in BOOLEAN : SendAndClose(m, cl)
      BY <2>3, CommandCases
    <3>2. CASE sock = "open" /\ (m # 0 \/ cl)
      BY <3>1, <3>2, <1>u DEF SendAndClose, Awoken
    <3>3. CASE ~ (sock = "open" /\ (m # 0 \/ cl))
      <4>1. wthr' = wthr /\ wbuffer' = wbuffer /\ (wclose' <=> wclose)
        BY <3>1, <3>3 DEF SendAndClose
      <4> QED BY <4>1, <1>i DEF WriterAwake
    <3> QED BY <3>2, <3>3
  <2> QED BY <1>2, <2>1, <2>2, <2>3, RunMainCases
<1>3. CASE WriterWait
  BY <1>3 DEF WriterWait, WriterAwake
<1>4. CASE WriterTake \/ WriterFails \/ WriterEnds
  BY <1>4, <1>u DEF WriterTake, WriterFails, WriterEnds
<1>5. CASE WriterSend
  BY <1>5, <1>u DEF WriterSend
<1>6. CASE ReadCommand \/ Read \/ PeerEnds
  BY <1>6, <1>u DEF ReadCommand, Read, ReadEof, ReadReset, PeerEnds, Writer
<1> QED BY <1>1, <1>2, <1>3, <1>4, <1>5, <1>6 DEF CliNext, Write

LEMMA FlushedStep ==
    ASSUME CliInv, CliNext
    PROVE  AskedIsFlushed'
<1> USE CommandsAssumption
<1> DEFINE Asked(q) == \E k \in DOMAIN q : q[k].do = "writer"
<1>t. /\ sending \in Seq(1 .. MaxCmds) /\ out \in Seq(1 .. MaxCmds) /\ wire \in Seq(1 .. MaxCmds)
      /\ due \in 0 .. Len(out) /\ 0 \in 0 .. MaxCmds /\ sock \in {"none", "open", "closed"}
      /\ Len(wire) \in Nat /\ Len(out) \in Nat
  BY DEF CliInv, CliTyped
<1>i. AskedIsFlushed /\ OneConnection
  BY DEF CliInv
<1>p. ASSUME NEW f \in {"accept", "reader", "cmd"}, NEW n \in 0 .. MaxCmds, calls' = Post(f, n)
      PROVE  Asked(calls') => Asked(calls)
  <2>1. /\ \A k \in DOMAIN calls : k \in DOMAIN calls' /\ calls'[k] = calls[k]
        /\ \A k \in DOMAIN calls' : k \in DOMAIN calls \/ k = Len(calls) + 1
        /\ calls'[Len(calls) + 1].do = f
    BY <1>p, PostFacts
  <2> QED BY <2>1
<1>u. ASSUME UNCHANGED <<sock, due, wclose, closedBy, wire>>, Asked(calls') => Asked(calls)
      PROVE  AskedIsFlushed'
  BY <1>u, <1>i DEF AskedIsFlushed
<1>1. CASE Connect \/ Wakeup \/ ShutdownListener \/ JoinAcceptor \/ PeerEnds \/ ReadReset
  BY <1>1, <1>u DEF Connect, Wakeup, ShutdownListener, JoinAcceptor, PeerEnds, ReadReset, Writer, History
<1>2. CASE Accept
  <2>1. UNCHANGED <<sock, due, wclose, closedBy, wire>> /\ (calls' = Post("accept", 0) \/ calls' = calls)
    BY <1>2 DEF Accept, Writer, History
  <2> QED BY <2>1, <1>t, <1>p, <1>u
<1>3. CASE ReadEof
  <2>1. UNCHANGED <<sock, due, wclose, closedBy, wire>> /\ (calls' = Post("reader", 0) \/ calls' = calls)
    BY <1>3 DEF ReadEof, Writer, History
  <2> QED BY <2>1, <1>t, <1>p, <1>u
<1>4. CASE ReadCommand
  <2>1. /\ UNCHANGED <<sock, due, wclose, closedBy, wire>> /\ cmds' \in 0 .. MaxCmds
        /\ calls' = Post("reader", 0) \/ calls' = Post("cmd", cmds')
    BY <1>4 DEF ReadCommand, Writer, History, CliInv, CliTyped
  <2> QED BY <2>1, <1>t, <1>p, <1>u
<1>5. CASE WriterWait \/ WriterTake \/ WriterFails
  BY <1>5, <1>u DEF WriterWait, WriterTake, WriterFails, History
<1>6. CASE WriterSend
  <2>1. /\ UNCHANGED <<sock, due, wclose, closedBy, calls>> /\ sock = "open"
        /\ \E k \in Int : wire' = wire \o SubSeq(sending, 1, k)
    <3>1. Len(sending) \in Nat
      BY <1>t
    <3>2. (IF sending = <<>> THEN {0} ELSE 1 .. Len(sending)) \subseteq 0 .. Len(sending)
      BY <3>1
    <3>3. 0 .. Len(sending) \subseteq Int
      BY <3>1
    <3> QED BY <1>6, <3>2, <3>3 DEF WriterSend, History
  <2>2. wire' \in Seq(1 .. MaxCmds) /\ OnTheWay'
    BY CliTypedStep, OnTheWayStep DEF CliTyped
  <2>3. PICK k \in 0 .. Len(sending) : wire' = wire \o SubSeq(sending, 1, k)
    <3>1. Len(sending) \in Nat
      BY <1>t
    <3>2. (IF sending = <<>> THEN {0} ELSE 1 .. Len(sending)) \subseteq 0 .. Len(sending)
      BY <3>1
    <3> QED BY <1>6, <3>2 DEF WriterSend
  <2>4. SubSeq(sending, 1, k) \in Seq(1 .. MaxCmds)
    <3>1. k \in Int /\ \A i \in 1 .. k : sending[i] \in 1 .. MaxCmds
      BY <1>t
    <3> QED BY <3>1, SubSeqProperties
  <2>5. Len(wire) <= Len(wire')
    BY <2>3, <2>4, <1>t, SentIsPrefix
  <2>6. Len(wire') \in Nat /\ due \in Nat
    BY <2>2, <1>t
  <2> QED BY <2>1, <2>5, <2>6, <1>t, <1>i DEF AskedIsFlushed
<1>7. CASE WriterEnds
  <2>1. /\ UNCHANGED <<sock, due, wclose, closedBy, wire, out>> /\ wthr = "ready" /\ wbuffer = Closed
        /\ wclose \/ calls' = calls
    BY <1>7 DEF WriterEnds, History
  <2>2. ASSUME sock = "open"
        PROVE  Len(wire) >= due
    <3>1. out = (wire \o <<>>) \o <<>>
      BY <2>1, <2>2 DEF CliInv, OnTheWay, Rest
    <3>2. out = wire
      BY <3>1, <1>t, ConcatEmptySeq
    <3> QED BY <3>2, <1>t
  <2>3. CASE wclose
    BY <2>1, <2>2, <2>3, <1>i DEF AskedIsFlushed
  <2>4. CASE calls' = calls
    BY <2>1, <2>4, <1>u
  <2> QED BY <2>1, <2>3, <2>4
<1>8. CASE RunMain
  <2>r. /\ wire' = wire /\ calls # <<>> /\ 1 \in DOMAIN calls
        /\ \A k \in DOMAIN calls' : k + 1 \in DOMAIN calls /\ calls'[k] = calls[k + 1]
    BY <1>8, RunMainCases, RunFacts
  <2>a. Asked(calls') => Asked(calls)
    BY <2>r
  <2>1. CASE calls[1].do = "accept" /\ handle_accept
    <3>1. sock = "none"
      BY <2>1, <2>r, <1>i, <1>t DEF OneConnection
    <3>2. ~ Asked(calls)
      BY <3>1, <1>i DEF OneConnection
    <3>3. closedBy' = closedBy /\ closedBy # "writer"
      BY <2>1, <3>1, <1>i DEF handle_accept, History, AskedIsFlushed
    <3> QED BY <3>2, <3>3, <2>a DEF AskedIsFlushed
  <2>2. CASE calls[1].do \in {"reader", "writer"} /\ shutdown(calls[1].do)
    <3>1. CASE sock = "open"
      <4>1. sock' = "closed" /\ due' = due /\ closedBy' = calls[1].do
        BY <2>2, <3>1 DEF shutdown
      <4>2. calls[1].do = "writer" => Len(wire) >= due
        BY <3>1, <2>r, <1>i DEF AskedIsFlushed
      <4> QED BY <4>1, <4>2, <2>r DEF AskedIsFlushed
    <3>2. CASE sock # "open"
      BY <2>2, <3>2, <2>r, <2>a, <1>u DEF shutdown
    <3> QED BY <3>1, <3>2
  <2>3. CASE calls[1].do = "cmd" /\ handle_cmd(calls[1].n)
    <3>1. PICK m \in {0, calls[1].n}, cl \in BOOLEAN : SendAndClose(m, cl)
      BY <2>3, CommandCases
    <3>2. sock' = sock /\ closedBy' = closedBy
      BY <2>3, CommandCases
    <3>3. CASE sock = "open"
      <4>1. wclose => wclose' /\ due' = due
        BY <3>1, <3>3 DEF SendAndClose
      <4> QED BY <4>1, <3>2, <3>3, <2>r, <2>a, <1>i DEF AskedIsFlushed
    <3>4. CASE sock # "open"
      <4>1. due' = due
        BY <3>1, <3>4 DEF SendAndClose
      <4> QED BY <4>1, <3>2, <3>4, <2>r, <1>i DEF AskedIsFlushed
    <3> QED BY <3>3, <3>4
  <2> QED BY <1>8, <2>1, <2>2, <2>3, RunMainCases
<1> QED BY <1>1, <1>2, <1>3, <1>4, <1>5, <1>6, <1>7, <1>8 DEF CliNext, Acceptor, Write, Read

LEMMA CliStart == CliInit => CliInv
<1> SUFFICES ASSUME CliInit PROVE CliInv
  OBVIOUS
<1> USE CommandsAssumption
<1>1. <<>> \in Seq(1 .. MaxCmds) /\ <<>> \in Seq(Posts) /\ Len(<<>>) = 0 /\ 0 \in 0 .. MaxCmds
  OBVIOUS
<1>2. CliTyped
  <2>1. /\ wbuffer = <<>> /\ sending = <<>> /\ out = <<>> /\ wire = <<>> /\ calls = <<>>
        /\ due = 0 /\ cmds = 0 /\ call \in CallStates /\ wclose \in BOOLEAN /\ served \in BOOLEAN
    BY DEF CliInit, CallStates
  <2>2. due \in 0 .. Len(out)
    BY <1>1, <2>1
  <2> QED BY <1>1, <2>1, <2>2 DEF CliInit, CliTyped
<1>3. OneConnection /\ FewCalls /\ CommandsInOrder
  BY <1>1 DEF CliInit, OneConnection, FewCalls, CommandsInOrder
<1>4. OnTheWay
  <2>1. <<>> = (<<>> \o <<>>) \o Rest(<<>>)
    BY DEF Rest
  <2> QED BY <1>1, <2>1 DEF CliInit, OnTheWay
<1>5. AskedIsFlushed /\ WriterAwake
  BY <1>1 DEF CliInit, AskedIsFlushed, WriterAwake
<1> QED BY <1>2, <1>3, <1>4, <1>5 DEF CliInv

LEMMA CliSteps == CliInv /\ [CliNext]_cliVars => CliInv'
<1>1. ASSUME CliInv, CliNext
      PROVE  CliInv'
  BY <1>1, CliTypedStep, ConnectionStep, OrderStep, OnTheWayStep, FlushedStep, AwakeWriterStep
     DEF CliInv
<1>2. ASSUME CliInv, UNCHANGED cliVars
      PROVE  CliInv'
  <2> USE <1>2 DEF cliVars
  <2>1. CliTyped' /\ OneConnection' /\ FewCalls'
    BY DEF CliInv, CliTyped, OneConnection, FewCalls
  <2>2. CommandsInOrder' /\ WriterAwake'
    BY DEF CliInv, CommandsInOrder, WriterAwake
  <2>3. OnTheWay' /\ AskedIsFlushed'
    BY DEF CliInv, OnTheWay, AskedIsFlushed, Rest
  <2> QED BY <2>1, <2>2, <2>3 DEF CliInv
<1> QED BY <1>1, <1>2

LEMMA CliInvIsSound == CliInv => CliSound
<1> SUFFICES ASSUME CliInv PROVE CliSound
  OBVIOUS
<1> USE CommandsAssumption
<1>1. CliTypeOK
  <2>1. wbuffer \in Seq(0 .. MaxCmds)
    <3>1. CASE wbuffer = Closed
      BY <3>1 DEF Closed
    <3>2. CASE wbuffer \in Seq(1 .. MaxCmds)
      BY <3>2
    <3> QED BY <3>1, <3>2 DEF CliInv, CliTyped
  <2>2. Len(calls) <= MaxCmds + 3
    <3>1. cmds \in 0 .. MaxCmds /\ Len(calls) \in Nat
      BY QueueFacts DEF CliInv, CliTyped
    <3> QED BY <3>1 DEF CliInv, FewCalls
  <2> QED BY <2>1, <2>2 DEF CliInv, CliTyped, CliTypeOK
<1>2. RepliesInOrder
  <2>1. IsPrefix(wire, out)
    <3>1. /\ wire \in Seq(1 .. MaxCmds) /\ out \in Seq(1 .. MaxCmds) /\ Len(wire) <= Len(out)
          /\ \A i \in 1 .. Len(wire) : wire[i] = out[i]
      BY DEF CliInv, CliTyped, OnTheWay
    <3>2. /\ Len(wire) \in Nat /\ Len(out) \in Nat
          /\ \A i \in 1 .. Len(wire) : out[i] \in 1 .. MaxCmds
      BY <3>1
    <3>3. /\ SubSeq(out, 1, Len(wire)) \in Seq(1 .. MaxCmds)
          /\ Len(SubSeq(out, 1, Len(wire))) = Len(wire)
          /\ \A i \in 1 .. Len(wire) : SubSeq(out, 1, Len(wire))[i] = out[i]
      BY <3>2, SubSeqProperties
    <3>4. wire = SubSeq(out, 1, Len(wire))
      BY <3>1, <3>3, SeqEqual
    <3> QED BY <3>1, <3>4 DEF IsPrefix
  <2>2. \A i, j \in DOMAIN out : i < j => out[i] < out[j]
    BY DEF CliInv, CommandsInOrder
  <2> QED BY <2>1, <2>2 DEF RepliesInOrder, CliInv, OnTheWay, Rest
<1>3. Flushed
  BY DEF CliInv, AskedIsFlushed, Flushed
<1> QED BY <1>1, <1>2, <1>3 DEF CliInv, CliSound

\* For any number of commands, the command socket's client reads the replies in the
\* order of its commands, none lost or doubled whoever of the main thread and the writer
\* holds them, all of those due before a soft close, and the writer never sleeps over
\* data, a pending close or the end of the connection.
THEOREM CliIsSound == CliSpec => []CliSound
<1>1. CliInit => CliInv
  BY CliStart
<1>2. CliInv /\ [CliNext]_cliVars => CliInv'
  BY CliSteps
<1>3. CliInv => CliSound
  BY CliInvIsSound
<1> QED BY <1>1, <1>2, <1>3, PTL DEF CliSpec

-----------------------------------------------------------------------------
(* The RTP end point: the invariant.                                       *)

Asked   == [target : {p.target : p \in RtpParams}, proto : {p.proto : p \in RtpParams},
            ptime : Nat \ {0}]
Channel == [open : BOOLEAN, proto : {p.proto : p \in RtpParams},
            target : {p.target : p \in RtpParams} \cup {NoTarget}]
Pending == [rem : Int, n : Nat]
Worker ==
    [ptime : Nat \ {0}, ended : BOOLEAN, open : BOOLEAN, ref : BOOLEAN,
     cb : {"idle", "send", "dead"}, queue : Seq(Chunks), buf : Nat, pend : Seq(Pending),
     rcvd : Int, prcsd : Int]
Places == {"end", "join", "target", "swap", "bind", "aim", "put", "close", "make", "keep", "drop",
           "stream"}
Updating ==
    [pc : Places, old : Nat, need : BOOLEAN, channel : Nat, proto : BOOLEAN, target : BOOLEAN]
Shutting == [pc : {"end", "join", "close"}, writer : Nat, channel : Nat, server : BOOLEAN]

EndTypeOK ==
    /\ ep \in Asked
    /\ server \in BOOLEAN /\ failed \in BOOLEAN /\ resampled \in BOOLEAN /\ kept \in BOOLEAN
    /\ chan \in Seq(Channel) /\ rserv \in 0 .. Len(chan) /\ leaked \subseteq 1 .. Len(chan)
    /\ workers \in Seq(Worker) /\ writer \in 0 .. Len(workers)
    /\ refs \in [server : Nat, proc : Nat]
    /\ upd \in {Idle, [pc |-> "new"]} \cup Updating
    /\ shut \in {Idle} \cup Shutting
    /\ snd = <<>> \/ snd \in (1 .. Len(workers)) \X Chunks

\* A worker that has not ended has an owner, which is one: the end point, the
\* update that will end it or has just made it, or the shutdown that will end it;
\* and nobody but the one who ended a worker joins it.
Owned ==
    /\ \A w \in DOMAIN workers :
          /\ workers[w].open => workers[w].ref
          /\ ~workers[w].ended => workers[w].open
          /\ ~workers[w].ended =>
                \/ w = writer
                \/ upd.pc = "end" /\ w = upd.old
                \/ upd.pc = "keep" /\ w = Len(workers)
                \/ shut.pc = "end" /\ w = shut.writer
    /\ writer # 0 => ~workers[writer].ended /\ ep.target # NoTarget
    /\ upd.pc = "end" /\ upd.old # 0 =>
          upd.old \in DOMAIN workers /\ ~workers[upd.old].ended /\ writer = 0
    /\ upd.pc = "join" =>
          upd.old \in DOMAIN workers /\ workers[upd.old].ended /\ workers[upd.old].ref /\ writer = 0
    /\ upd.pc = "keep" => upd.need /\ Len(workers) # 0 /\ ~workers[Len(workers)].ended
    /\ upd.pc = "drop" =>
          /\ upd.need /\ Len(workers) # 0 /\ workers[Len(workers)].ended
          /\ workers[Len(workers)].ref
    /\ upd \in Updating /\ upd.need /\ upd.pc # "stream" => writer = 0
    /\ shut.pc = "end" /\ shut.writer # 0 =>
          shut.writer \in DOMAIN workers /\ ~workers[shut.writer].ended
    /\ shut.pc = "join" =>
          shut.writer \in DOMAIN workers /\ workers[shut.writer].ended /\ workers[shut.writer].ref
    /\ shut.pc \in {"end", "join"} /\ shut.writer # 0 =>
          /\ upd.pc \in {"end", "join"} => shut.writer # upd.old
          /\ upd.pc \in {"keep", "drop"} => shut.writer # Len(workers)

\* The same of channels, but for those that were left open by a call that raised.
Opened ==
    /\ server <=> rserv # 0
    /\ writer # 0 => rserv # 0
    /\ rserv # 0 => chan[rserv].open
    /\ shut # Idle => rserv = 0
    /\ upd.pc = "new" => rserv = 0 /\ shut = Idle /\ workers = <<>> /\ chan = <<>> /\ ~kept
    /\ \A c \in DOMAIN chan : chan[c].open =>
          \/ c = rserv
          \/ upd.pc \in {"aim", "put"} /\ c = Len(chan)
          \/ upd.pc = "close" /\ c = upd.channel
          \/ shut # Idle /\ c = shut.channel
          \/ c \in leaked
    /\ shut # Idle => shut.channel \in 0 .. Len(chan)
    /\ upd \in Updating => upd.channel \in 0 .. Len(chan)
    /\ upd.pc \in {"target", "swap", "bind", "aim", "put", "close"} => upd.channel # 0
    /\ upd.pc \in {"end", "join", "target", "swap", "bind", "aim", "put"} => rserv \in {0, upd.channel}
    /\ upd.pc \in {"aim", "put", "close"} => upd.channel < Len(chan)
    /\ upd.pc \in {"aim", "put"} => chan[Len(chan)].open /\ (shut # Idle => shut.channel # Len(chan))
    /\ upd.pc = "close" => rserv \in {0, Len(chan)}

\* The references to the server; a reference is kept, and a channel left, by a call that raised.
Referred ==
    /\ refs.server = OtherUsers + (IF server \/ kept \/ (shut # Idle /\ shut.server) THEN 1 ELSE 0)
    /\ kept => ~server /\ ~(shut # Idle /\ shut.server)
    /\ kept \/ leaked # {} => failed

Fits(c) == c.proto = ep.proto /\ (ep.target # NoTarget => c.target = ep.target)

\* What there is of the parameters that were asked for, at every step of update(), until a
\* call raises.
Following ==
    server /\ ~failed =>
        /\ upd = Idle \/ upd.pc \in {"close", "make", "keep", "stream"} => Fits(chan[rserv])
        /\ upd.pc \in {"end", "join"} =>
              /\ ~upd.proto => chan[rserv].proto = ep.proto
              /\ ~upd.proto /\ ~upd.target /\ ep.target # NoTarget => chan[rserv].target = ep.target
        /\ upd.pc = "target" => chan[rserv].proto = ep.proto
        /\ upd.pc = "aim" => chan[Len(chan)].proto = ep.proto
        /\ upd.pc = "put" => Fits(chan[Len(chan)])
        /\ upd = Idle \/ upd.pc = "stream" \/ (upd \in Updating /\ ~upd.need) =>
              /\ writer # 0 <=> ep.target # NoTarget
              /\ writer # 0 => workers[writer].ptime = ep.ptime
        /\ upd \in Updating /\ upd.pc # "stream" /\ upd.need => ep.target # NoTarget
        /\ upd.pc = "keep" => workers[Len(workers)].ptime = ep.ptime
        /\ upd.pc # "drop"

\* The references to the processor are counted.
Counted == refs.proc = Cardinality({w \in DOMAIN workers : workers[w].ref})

\* The frames of a worker, one by one; hold is what soundout() has in hand for it.
Balanced(o, hold) == o.rcvd = o.prcsd + Frames(o.pend) + Frames(o.queue) + hold
Level(o) == Bytes(o.pend) = o.buf + (IF o.cb = "send" THEN o.ptime ELSE 0)
AtRate(q) == \A i \in DOMAIN q : q[i].rate = 1

Sounding ==
    /\ \A w \in DOMAIN workers :
          /\ Balanced(workers[w], InHand(w))
          /\ workers[w].cb # "dead" /\ rserv # 0 => Level(workers[w])
          /\ ~resampled => AtRate(workers[w].queue) /\ workers[w].buf % workers[w].ptime = 0
    /\ ~resampled /\ snd # <<>> => snd[2].rate = 1

Streaming ==
    /\ ins \in [last : Int, jb : Int, seq : Nat, obuf : Nat, got : Nat, given : Nat,
                asserted : BOOLEAN]
    /\ ins.jb = -1 => ins.last = -1
    /\ ins.jb # -1 => ins.jb = ins.seq /\ ins.last = ins.jb - 1 /\ ins.jb > 0
    /\ StreamInOrder

EndInv == EndTypeOK /\ Owned /\ Opened /\ Referred /\ Following /\ Counted /\ Sounding /\ Streaming

-----------------------------------------------------------------------------
(* Workers that are made and ended.                                        *)

\* v has the parameters and the sound of o.
SameSound(v, o) ==
    /\ v.ptime = o.ptime /\ v.cb = o.cb /\ v.queue = o.queue /\ v.buf = o.buf
    /\ v.pend = o.pend /\ v.rcvd = o.rcvd /\ v.prcsd = o.prcsd

\* v has the parameters of o, and has ended if and only if o has.
SameControl(v, o) ==
    /\ v.ptime = o.ptime /\ (v.ended <=> o.ended) /\ (v.open <=> o.open) /\ (v.ref <=> o.ref)

\* end() of a worker, join() of it, and the processor closing its channel.
Ended(v, o)  == v.ended /\ (v.open <=> o.open) /\ (v.ref <=> o.ref) /\ SameSound(v, o)
Left(v, o)   == ~v.open /\ ~v.ref /\ (v.ended <=> o.ended) /\ SameSound(v, o)
Shuttered(v, o) == ~v.open /\ (v.ref <=> o.ref) /\ (v.ended <=> o.ended) /\ SameSound(v, o)

\* Only worker w differs.
OnlyWorker(w) ==
    /\ workers' \in Seq(Worker) /\ Len(workers') = Len(workers) /\ Len(workers) \in Nat
    /\ DOMAIN workers' = 1 .. Len(workers) /\ DOMAIN workers = 1 .. Len(workers)
    /\ \A v \in 1 .. Len(workers) : v # w => workers'[v] = workers[v]

LEMMA WorkerReplaced ==
    ASSUME workers \in Seq(Worker), NEW w \in 1 .. Len(workers), NEW e \in Worker,
           workers' = [workers EXCEPT ![w] = e]
    PROVE  OnlyWorker(w) /\ workers'[w] = e
BY DEF OnlyWorker

LEMMA EndedWorkers ==
    ASSUME workers \in Seq(Worker), NEW w \in 1 .. Len(workers), workers' = WorkerEnded(w)
    PROVE  OnlyWorker(w) /\ Ended(workers'[w], workers[w])
<1> DEFINE o == workers[w]
           e == [o EXCEPT !.ended = TRUE]
<1>1. o \in Worker
  OBVIOUS
<1>2. e \in Worker /\ Ended(e, o)
  BY <1>1 DEF Worker, Ended, SameSound
<1>3. workers' = [workers EXCEPT ![w] = e]
  BY <1>1 DEF WorkerEnded
<1> HIDE DEF e, o
<1>4. OnlyWorker(w) /\ workers'[w] = e
  BY <1>2, <1>3, WorkerReplaced
<1> QED BY <1>2, <1>4 DEF o

LEMMA JoinedWorkers ==
    ASSUME workers \in Seq(Worker), NEW w \in 1 .. Len(workers), workers' = Joined(w)
    PROVE  OnlyWorker(w) /\ Left(workers'[w], workers[w])
<1> DEFINE o == workers[w]
           e == [[o EXCEPT !.open = FALSE] EXCEPT !.ref = FALSE]
<1>1. o \in Worker
  OBVIOUS
<1>2. e \in Worker /\ Left(e, o)
  BY <1>1 DEF Worker, Left, SameSound
<1>3. workers' = [workers EXCEPT ![w] = e]
  BY <1>1 DEF Joined
<1> HIDE DEF e, o
<1>4. OnlyWorker(w) /\ workers'[w] = e
  BY <1>2, <1>3, WorkerReplaced
<1> QED BY <1>2, <1>4 DEF o

LEMMA ClosedWorkers ==
    ASSUME workers \in Seq(Worker), NEW w \in 1 .. Len(workers),
           workers' = [workers EXCEPT ![w].open = FALSE]
    PROVE  OnlyWorker(w) /\ Shuttered(workers'[w], workers[w])
<1> DEFINE o == workers[w]
           e == [o EXCEPT !.open = FALSE]
<1>1. o \in Worker
  OBVIOUS
<1>2. e \in Worker /\ Shuttered(e, o)
  BY <1>1 DEF Worker, Shuttered, SameSound
<1>3. workers' = [workers EXCEPT ![w] = e]
  BY <1>1
<1> HIDE DEF e, o
<1>4. OnlyWorker(w) /\ workers'[w] = e
  BY <1>2, <1>3, WorkerReplaced
<1> QED BY <1>2, <1>4 DEF o

LEMMA NewWorkers ==
    ASSUME workers \in Seq(Worker), NEW pt \in Nat \ {0}
    PROVE  LET W == Append(workers, NewWorker(pt)) IN
           /\ W \in Seq(Worker) /\ Len(W) = Len(workers) + 1 /\ DOMAIN W = 1 .. Len(workers) + 1
           /\ DOMAIN workers = 1 .. Len(workers) /\ Len(workers) \in Nat
           /\ W[Len(workers) + 1] = NewWorker(pt)
           /\ \A v \in 1 .. Len(workers) : W[v] = workers[v]
<1>1. NewWorker(pt) \in Worker
  <2>1. <<>> \in Seq(Chunks) /\ <<>> \in Seq(Pending)
    OBVIOUS
  <2> QED BY <2>1 DEF NewWorker, Worker
<1> QED BY <1>1

LEMMA NewWorkerFacts ==
    ASSUME NEW pt \in Nat \ {0}
    PROVE  LET o == NewWorker(pt) IN
           /\ o.ptime = pt /\ ~o.ended /\ o.open /\ o.ref /\ o.cb = "idle" /\ o.queue = <<>>
           /\ o.buf = 0 /\ o.pend = <<>> /\ o.rcvd = 0 /\ o.prcsd = 0
BY DEF NewWorker

-----------------------------------------------------------------------------
(* Who holds what.                                                         *)

Control == Owned /\ Opened /\ Referred /\ Following /\ Counted

Referring(W) == {w \in DOMAIN W : W[w].ref}

LEMMA ReferringFinite ==
    ASSUME NEW W \in Seq(Worker)
    PROVE  IsFiniteSet(Referring(W)) /\ Cardinality(Referring(W)) \in Nat
<1>1. IsFiniteSet(1 .. Len(W)) /\ Referring(W) \subseteq 1 .. Len(W)
  BY FS_Interval DEF Referring
<1>2. IsFiniteSet(Referring(W))
  BY <1>1, FS_Subset
<1> QED BY <1>2, FS_CardinalityType

LEMMA ControlUnmoved ==
    ASSUME EndTypeOK, Control, workers' \in Seq(Worker), Len(workers') = Len(workers),
           \A w \in 1 .. Len(workers) : SameControl(workers'[w], workers[w]),
           UNCHANGED <<ep, writer, rserv, server, chan, refs, upd, shut, failed, leaked, kept>>
    PROVE  Control'
<1>1. /\ DOMAIN workers' = DOMAIN workers /\ DOMAIN workers = 1 .. Len(workers)
      /\ Len(workers) \in Nat
  BY DEF EndTypeOK
<1>2. /\ writer \in 0 .. Len(workers)
      /\ upd.pc = "end" /\ upd.old # 0 => upd.old \in 1 .. Len(workers)
      /\ upd.pc = "join" => upd.old \in 1 .. Len(workers)
      /\ shut.pc = "end" /\ shut.writer # 0 => shut.writer \in 1 .. Len(workers)
      /\ shut.pc = "join" => shut.writer \in 1 .. Len(workers)
      /\ upd.pc \in {"keep", "drop"} => Len(workers) \in 1 .. Len(workers)
  BY <1>1 DEF EndTypeOK, Control, Owned
<1>3. Owned'
  BY <1>1, <1>2 DEF Control, Owned, SameControl
<1>4. Opened'
  <2>1. workers = <<>> => workers' = <<>>
    BY <1>1
  <2> QED BY <2>1 DEF Control, Opened
<1>5. Referred'
  BY DEF Control, Referred
<1>6. Following'
  <2>1. writer # 0 => writer \in 1 .. Len(workers)
    BY <1>1, <1>2
  <2>2. upd.pc = "keep" => Len(workers) \in 1 .. Len(workers)
    BY <1>1 DEF Control, Owned
  <2> QED BY <1>1, <2>1, <2>2 DEF Control, Following, Fits, SameControl
<1>7. Counted'
  <2>1. Referring(workers') = Referring(workers)
    BY <1>1 DEF Referring, SameControl
  <2> QED BY <2>1 DEF Control, Counted, Referring
<1> QED BY <1>3, <1>4, <1>5, <1>6, <1>7 DEF Control

\* A reference that is taken and one that is given back.
LEMMA OneMoreReference ==
    ASSUME EndTypeOK, Counted, NEW pt \in Nat \ {0},
           workers' = Append(workers, NewWorker(pt)), refs'.proc = refs.proc + 1
    PROVE  Counted'
<1> DEFINE n == Len(workers) + 1
<1>1. /\ DOMAIN workers = 1 .. Len(workers) /\ DOMAIN workers' = 1 .. n /\ Len(workers) \in Nat
      /\ \A v \in 1 .. Len(workers) : workers'[v] = workers[v]
      /\ workers'[n].ref
  BY NewWorkers, NewWorkerFacts DEF EndTypeOK
<1>2. Referring(workers') = Referring(workers) \cup {n} /\ n \notin Referring(workers)
  BY <1>1 DEF Referring
<1>3. Cardinality(Referring(workers')) = Cardinality(Referring(workers)) + 1
  <2>1. IsFiniteSet(Referring(workers))
    BY ReferringFinite DEF EndTypeOK
  <2>2. Cardinality(Referring(workers) \cup {n}) = Cardinality(Referring(workers)) + 1
    BY <1>2, <2>1, FS_AddElement
  <2> QED BY <1>2, <2>2
<1> QED BY <1>3 DEF Counted, Referring

LEMMA OneReferenceLess ==
    ASSUME EndTypeOK, Counted, NEW w \in 1 .. Len(workers), workers[w].ref,
           workers' = Joined(w), refs' = OneLess("proc")
    PROVE  Counted' /\ refs'.server = refs.server
<1>1. OnlyWorker(w) /\ Left(workers'[w], workers[w])
  BY JoinedWorkers DEF EndTypeOK
<1>2. Referring(workers') = Referring(workers) \ {w} /\ w \in Referring(workers)
  BY <1>1 DEF Referring, Left, OnlyWorker
<1>3. Cardinality(Referring(workers')) = Cardinality(Referring(workers)) - 1
  BY <1>2, ReferringFinite, FS_RemoveElement DEF EndTypeOK
<1>4. Cardinality(Referring(workers)) > 0
  BY <1>2, ReferringFinite, FS_EmptySet DEF EndTypeOK
<1>5. refs \in [server : Nat, proc : Nat] /\ refs.proc > 0
  BY <1>4 DEF EndTypeOK, Counted, Referring
<1>6. refs'.proc = refs.proc - 1 /\ refs'.server = refs.server
  BY <1>5 DEF OneLess
<1> QED BY <1>3, <1>6 DEF Counted, Referring

\* A step that touches no reference of a worker.
LEMMA SameReferences ==
    ASSUME Counted, refs'.proc = refs.proc, DOMAIN workers' = DOMAIN workers,
           \A v \in DOMAIN workers : workers'[v].ref <=> workers[v].ref
    PROVE  Counted'
<1>1. Referring(workers') = Referring(workers)
  BY DEF Referring
<1> QED BY <1>1 DEF Counted, Referring

\* Where update() and shutdown() are.
LEMMA Whereabouts ==
    ASSUME EndTypeOK
    PROVE  /\ upd = Idle <=> upd.pc = "idle"
           /\ upd \in Updating <=> upd.pc \notin {"idle", "new"}
           /\ upd.pc \in {"idle", "new"} \cup Places
           /\ shut = Idle <=> shut.pc = "idle"
           /\ shut \in Shutting <=> shut.pc # "idle"
           /\ shut.pc \in {"idle", "end", "join", "close"}
           /\ Len(workers) \in Nat /\ DOMAIN workers = 1 .. Len(workers)
           /\ Len(chan) \in Nat /\ DOMAIN chan = 1 .. Len(chan)
           /\ writer \in Nat /\ rserv \in Nat
BY DEF EndTypeOK, Idle, Updating, Shutting, Places

\* The update goes to another place.
LEMMA UpdateMoves ==
    ASSUME upd \in Updating, NEW p \in Places, upd' = [upd EXCEPT !.pc = p]
    PROVE  /\ upd' \in Updating /\ upd'.pc = p /\ upd'.old = upd.old /\ (upd'.need <=> upd.need)
           /\ upd'.channel = upd.channel /\ (upd'.proto <=> upd.proto)
           /\ (upd'.target <=> upd.target) /\ upd' # Idle
BY DEF Updating, Idle, Places

LEMMA AskedParams == ASSUME NEW p \in RtpParams PROVE p \in Asked
<1>1. p \in [target : DOMAIN Families, proto : Families[p.target], ptime : Nat \ {0}]
  BY RtpAssumption
<1>2. p.target \in {q.target : q \in RtpParams} /\ p.proto \in {q.proto : q \in RtpParams}
  OBVIOUS
<1> QED BY <1>1, <1>2 DEF Asked

LEMMA MakeControl == EndTypeOK /\ Control /\ (Make \/ MakeFails) => EndTypeOK' /\ Control'
<1> SUFFICES ASSUME EndTypeOK, Control, Make \/ MakeFails PROVE EndTypeOK' /\ Control'
  OBVIOUS
<1>1. /\ upd.pc = "new" /\ upd' = Idle /\ shut = Idle /\ shut' = Idle /\ workers = <<>> /\ ~kept
      /\ chan = <<>> /\ rserv = 0 /\ writer = 0 /\ Idle.pc = "idle" /\ snd' = snd /\ ep' = ep
      /\ leaked' = leaked /\ kept' = kept
  BY DEF Make, MakeFails, Control, Opened, EndTypeOK, Idle, Counters, Lost
<1>2. snd = <<>> /\ Idle \notin Updating /\ leaked = {}
  BY <1>1 DEF EndTypeOK, Idle, Updating
<1>3. CASE MakeFails
  <2>1. EndTypeOK'
    BY <1>1, <1>2, <1>3 DEF EndTypeOK, MakeFails, Attached
  <2>2. Owned' /\ Opened' /\ Referred' /\ Following' /\ Counted'
    BY <1>1, <1>2, <1>3 DEF MakeFails, Attached, Control, Owned, Opened, Referred, Following, Counted
  <2> QED BY <2>1, <2>2 DEF Control
<1>4. CASE Make
  <2>1. ep \in Asked /\ ep.ptime \in Nat \ {0}
    BY DEF EndTypeOK, Asked
  <2>2. NewChannel(ep) \in Channel /\ NewChannel(ep).open /\ Fits(NewChannel(ep))
    BY <2>1 DEF NewChannel, Channel, Fits, Asked
  <2>3. /\ chan' = <<NewChannel(ep)>> /\ chan' \in Seq(Channel) /\ Len(chan') = 1
        /\ chan'[1] = NewChannel(ep) /\ DOMAIN chan' = 1 .. 1
    BY <1>4, <2>2 DEF Make
  <2>4. server' /\ rserv' = 1 /\ refs \in [server : Nat, proc : Nat]
    BY <1>4 DEF Make, EndTypeOK
  <2>5. CASE ep.target = NoTarget
    <3>1. writer' = 0 /\ workers' = <<>> /\ refs' = [refs EXCEPT !.server = @ + 1]
      BY <1>1, <1>4, <2>5 DEF Make
    <3>2. EndTypeOK'
      BY <1>1, <1>2, <1>4, <2>3, <2>4, <3>1 DEF EndTypeOK, Make, Counters, Lost
    <3>3. Owned' /\ Opened'
      <4>1. Owned'
        BY <1>1, <1>2, <3>1 DEF Owned
      <4>2. Opened'
        BY <1>1, <1>2, <2>2, <2>3, <2>4, <3>1 DEF Opened
      <4> QED BY <4>1, <4>2
    <3>4. Referred'
      BY <1>1, <1>2, <2>4, <3>1, RtpAssumption DEF Control, Referred, Opened
    <3>5. Following'
      BY <1>1, <1>2, <2>2, <2>3, <2>4, <2>5, <3>1 DEF Following, Fits
    <3>6. Counted'
      BY <1>1, <2>4, <3>1 DEF Control, Counted
    <3> QED BY <3>2, <3>3, <3>4, <3>5, <3>6 DEF Control
  <2>6. CASE ep.target # NoTarget
    <3> DEFINE o == NewWorker(ep.ptime)
    <3>1. /\ writer' = 1 /\ workers' = <<o>>
          /\ refs' = [server |-> refs.server + 1, proc |-> refs.proc + 1]
      BY <1>4, <2>6 DEF Make
    <3>2. /\ workers' = Append(workers, o)
      BY <1>1, <3>1
    <3>3. /\ workers' \in Seq(Worker) /\ Len(workers') = 1 /\ DOMAIN workers' = 1 .. 1
          /\ workers'[1] = o
      BY <1>1, <2>1, <3>2, NewWorkers DEF EndTypeOK
    <3>4. o.ptime = ep.ptime /\ ~o.ended /\ o.open /\ o.ref
      BY <2>1, NewWorkerFacts
    <3> HIDE DEF o
    <3>5. EndTypeOK'
      BY <1>1, <1>2, <1>4, <2>3, <2>4, <3>1, <3>3 DEF EndTypeOK, Make, Counters, Lost
    <3>6. Owned' /\ Opened'
      <4>1. Owned'
        BY <1>1, <1>2, <2>6, <3>1, <3>3, <3>4 DEF Owned
      <4>2. Opened'
        BY <1>1, <1>2, <2>2, <2>3, <2>4, <3>1 DEF Opened
      <4> QED BY <4>1, <4>2
    <3>7. Referred'
      BY <1>1, <1>2, <2>4, <3>1, RtpAssumption DEF Control, Referred, Opened
    <3>8. Following'
      BY <1>1, <1>2, <2>2, <2>3, <2>4, <2>6, <3>1, <3>3, <3>4 DEF Following, Fits
    <3>9. Counted'
      <4>1. refs'.proc = refs.proc + 1
        BY <3>1
      <4> QED BY <2>1, <3>2, <4>1, OneMoreReference DEF Control, o
    <3> QED BY <3>5, <3>6, <3>7, <3>8, <3>9 DEF Control
  <2> QED BY <2>5, <2>6
<1> QED BY <1>3, <1>4

LEMMA UpdateBeginControl ==
    ASSUME EndTypeOK, Control, NEW p \in RtpParams, UpdateBegin(p)
    PROVE  EndTypeOK' /\ Control'
<1>0. /\ upd = Idle /\ chan # <<>> /\ Idle.pc = "idle" /\ Idle \notin Updating
      /\ UNCHANGED <<rserv, server, chan, workers, refs, shut, snd, leaked, kept, resampled>>
      /\ p \in Asked /\ ep \in Asked
  BY AskedParams DEF UpdateBegin, Idle, Updating, EndTypeOK
<1>r. ASSUME NEW q \in Asked, ParamsRefused(q), ep.target # NoTarget => q.target # NoTarget
      PROVE  EndTypeOK' /\ Control'
  <2>1. ep' = q /\ failed' /\ failed' \in BOOLEAN /\ upd' = upd /\ writer' = writer
    BY <1>r DEF ParamsRefused
  <2>2. EndTypeOK'
    BY <1>0, <2>1 DEF EndTypeOK
  <2>3. Owned'
    BY <1>0, <1>r, <2>1 DEF Control, Owned
  <2>4. Opened' /\ Referred' /\ Counted' /\ Following'
    <3>1. Opened'
      BY <1>0, <2>1 DEF Control, Opened
    <3>2. Referred' /\ Counted' /\ Following'
      BY <1>0, <2>1 DEF Control, Referred, Counted, Following
    <3> QED BY <3>1, <3>2
  <2> QED BY <2>2, <2>3, <2>4 DEF Control
<1>a. CASE /\ p.proto # ep.proto /\ ep.target # NoTarget
           /\ ParamsRefused([ep EXCEPT !.proto = p.proto])
  <2>1. [ep EXCEPT !.proto = p.proto] \in Asked /\ [ep EXCEPT !.proto = p.proto].target = ep.target
    BY <1>0 DEF Asked
  <2> QED BY <1>a, <1>r, <2>1
<1>b. CASE /\ p.target \notin {NoTarget, ep.target}
           /\ ParamsRefused([ep EXCEPT !.proto = p.proto, !.target = p.target])
  <2> DEFINE q == [ep EXCEPT !.proto = p.proto, !.target = p.target]
  <2>1. q \in Asked /\ q.target = p.target
    BY <1>0 DEF Asked
  <2> HIDE DEF q
  <2>2. ParamsRefused(q)
    BY <1>b DEF q
  <2> QED BY <1>b, <1>r, <2>1, <2>2
<1>c. CASE ParamsTaken(p)
  <2> DEFINE proto == ep.proto # p.proto
             need == p.target # NoTarget /\ (writer = 0 \/ ep.ptime # p.ptime \/ proto)
             old == IF need \/ p.target = NoTarget THEN writer ELSE 0
             target == ep.target # p.target
  <2>1. /\ ep' = p /\ writer' = (IF old # 0 THEN 0 ELSE writer) /\ failed' = failed
        /\ upd' = [pc |-> "end", old |-> old, need |-> need, channel |-> rserv, proto |-> proto,
                   target |-> target]
    BY <1>c DEF ParamsTaken
  <2>2. proto \in BOOLEAN /\ need \in BOOLEAN /\ target \in BOOLEAN
    OBVIOUS
  <2>3. /\ writer \in 0 .. Len(workers) /\ old \in 0 .. Len(workers) /\ Len(workers) \in Nat
        /\ writer \in Nat /\ old \in Nat /\ rserv \in Nat /\ Len(chan) \in Nat
        /\ rserv \in 0 .. Len(chan) /\ DOMAIN workers = 1 .. Len(workers)
    BY Whereabouts DEF EndTypeOK
  <2>4. PICK bp \in BOOLEAN, bn \in BOOLEAN, bt \in BOOLEAN : bp = proto /\ bn = need /\ bt = target
    BY <2>2, Zenon
  <2>5. /\ (bp <=> ep.proto # p.proto) /\ (bt <=> ep.target # p.target)
        /\ bn <=> p.target # NoTarget /\ (writer = 0 \/ ep.ptime # p.ptime \/ ep.proto # p.proto)
        /\ old = IF bn \/ p.target = NoTarget THEN writer ELSE 0
    BY <2>4
  <2>6. upd' = [pc |-> "end", old |-> old, need |-> bn, channel |-> rserv, proto |-> bp, target |-> bt]
    BY <2>1, <2>4, Zenon
  <2>13. (IF old # 0 THEN 0 ELSE writer) \in 0 .. Len(workers)
    BY <2>3
  <2> HIDE DEF proto, need, old, target
  <2>7. /\ upd'.pc = "end" /\ upd'.old = old /\ (upd'.need <=> bn) /\ upd'.channel = rserv
        /\ (upd'.proto <=> bp) /\ (upd'.target <=> bt) /\ upd' \in Updating /\ upd' # Idle
    BY <2>3, <2>6 DEF Updating, Idle, Places
  <2>8. EndTypeOK'
    <3>1. writer' \in 0 .. Len(workers') /\ ep' \in Asked
      BY <1>0, <2>1, <2>13
    <3> QED BY <1>0, <2>1, <2>3, <2>7, <3>1 DEF EndTypeOK
  <2>9. Owned'
    <3>1. writer # 0 => shut.pc = "idle"
      BY Whereabouts DEF Control, Opened
    <3>2. (old # 0 => old = writer) /\ (writer' # 0 => writer' = writer /\ p.target # NoTarget)
      BY <2>1, <2>5
    <3>3. ep' = p /\ (bn => writer' = 0)
      BY <2>1, <2>5
    <3> QED BY <1>0, <2>1, <2>3, <2>5, <2>7, <3>1, <3>2, <3>3 DEF Control, Owned
  <2>10. Opened'
    BY <1>0, <2>1, <2>3, <2>5, <2>7 DEF Control, Opened
  <2>11. Referred' /\ Counted'
    BY <1>0, <2>1 DEF Control, Referred, Counted
  <2>12. Following'
    <3> SUFFICES ASSUME server', ~failed' PROVE Following'
      BY DEF Following
    <3>1. /\ Fits(chan[rserv]) /\ (writer # 0 <=> ep.target # NoTarget)
          /\ writer # 0 => workers[writer].ptime = ep.ptime
      BY <1>0, <2>1, <2>3 DEF Control, Following
    <3>2. /\ ~bp => chan[rserv].proto = p.proto
          /\ ~bp /\ ~bt /\ p.target # NoTarget => chan[rserv].target = p.target
      BY <2>5, <3>1 DEF Fits
    <3>3. ~bn => /\ writer' # 0 <=> p.target # NoTarget
                 /\ writer' # 0 => workers[writer'].ptime = p.ptime
      BY <2>1, <2>5, <3>1
    <3> QED BY <1>0, <2>1, <2>5, <2>7, <3>2, <3>3 DEF Following
  <2> QED BY <2>8, <2>9, <2>10, <2>11, <2>12 DEF Control
<1> QED BY <1>a, <1>b, <1>c DEF UpdateBegin

\* Where update() goes after the old worker, and what is known there.
LEMMA AfterJoinPlace ==
    LET p == AfterJoin IN
    /\ p = "swap" => upd.proto /\ upd.channel # 0
    /\ p = "target" => ~upd.proto /\ upd.channel # 0
    /\ p = "make" => ~(upd.proto /\ upd.channel # 0)
                     /\ (upd.proto \/ ~(upd.target /\ upd.channel # 0 /\ ep.target # NoTarget))
    /\ p \in {"swap", "target", "make"}
<1>1. CASE upd.proto /\ upd.channel # 0
  BY <1>1 DEF AfterJoin
<1>2. CASE ~upd.proto /\ upd.target /\ upd.channel # 0 /\ ep.target # NoTarget
  BY <1>2 DEF AfterJoin
<1>3. CASE /\ ~(upd.proto /\ upd.channel # 0)
           /\ ~(~upd.proto /\ upd.target /\ upd.channel # 0 /\ ep.target # NoTarget)
  <2>1. AfterJoin = "make"
    BY <1>3 DEF AfterJoin
  <2> QED BY <1>3, <2>1
<1> QED BY <1>1, <1>2, <1>3

\* The old worker is out of the way.
LEMMA AfterJoinControl ==
    ASSUME EndTypeOK, Control, upd.pc \in {"end", "join"}, upd' = [upd EXCEPT !.pc = AfterJoin],
           UNCHANGED <<ep, writer, rserv, server, chan, shut, leaked, kept, failed>>
    PROVE  /\ upd' \in Updating /\ upd'.pc \in {"swap", "target", "make"}
           /\ (upd'.need <=> upd.need) /\ upd' # Idle /\ Opened'
           /\ (writer' # 0 => workers'[writer'].ptime = workers[writer].ptime) => Following'
<1>1. upd \in Updating
  BY Whereabouts
<1>2. PICK p \in Places : p = AfterJoin
  BY AfterJoinPlace DEF Places
<1>3. /\ p = "swap" => upd.proto /\ upd.channel # 0
      /\ p = "target" => ~upd.proto /\ upd.channel # 0
      /\ p = "make" => ~(upd.proto /\ upd.channel # 0)
                       /\ (upd.proto \/ ~(upd.target /\ upd.channel # 0 /\ ep.target # NoTarget))
      /\ p \in {"swap", "target", "make"}
  BY <1>2, AfterJoinPlace
<1>4. /\ upd' \in Updating /\ upd'.pc = p /\ upd'.old = upd.old /\ (upd'.need <=> upd.need)
      /\ upd'.channel = upd.channel /\ upd' # Idle
  BY <1>1, <1>2, UpdateMoves
<1>6. Opened'
  BY <1>1, <1>3, <1>4 DEF Control, Opened
<1>7. server /\ ~failed =>
        /\ p = "target" => chan[rserv].proto = ep.proto
        /\ p = "make" => Fits(chan[rserv])
  BY <1>1, <1>3 DEF Control, Following, Opened, Fits
<1>8. server /\ ~failed /\ ~upd.need =>
        /\ writer # 0 <=> ep.target # NoTarget
        /\ writer # 0 => workers[writer].ptime = ep.ptime
  BY <1>1 DEF Control, Following
<1>9. server /\ ~failed /\ upd.need => ep.target # NoTarget
  <2>1. upd.pc # "stream"
    OBVIOUS
  <2> QED BY <1>1, <2>1 DEF Control, Following
<1>10. ASSUME writer' # 0 => workers'[writer'].ptime = workers[writer].ptime PROVE Following'
  BY <1>1, <1>3, <1>4, <1>7, <1>8, <1>9, <1>10 DEF Following, Fits
<1> QED BY <1>3, <1>4, <1>6, <1>10

LEMMA UpdateEndControl == EndTypeOK /\ Control /\ UpdateEnd => EndTypeOK' /\ Control'
<1> SUFFICES ASSUME EndTypeOK, Control, UpdateEnd PROVE EndTypeOK' /\ Control'
  OBVIOUS
<1>1. /\ upd.pc = "end" /\ upd \in Updating /\ upd.pc \in {"end", "join"} /\ refs' = refs
      /\ UNCHANGED <<ep, writer, rserv, server, chan, shut, snd, failed, leaked, kept, resampled>>
  BY Whereabouts DEF UpdateEnd, Attached, Counters, Lost
<1>2. Referred'
  BY <1>1 DEF Control, Referred
<1>5. /\ Len(workers) \in Nat /\ DOMAIN workers = 1 .. Len(workers) /\ writer \in Nat
      /\ Len(chan) \in Nat /\ DOMAIN chan = 1 .. Len(chan)
  BY Whereabouts
<1>10. CASE upd.old = 0
  <2>1. workers' = workers /\ upd' = [upd EXCEPT !.pc = AfterJoin]
    BY <1>10 DEF UpdateEnd
  <2>4. /\ upd' \in Updating /\ upd'.pc \in {"swap", "target", "make"} /\ (upd'.need <=> upd.need)
        /\ upd' # Idle /\ Opened' /\ Following'
    <3>1. writer' # 0 => workers'[writer'].ptime = workers[writer].ptime
      BY <1>1, <2>1
    <3> QED BY <1>1, <2>1, <3>1, AfterJoinControl
  <2>2. EndTypeOK'
    BY <1>1, <2>1, <2>4 DEF EndTypeOK
  <2>3. Owned'
    BY <1>1, <1>5, <1>10, <2>1, <2>4 DEF Control, Owned
  <2>5. Counted'
    BY <1>1, <2>1 DEF Control, Counted
  <2> QED BY <1>2, <2>2, <2>3, <2>4, <2>5 DEF Control
<1>11. CASE upd.old # 0
  <2>0. PICK w \in 1 .. Len(workers) : w = upd.old /\ writer = 0 /\ ~workers[w].ended
    BY <1>1, <1>5, <1>11 DEF Control, Owned
  <2>1. workers' = WorkerEnded(w) /\ upd' = [upd EXCEPT !.pc = "join"]
    BY <1>11, <2>0 DEF UpdateEnd
  <2>2. OnlyWorker(w) /\ Ended(workers'[w], workers[w])
    BY <2>1, EndedWorkers DEF EndTypeOK
  <2>3. /\ upd' \in Updating /\ upd'.pc = "join" /\ upd'.old = upd.old /\ (upd'.need <=> upd.need)
        /\ upd'.channel = upd.channel /\ (upd'.proto <=> upd.proto)
        /\ (upd'.target <=> upd.target) /\ upd' # Idle
    BY <1>1, <2>1, UpdateMoves DEF Places
  <2>4. EndTypeOK'
    BY <1>1, <2>2, <2>3 DEF EndTypeOK, OnlyWorker
  <2>5. Counted'
    BY <1>1, <1>5, <2>2, SameReferences DEF Control, OnlyWorker, Ended
  <2>6. Owned'
    <3>1. workers[w].open /\ workers[w].ref
      BY <1>5, <2>0 DEF Control, Owned
    <3>2. workers'[w].ended /\ workers'[w].open /\ workers'[w].ref
      BY <2>2, <3>1 DEF Ended
    <3>3. /\ Len(workers') = Len(workers) /\ DOMAIN workers' = 1 .. Len(workers)
          /\ \A v \in 1 .. Len(workers) : v # w => workers'[v] = workers[v]
      BY <2>2 DEF OnlyWorker
    <3> QED BY <1>1, <1>5, <2>0, <2>3, <3>2, <3>3 DEF Control, Owned
  <2>7. Opened'
    BY <1>1, <2>3 DEF Control, Opened
  <2>8. Following'
    BY <1>1, <2>0, <2>3 DEF Control, Following, Fits
  <2> QED BY <1>2, <2>4, <2>5, <2>6, <2>7, <2>8 DEF Control
<1> QED BY <1>10, <1>11

LEMMA UpdateJoinControl == EndTypeOK /\ Control /\ UpdateJoin => EndTypeOK' /\ Control'
<1> SUFFICES ASSUME EndTypeOK, Control, UpdateJoin PROVE EndTypeOK' /\ Control'
  OBVIOUS
<1>1. /\ upd.pc = "join" /\ upd \in Updating /\ upd.pc \in {"end", "join"}
      /\ UNCHANGED <<ep, writer, rserv, server, chan, shut, snd, leaked, kept, resampled>>
      /\ Idle.pc = "idle" /\ Idle \notin Updating
  BY Whereabouts DEF UpdateJoin, Attached, Idle, Updating
<1>5. /\ Len(workers) \in Nat /\ DOMAIN workers = 1 .. Len(workers) /\ writer \in Nat
      /\ Len(chan) \in Nat /\ DOMAIN chan = 1 .. Len(chan)
  BY Whereabouts
<1>2. PICK w \in 1 .. Len(workers) :
          w = upd.old /\ writer = 0 /\ workers[w].ended /\ workers[w].ref
  BY <1>1, <1>5 DEF Control, Owned
<1>3. workers' = Joined(w) /\ refs' = OneLess("proc")
  BY <1>2 DEF UpdateJoin
<1>4. OnlyWorker(w) /\ Left(workers'[w], workers[w])
  BY <1>3, JoinedWorkers DEF EndTypeOK
<1>6. Counted' /\ refs'.server = refs.server
  BY <1>2, <1>3, OneReferenceLess DEF Control
<1>7. refs' \in [server : Nat, proc : Nat]
  BY <1>3 DEF OneLess, EndTypeOK
<1>8. ASSUME upd' = Idle \/ (upd' \in Updating /\ upd'.pc \in {"swap", "target", "make"}),
             upd' # Idle => (upd'.need <=> upd.need), Opened', Following', failed' \in BOOLEAN,
             failed => failed'
      PROVE  EndTypeOK' /\ Control'
  <2>1. EndTypeOK'
    BY <1>1, <1>4, <1>7, <1>8 DEF EndTypeOK, OnlyWorker
  <2>2. Referred'
    BY <1>1, <1>6, <1>8 DEF Control, Referred
  <2>3. upd'.pc \notin {"end", "join", "keep", "drop"}
    BY <1>1, <1>8
  <2>4. /\ Len(workers') = Len(workers) /\ DOMAIN workers' = 1 .. Len(workers)
        /\ \A v \in 1 .. Len(workers) : v # w => workers'[v] = workers[v]
        /\ workers'[w].ended /\ ~workers'[w].open
    BY <1>2, <1>4 DEF OnlyWorker, Left
  <2>5. shut.pc \in {"end", "join"} /\ shut.writer # 0 => shut.writer # w
    BY <1>1, <1>2 DEF Control, Owned
  <2>6. shut.pc = "join" => shut.writer # 0
    BY <1>5 DEF Control, Owned
  <2>7. Owned'
    BY <1>1, <1>2, <1>5, <1>8, <2>3, <2>4, <2>5, <2>6 DEF Control, Owned
  <2> QED BY <1>6, <1>8, <2>1, <2>2, <2>7 DEF Control
<1>9. CASE workers[w].open
  <2>1. upd' = [upd EXCEPT !.pc = AfterJoin] /\ failed' = failed
    BY <1>2, <1>9 DEF UpdateJoin
  <2>2. /\ upd' \in Updating /\ upd'.pc \in {"swap", "target", "make"} /\ (upd'.need <=> upd.need)
        /\ upd' # Idle /\ Opened' /\ Following'
    <3>1. writer' # 0 => workers'[writer'].ptime = workers[writer].ptime
      BY <1>1, <1>2
    <3> QED BY <1>1, <2>1, <3>1, AfterJoinControl
  <2>3. failed' \in BOOLEAN /\ (failed => failed')
    BY <2>1 DEF EndTypeOK
  <2> QED BY <1>8, <2>2, <2>3
<1>10. CASE ~workers[w].open
  <2>1. upd' = Idle /\ failed' = TRUE
    BY <1>2, <1>10 DEF UpdateJoin
  <2>2. Opened'
    BY <1>1, <2>1 DEF Control, Opened
  <2>3. Following'
    BY <2>1 DEF Following
  <2>4. failed' \in BOOLEAN /\ failed'
    BY <2>1
  <2> QED BY <1>8, <2>1, <2>2, <2>3, <2>4
<1> QED BY <1>9, <1>10

\* A step of update() that goes to another place and touches no worker.
LEMMA UpdateStepOwned ==
    ASSUME EndTypeOK, Control, upd \in Updating,
           upd.pc \notin {"end", "join", "keep", "drop", "stream"},
           NEW p \in {"target", "swap", "bind", "aim", "put", "close", "make"},
           upd' = [upd EXCEPT !.pc = p], UNCHANGED <<ep, writer, workers, shut>>
    PROVE  Owned'
<1>1. /\ upd'.pc = p /\ (upd'.need <=> upd.need)
  BY UpdateMoves DEF Places
<1> QED BY <1>1 DEF Control, Owned

\* update() raises, outside of its sections under state_lock and with no worker in hand; a
\* channel that it has just bound is left.
LEMMA UpdateRaises ==
    ASSUME EndTypeOK, Control, upd.pc \in {"target", "bind", "aim"}, upd' = Idle, failed' = TRUE,
           UNCHANGED <<ep, writer, rserv, server, chan, workers, refs, shut, snd, kept, resampled>>,
           leaked' = IF upd.pc = "aim" THEN leaked \cup {Len(chan)} ELSE leaked
    PROVE  EndTypeOK' /\ Control'
<1>1. /\ upd \in Updating /\ Len(chan) \in Nat /\ DOMAIN chan = 1 .. Len(chan)
      /\ Idle.pc = "idle" /\ Idle \notin Updating
  BY Whereabouts DEF Idle, Updating
<1>2. upd.pc = "aim" => Len(chan) \in 1 .. Len(chan)
  <2>1. upd.pc = "aim" => upd.channel < Len(chan) /\ upd.channel \in Nat
    BY <1>1 DEF Control, Opened, Updating
  <2> QED BY <1>1, <2>1
<1>3. EndTypeOK'
  BY <1>1, <1>2 DEF EndTypeOK
<1>4. Owned'
  BY <1>1 DEF Control, Owned
<1>5. Opened'
  BY <1>1 DEF Control, Opened
<1>6. Referred' /\ Counted' /\ Following'
  BY DEF Control, Referred, Counted, Following
<1> QED BY <1>3, <1>4, <1>5, <1>6 DEF Control

\* What update() needs of the worker once it is past the old one.
LEMMA WorkerFollows ==
    ASSUME EndTypeOK, Control, upd.pc \in {"target", "swap", "bind", "aim", "put", "close", "make"},
           server, ~failed
    PROVE  /\ ~upd.need =>
               /\ writer # 0 <=> ep.target # NoTarget
               /\ writer # 0 => workers[writer].ptime = ep.ptime
           /\ upd.need => ep.target # NoTarget
BY Whereabouts DEF Control, Following

\* A channel gets another target.
LEMMA AimedChannel ==
    ASSUME EndTypeOK, NEW c \in 1 .. Len(chan), chan' = [chan EXCEPT ![c].target = ep.target]
    PROVE  /\ chan' \in Seq(Channel) /\ Len(chan') = Len(chan) /\ DOMAIN chan' = 1 .. Len(chan)
           /\ chan'[c].target = ep.target /\ chan'[c].proto = chan[c].proto
           /\ \A x \in 1 .. Len(chan) : x # c => chan'[x] = chan[x]
           /\ \A x \in 1 .. Len(chan) : chan'[x].open <=> chan[x].open
<1> DEFINE d == [chan[c] EXCEPT !.target = ep.target]
<1>2. /\ chan[c] \in Channel /\ ep \in Asked /\ DOMAIN chan = 1 .. Len(chan) /\ Len(chan) \in Nat
      /\ chan \in Seq(Channel)
  BY DEF EndTypeOK
<1>3. /\ d \in Channel /\ d.proto = chan[c].proto /\ d.target = ep.target /\ (d.open <=> chan[c].open)
  BY <1>2 DEF Channel, Asked
<1>4. chan' = [chan EXCEPT ![c] = d]
  BY <1>2
<1> HIDE DEF d
<1>5. /\ chan' \in Seq(Channel) /\ Len(chan') = Len(chan) /\ DOMAIN chan' = 1 .. Len(chan)
      /\ chan'[c] = d /\ \A x \in 1 .. Len(chan) : x # c => chan'[x] = chan[x]
  BY <1>2, <1>3, <1>4
<1>6. \A x \in 1 .. Len(chan) : chan'[x].open <=> chan[x].open
  BY <1>3, <1>5
<1> QED BY <1>3, <1>5, <1>6

LEMMA UpdateTargetControl == EndTypeOK /\ Control /\ UpdateTarget => EndTypeOK' /\ Control'
<1> SUFFICES ASSUME EndTypeOK, Control, UpdateTarget PROVE EndTypeOK' /\ Control'
  OBVIOUS
<1>1. /\ upd.pc = "target" /\ upd \in Updating
      /\ UNCHANGED <<ep, writer, rserv, server, workers, refs, shut, snd, leaked, kept, resampled>>
      /\ Len(chan) \in Nat /\ DOMAIN chan = 1 .. Len(chan)
  BY Whereabouts DEF UpdateTarget, Attached
<1>2. PICK c \in 1 .. Len(chan) : c = upd.channel
  BY <1>1 DEF Control, Opened
<1>9. CASE /\ upd' = [upd EXCEPT !.pc = "make"] /\ failed' = failed
           /\ chan' = [chan EXCEPT ![upd.channel].target = ep.target]
  <2>0. chan' = [chan EXCEPT ![c].target = ep.target]
    BY <1>2, <1>9
  <2>1. /\ upd' \in Updating /\ upd'.pc = "make" /\ (upd'.need <=> upd.need)
        /\ upd'.channel = upd.channel /\ upd' # Idle
    BY <1>1, <1>9, UpdateMoves DEF Places
  <2>5. /\ chan' \in Seq(Channel) /\ Len(chan') = Len(chan) /\ DOMAIN chan' = 1 .. Len(chan)
        /\ chan'[c].target = ep.target /\ chan'[c].proto = chan[c].proto
        /\ \A x \in 1 .. Len(chan) : chan'[x].open <=> chan[x].open
    BY <2>0, AimedChannel
  <2>2. EndTypeOK'
    BY <1>1, <1>9, <2>1, <2>5 DEF EndTypeOK
  <2>3. Owned'
    BY <1>1, <1>9, UpdateStepOwned
  <2>7. rserv \in {0, c} /\ rserv \in 0 .. Len(chan)
    BY <1>1, <1>2 DEF Control, Opened, EndTypeOK
  <2>4. Opened'
    BY <1>1, <2>1, <2>5, <2>7 DEF Control, Opened
  <2>6. Following'
    <3> SUFFICES ASSUME server', ~failed' PROVE Following'
      BY DEF Following
    <3>1. rserv = c /\ chan[rserv].proto = ep.proto /\ server /\ ~failed
      BY <1>1, <1>9, <2>7 DEF Control, Opened, Following
    <3>3. Fits(chan[rserv])'
      BY <1>1, <2>5, <3>1 DEF Fits
    <3>4. /\ ~upd.need =>
               /\ writer # 0 <=> ep.target # NoTarget
               /\ writer # 0 => workers[writer].ptime = ep.ptime
          /\ upd.need => ep.target # NoTarget
      BY <1>1, <3>1, WorkerFollows
    <3> QED BY <1>1, <2>1, <3>3, <3>4 DEF Following, Fits
  <2>8. Referred' /\ Counted'
    BY <1>1, <1>9 DEF Control, Referred, Counted
  <2> QED BY <2>2, <2>3, <2>4, <2>6, <2>8 DEF Control
<1>10. CASE upd' = Idle /\ failed' = TRUE /\ chan' = chan
  BY <1>1, <1>10, UpdateRaises
<1> QED BY <1>9, <1>10 DEF UpdateTarget

LEMMA SwapCheckControl == EndTypeOK /\ Control /\ SwapCheck => EndTypeOK' /\ Control'
<1> SUFFICES ASSUME EndTypeOK, Control, SwapCheck PROVE EndTypeOK' /\ Control'
  OBVIOUS
<1>1. /\ upd.pc = "swap" /\ upd \in Updating
      /\ UNCHANGED <<ep, writer, rserv, server, chan, workers, refs, shut, snd, failed, leaked,
                     kept, resampled>>
      /\ Len(chan) \in Nat /\ DOMAIN chan = 1 .. Len(chan)
  BY Whereabouts DEF SwapCheck, Attached, Counters, Lost
<1>2. PICK p \in {"bind", "make"} : upd' = [upd EXCEPT !.pc = p] /\ (p = "make" <=> ~Swappable)
  <2>1. CASE Swappable
    BY <2>1 DEF SwapCheck
  <2>2. CASE ~Swappable
    BY <2>2 DEF SwapCheck
  <2> QED BY <2>1, <2>2
<1>3. /\ upd' \in Updating /\ upd'.pc = p /\ (upd'.need <=> upd.need)
      /\ upd'.channel = upd.channel /\ upd' # Idle
  BY <1>1, <1>2, UpdateMoves DEF Places
<1>4. EndTypeOK'
  BY <1>1, <1>3 DEF EndTypeOK
<1>5. Owned'
  BY <1>1, <1>2, UpdateStepOwned
<1>6. p = "make" => ~server
  BY <1>1, <1>2 DEF Swappable, Control, Opened
<1>7. Opened'
  BY <1>1, <1>2, <1>3 DEF Control, Opened
<1>8. Following'
  BY <1>1, <1>2, <1>3, <1>6 DEF Control, Following, Fits
<1>9. Referred' /\ Counted'
  BY <1>1 DEF Control, Referred, Counted
<1> QED BY <1>4, <1>5, <1>7, <1>8, <1>9 DEF Control

LEMMA SwapBindControl == EndTypeOK /\ Control /\ SwapBind => EndTypeOK' /\ Control'
<1> SUFFICES ASSUME EndTypeOK, Control, SwapBind PROVE EndTypeOK' /\ Control'
  OBVIOUS
<1>1. /\ upd.pc = "bind" /\ upd \in Updating
      /\ UNCHANGED <<ep, writer, rserv, server, workers, refs, shut, snd, leaked, kept, resampled>>
      /\ Len(chan) \in Nat /\ DOMAIN chan = 1 .. Len(chan)
  BY Whereabouts DEF SwapBind, Attached
<1> DEFINE d == [NewChannel(ep) EXCEPT !.target = NoTarget]
<1>3. CASE /\ upd' = [upd EXCEPT !.pc = "aim"] /\ chan' = Append(chan, d)
           /\ failed' = failed
  <2>1. d \in Channel /\ d.open /\ d.proto = ep.proto
    BY DEF NewChannel, Channel, EndTypeOK, Asked
  <2> HIDE DEF d
  <2>2. /\ chan' \in Seq(Channel) /\ Len(chan') = Len(chan) + 1 /\ DOMAIN chan' = 1 .. Len(chan) + 1
        /\ chan'[Len(chan) + 1] = d /\ \A x \in 1 .. Len(chan) : chan'[x] = chan[x]
    BY <1>1, <1>3, <2>1 DEF EndTypeOK
  <2>3. /\ upd' \in Updating /\ upd'.pc = "aim" /\ (upd'.need <=> upd.need)
        /\ upd'.channel = upd.channel /\ upd' # Idle
    BY <1>1, <1>3, UpdateMoves DEF Places
  <2>4. EndTypeOK'
    BY <1>1, <1>3, <2>2, <2>3 DEF EndTypeOK
  <2>5. Owned'
    BY <1>1, <1>3, UpdateStepOwned
  <2>6. Opened'
    <3>1. rserv \in 0 .. Len(chan)
      BY DEF EndTypeOK
    <3> QED BY <1>1, <2>1, <2>2, <2>3, <3>1 DEF Control, Opened
  <2>7. Following'
    <3>2. server /\ ~failed =>
            /\ ~upd.need =>
                 /\ writer # 0 <=> ep.target # NoTarget
                 /\ writer # 0 => workers[writer].ptime = ep.ptime
            /\ upd.need => ep.target # NoTarget
      BY <1>1, WorkerFollows
    <3> QED BY <1>1, <1>3, <2>1, <2>2, <2>3, <3>2 DEF Following, Fits
  <2>8. Referred' /\ Counted'
    BY <1>1, <1>3 DEF Control, Referred, Counted
  <2> QED BY <2>4, <2>5, <2>6, <2>7, <2>8 DEF Control
<1>4. CASE upd' = Idle /\ failed' = TRUE /\ chan' = chan
  BY <1>1, <1>4, UpdateRaises
<1> QED BY <1>3, <1>4 DEF SwapBind

LEMMA SwapAimControl == EndTypeOK /\ Control /\ SwapAim => EndTypeOK' /\ Control'
<1> SUFFICES ASSUME EndTypeOK, Control, SwapAim PROVE EndTypeOK' /\ Control'
  OBVIOUS
<1>1. /\ upd.pc = "aim" /\ upd \in Updating
      /\ UNCHANGED <<ep, writer, rserv, server, workers, refs, shut, snd, kept, resampled>>
      /\ Len(chan) \in Nat /\ DOMAIN chan = 1 .. Len(chan)
  BY Whereabouts DEF SwapAim, Attached
<1>2. PICK n \in 1 .. Len(chan) : n = Len(chan) /\ upd.channel < n /\ upd.channel \in Nat
  <2>1. upd.channel \in Nat /\ upd.channel < Len(chan)
    BY <1>1 DEF Control, Opened, Updating
  <2>2. Len(chan) \in 1 .. Len(chan)
    BY <1>1, <2>1
  <2> QED BY <2>1, <2>2
<1>3. CASE /\ upd' = [upd EXCEPT !.pc = "put"] /\ failed' = failed /\ leaked' = leaked
           /\ chan' = [chan EXCEPT ![Len(chan)].target = ep.target]
  <2>0. chan' = [chan EXCEPT ![n].target = ep.target]
    BY <1>2, <1>3
  <2>1. /\ upd' \in Updating /\ upd'.pc = "put" /\ (upd'.need <=> upd.need)
        /\ upd'.channel = upd.channel /\ upd' # Idle
    BY <1>1, <1>3, UpdateMoves DEF Places
  <2>5. /\ chan' \in Seq(Channel) /\ Len(chan') = Len(chan) /\ DOMAIN chan' = 1 .. Len(chan)
        /\ chan'[n].target = ep.target /\ chan'[n].proto = chan[n].proto
        /\ \A x \in 1 .. Len(chan) : chan'[x].open <=> chan[x].open
    BY <2>0, AimedChannel
  <2>2. EndTypeOK'
    BY <1>1, <1>3, <2>1, <2>5 DEF EndTypeOK
  <2>3. Owned'
    BY <1>1, <1>3, UpdateStepOwned
  <2>7. rserv \in 0 .. Len(chan)
    BY DEF EndTypeOK
  <2>4. Opened'
    BY <1>1, <1>2, <1>3, <2>1, <2>5, <2>7 DEF Control, Opened
  <2>6. Following'
    <3> SUFFICES ASSUME server', ~failed' PROVE Following'
      BY DEF Following
    <3>1. chan[n].proto = ep.proto /\ server /\ ~failed
      BY <1>1, <1>2, <1>3 DEF Control, Following
    <3>3. Fits(chan[Len(chan)])'
      BY <1>1, <1>2, <2>5, <3>1 DEF Fits
    <3>4. /\ ~upd.need =>
               /\ writer # 0 <=> ep.target # NoTarget
               /\ writer # 0 => workers[writer].ptime = ep.ptime
          /\ upd.need => ep.target # NoTarget
      BY <1>1, <3>1, WorkerFollows
    <3> QED BY <1>1, <2>1, <3>3, <3>4 DEF Following, Fits
  <2>8. Referred' /\ Counted'
    BY <1>1, <1>3 DEF Control, Referred, Counted
  <2> QED BY <2>2, <2>3, <2>4, <2>6, <2>8 DEF Control
<1>4. CASE /\ upd' = Idle /\ failed' = TRUE /\ leaked' = leaked \cup {Len(chan)}
           /\ chan' = chan
  BY <1>1, <1>4, UpdateRaises
<1> QED BY <1>3, <1>4 DEF SwapAim

LEMMA Less == ASSUME NEW a \in Nat, NEW b \in Nat, a < b PROVE a # b /\ b # 0
OBVIOUS

LEMMA Replaced ==
    ASSUME NEW S, NEW s \in Seq(S), NEW c \in 1 .. Len(s), NEW d \in S
    PROVE  LET r == [s EXCEPT ![c] = d] IN
           /\ r \in Seq(S) /\ Len(r) = Len(s) /\ DOMAIN r = 1 .. Len(s)
           /\ r[c] = d /\ \A x \in 1 .. Len(s) : x # c => r[x] = s[x]
OBVIOUS

\* A channel is closed.
LEMMA ClosedChannel ==
    ASSUME EndTypeOK, NEW c \in 1 .. Len(chan), chan' = [chan EXCEPT ![c].open = FALSE]
    PROVE  /\ chan' \in Seq(Channel) /\ Len(chan') = Len(chan) /\ DOMAIN chan' = 1 .. Len(chan)
           /\ ~chan'[c].open /\ \A x \in 1 .. Len(chan) : x # c => chan'[x] = chan[x]
<1> DEFINE d == [chan[c] EXCEPT !.open = FALSE]
           r == [chan EXCEPT ![c] = d]
<1>1. chan[c] \in Channel /\ DOMAIN chan = 1 .. Len(chan) /\ Len(chan) \in Nat /\ chan \in Seq(Channel)
  BY DEF EndTypeOK
<1>2. d \in Channel /\ ~d.open
  BY <1>1 DEF Channel
<1>3. [chan EXCEPT ![c].open = FALSE] = r
  BY <1>1
<1>4. chan' = r
  BY <1>3, Zenon
<1>5. /\ r \in Seq(Channel) /\ Len(r) = Len(chan) /\ DOMAIN r = 1 .. Len(chan)
      /\ r[c] = d /\ \A x \in 1 .. Len(chan) : x # c => r[x] = chan[x]
  <2> HIDE DEF d
  <2> QED BY <1>1, <1>2, Replaced
<1> HIDE DEF d, r
<1> QED BY <1>2, <1>4, <1>5

LEMMA SwapPutControl == EndTypeOK /\ Control /\ SwapPut => EndTypeOK' /\ Control'
<1> SUFFICES ASSUME EndTypeOK, Control, SwapPut PROVE EndTypeOK' /\ Control'
  OBVIOUS
<1>1. /\ upd.pc = "put" /\ upd \in Updating
      /\ UNCHANGED <<ep, writer, server, workers, refs, shut, snd, failed, leaked, kept, resampled>>
      /\ Len(chan) \in Nat /\ DOMAIN chan = 1 .. Len(chan)
  BY Whereabouts DEF SwapPut, Counters, Lost
<1>2. Referred' /\ Counted'
  BY <1>1 DEF Control, Referred, Counted
<1>3. /\ upd.channel \in 1 .. Len(chan) /\ upd.channel < Len(chan) /\ rserv \in {0, upd.channel}
      /\ Len(chan) \in 1 .. Len(chan)
  BY <1>1 DEF Control, Opened
<1>4. server /\ ~failed =>
        /\ ~upd.need =>
             /\ writer # 0 <=> ep.target # NoTarget
             /\ writer # 0 => workers[writer].ptime = ep.ptime
        /\ upd.need => ep.target # NoTarget
        /\ Fits(chan[Len(chan)])
  BY <1>1 DEF Control, Following
<1>5. CASE Swappable
  <2>1. rserv' = Len(chan) /\ chan' = chan /\ upd' = [upd EXCEPT !.pc = "close"]
    BY <1>5 DEF SwapPut
  <2>2. /\ upd' \in Updating /\ upd'.pc = "close" /\ (upd'.need <=> upd.need)
        /\ upd'.channel = upd.channel /\ upd' # Idle
    BY <1>1, <2>1, UpdateMoves DEF Places
  <2>3. EndTypeOK'
    BY <1>1, <1>3, <2>1, <2>2 DEF EndTypeOK
  <2>4. Owned'
    BY <1>1, <2>1, UpdateStepOwned
  <2>5. Opened'
    <3>1. server /\ rserv = upd.channel
      BY <1>5 DEF Swappable
    <3>2. chan[Len(chan)].open /\ shut = Idle
      BY <1>1, <1>3, <3>1 DEF Control, Opened
    <3> QED BY <1>1, <1>3, <2>1, <2>2, <3>1, <3>2 DEF Control, Opened
  <2>6. Following'
    BY <1>1, <1>4, <2>1, <2>2 DEF Following, Fits
  <2> QED BY <1>2, <2>3, <2>4, <2>5, <2>6 DEF Control
<1>6. CASE ~Swappable
  <2>1. /\ chan' = [chan EXCEPT ![Len(chan)].open = FALSE] /\ rserv' = rserv
        /\ upd' = [upd EXCEPT !.pc = "make"]
    BY <1>6 DEF SwapPut
  <2>2. /\ upd' \in Updating /\ upd'.pc = "make" /\ (upd'.need <=> upd.need)
        /\ upd'.channel = upd.channel /\ upd' # Idle
    BY <1>1, <2>1, UpdateMoves DEF Places
  <2>3. /\ chan' \in Seq(Channel) /\ Len(chan') = Len(chan) /\ DOMAIN chan' = 1 .. Len(chan)
        /\ ~chan'[Len(chan)].open
        /\ \A x \in 1 .. Len(chan) : x # Len(chan) => chan'[x] = chan[x]
    BY <1>3, <2>1, ClosedChannel
  <2>4. rserv' = rserv /\ upd' # Idle
    BY <2>1, <2>2
  <2>5. rserv = 0 /\ ~server
    BY <1>1, <1>3, <1>6 DEF Swappable, Control, Opened
  <2>6. EndTypeOK'
    BY <1>1, <2>2, <2>3, <2>4 DEF EndTypeOK
  <2>7. Owned'
    BY <1>1, <2>1, UpdateStepOwned
  <2>8. Opened'
    BY <1>1, <1>3, <2>2, <2>3, <2>4, <2>5 DEF Control, Opened
  <2>9. Following'
    BY <1>1, <2>5 DEF Following
  <2> QED BY <1>2, <2>6, <2>7, <2>8, <2>9 DEF Control
<1> QED BY <1>5, <1>6

LEMMA SwapCloseControl == EndTypeOK /\ Control /\ SwapClose => EndTypeOK' /\ Control'
<1> SUFFICES ASSUME EndTypeOK, Control, SwapClose PROVE EndTypeOK' /\ Control'
  OBVIOUS
<1>1. /\ upd.pc = "close" /\ upd \in Updating
      /\ UNCHANGED <<ep, writer, rserv, server, workers, refs, shut, snd, failed, leaked, kept, resampled>>
      /\ Len(chan) \in Nat /\ DOMAIN chan = 1 .. Len(chan)
  BY Whereabouts DEF SwapClose, Counters, Lost, Attached
<1>2. Referred' /\ Counted'
  BY <1>1 DEF Control, Referred, Counted
<1>3. /\ upd.channel \in 1 .. Len(chan) /\ upd.channel < Len(chan) /\ rserv \in {0, Len(chan)}
      /\ Len(chan) \in 1 .. Len(chan)
  BY <1>1 DEF Control, Opened
<1>4. chan' = [chan EXCEPT ![upd.channel].open = FALSE] /\ upd' = [upd EXCEPT !.pc = "make"]
  BY DEF SwapClose
<1>5. /\ upd' \in Updating /\ upd'.pc = "make" /\ (upd'.need <=> upd.need)
      /\ upd'.channel = upd.channel /\ upd' # Idle
  BY <1>1, <1>4, UpdateMoves DEF Places
<1>6. /\ chan' \in Seq(Channel) /\ Len(chan') = Len(chan) /\ DOMAIN chan' = 1 .. Len(chan)
      /\ ~chan'[upd.channel].open
      /\ \A x \in 1 .. Len(chan) : x # upd.channel => chan'[x] = chan[x]
  BY <1>3, <1>4, ClosedChannel
<1>7. EndTypeOK'
  BY <1>1, <1>5, <1>6 DEF EndTypeOK
<1>8. Owned'
  BY <1>1, <1>4, UpdateStepOwned
<1>11. rserv # 0 => /\ rserv = Len(chan) /\ rserv # upd.channel /\ rserv \in 1 .. Len(chan)
                    /\ chan'[rserv] = chan[rserv]
  <2>1. rserv # 0 => rserv = Len(chan)
    BY <1>3
  <2>2. Len(chan) # upd.channel /\ chan'[Len(chan)] = chan[Len(chan)]
    <3>1. upd.channel \in Nat
      BY <1>1 DEF Updating
    <3>2. Len(chan) # upd.channel
      BY <1>1, <1>3, <3>1, Less
    <3> QED BY <1>3, <1>6, <3>2
  <2> QED BY <1>3, <2>1, <2>2
<1>9. Opened'
  <2>1. \A x \in 1 .. Len(chan) : chan'[x].open => chan[x].open /\ x # upd.channel
    BY <1>6
  <2> QED BY <1>1, <1>3, <1>5, <1>6, <1>11, <2>1 DEF Control, Opened
<1>10. Following'
  <2> SUFFICES ASSUME server, ~failed PROVE Following'
    BY <1>1 DEF Following
  <2>1. rserv = Len(chan) /\ rserv # 0 /\ chan'[rserv] = chan[rserv]
    BY <1>11 DEF Control, Opened
  <2>2. /\ ~upd.need =>
             /\ writer # 0 <=> ep.target # NoTarget
             /\ writer # 0 => workers[writer].ptime = ep.ptime
        /\ upd.need => ep.target # NoTarget
        /\ Fits(chan[rserv])
    BY <1>1 DEF Control, Following
  <2> QED BY <1>1, <1>5, <2>1, <2>2 DEF Following, Fits
<1> QED BY <1>2, <1>7, <1>8, <1>9, <1>10 DEF Control

LEMMA UpdateMakeControl == EndTypeOK /\ Control /\ UpdateMake => EndTypeOK' /\ Control'
<1> SUFFICES ASSUME EndTypeOK, Control, UpdateMake PROVE EndTypeOK' /\ Control'
  OBVIOUS
<1>1. /\ upd.pc = "make" /\ upd \in Updating
      /\ UNCHANGED <<ep, writer, rserv, server, chan, shut, snd, failed, leaked, kept, resampled>>
      /\ Len(workers) \in Nat /\ DOMAIN workers = 1 .. Len(workers)
  BY Whereabouts DEF UpdateMake, Counters, Lost, Attached
<1>2. server /\ ~failed =>
        /\ ~upd.need =>
             /\ writer # 0 <=> ep.target # NoTarget
             /\ writer # 0 => workers[writer].ptime = ep.ptime
        /\ upd.need => ep.target # NoTarget
        /\ Fits(chan[rserv])
  BY <1>1 DEF Control, Following
<1>3. CASE ~upd.need
  <2>1. UNCHANGED <<workers, refs>> /\ upd' = [upd EXCEPT !.pc = "stream"]
    BY <1>3 DEF UpdateMake
  <2>2. /\ upd' \in Updating /\ upd'.pc = "stream" /\ (upd'.need <=> upd.need)
        /\ upd'.channel = upd.channel /\ upd' # Idle
    BY <1>1, <2>1, UpdateMoves DEF Places
  <2>3. EndTypeOK'
    BY <1>1, <2>1, <2>2 DEF EndTypeOK
  <2>4. Owned' /\ Opened'
    BY <1>1, <2>1, <2>2 DEF Control, Owned, Opened
  <2>5. Referred' /\ Counted'
    BY <1>1, <2>1 DEF Control, Referred, Counted
  <2>6. Following'
    BY <1>1, <1>2, <1>3, <2>1, <2>2 DEF Following, Fits
  <2> QED BY <2>3, <2>4, <2>5, <2>6 DEF Control
<1>4. CASE upd.need
  <2> DEFINE o == NewWorker(ep.ptime)
             n == Len(workers) + 1
  <2>1. /\ workers' = Append(workers, o) /\ refs' = [refs EXCEPT !.proc = @ + 1]
        /\ upd' = [upd EXCEPT !.pc = "keep"]
    BY <1>4 DEF UpdateMake
  <2>2. ep.ptime \in Nat \ {0} /\ refs \in [server : Nat, proc : Nat]
    BY DEF EndTypeOK, Asked
  <2>3. /\ workers' \in Seq(Worker) /\ Len(workers') = n /\ DOMAIN workers' = 1 .. n
        /\ workers'[n] = o /\ \A v \in 1 .. Len(workers) : workers'[v] = workers[v]
    BY <2>1, <2>2, NewWorkers DEF EndTypeOK
  <2>4. o.ptime = ep.ptime /\ ~o.ended /\ o.open /\ o.ref
    BY <2>2, NewWorkerFacts
  <2>5. /\ upd' \in Updating /\ upd'.pc = "keep" /\ (upd'.need <=> upd.need)
        /\ upd'.channel = upd.channel /\ upd' # Idle
    BY <1>1, <2>1, UpdateMoves DEF Places
  <2>6. /\ refs' \in [server : Nat, proc : Nat] /\ refs'.server = refs.server
        /\ refs'.proc = refs.proc + 1
    BY <2>1, <2>2
  <2>7. Counted'
    BY <2>1, <2>2, <2>6, OneMoreReference DEF Control
  <2> HIDE DEF o
  <2>8. EndTypeOK'
    BY <1>1, <2>3, <2>5, <2>6 DEF EndTypeOK
  <2>9. Owned'
    <3>1. writer = 0
      BY <1>1, <1>4 DEF Control, Owned
    <3>2. \A v \in 1 .. Len(workers) : v # n /\ v \in 1 .. n
      BY <1>1
    <3>3. \A v \in 1 .. n : v = n \/ v \in 1 .. Len(workers)
      BY <1>1
    <3>4. /\ shut.pc = "end" /\ shut.writer # 0 =>
               shut.writer \in 1 .. Len(workers) /\ ~workers[shut.writer].ended
          /\ shut.pc = "join" =>
               /\ shut.writer \in 1 .. Len(workers) /\ workers[shut.writer].ended
               /\ workers[shut.writer].ref
      BY <1>1 DEF Control, Owned
    <3>5. \A v \in 1 .. Len(workers) :
             /\ workers[v].open => workers[v].ref
             /\ ~workers[v].ended => workers[v].open
             /\ ~workers[v].ended => v = writer \/ (shut.pc = "end" /\ v = shut.writer)
      <4>1. upd.pc # "end" /\ upd.pc # "keep" /\ Owned
        BY <1>1 DEF Control
      <4> QED BY <1>1, <4>1 DEF Owned
    <3>6. n # 0 /\ n \in 1 .. n
      BY <1>1
    <3> HIDE DEF n
    <3> QED BY <1>1, <1>4, <2>3, <2>4, <2>5, <3>1, <3>2, <3>3, <3>4, <3>5, <3>6 DEF Owned
  <2>10. Opened'
    BY <1>1, <2>5 DEF Control, Opened
  <2>11. Referred'
    BY <1>1, <2>6 DEF Control, Referred
  <2>12. Following'
    BY <1>1, <1>2, <1>4, <2>3, <2>4, <2>5 DEF Following, Fits
  <2> QED BY <2>7, <2>8, <2>9, <2>10, <2>11, <2>12 DEF Control
<1> QED BY <1>3, <1>4

LEMMA UpdateKeepControl == EndTypeOK /\ Control /\ UpdateKeep => EndTypeOK' /\ Control'
<1> SUFFICES ASSUME EndTypeOK, Control, UpdateKeep PROVE EndTypeOK' /\ Control'
  OBVIOUS
<1>1. /\ upd.pc = "keep" /\ upd \in Updating
      /\ UNCHANGED <<ep, rserv, server, chan, refs, shut, snd, failed, leaked, kept, resampled>>
      /\ Len(workers) \in Nat /\ DOMAIN workers = 1 .. Len(workers)
  BY Whereabouts DEF UpdateKeep, Counters, Lost
<1>3. PICK n \in 1 .. Len(workers) :
          n = Len(workers) /\ ~workers[n].ended /\ workers[n].ref /\ workers[n].open
  <2>1. Len(workers) # 0 /\ ~workers[Len(workers)].ended
    BY <1>1 DEF Control, Owned
  <2>2. Len(workers) \in 1 .. Len(workers)
    BY <1>1, <2>1
  <2>3. workers[Len(workers)].open /\ workers[Len(workers)].ref
    BY <1>1, <2>1, <2>2 DEF Control, Owned
  <2> QED BY <2>1, <2>2, <2>3
<1>4. /\ server /\ ~failed =>
          /\ writer = 0 /\ ep.target # NoTarget /\ workers[n].ptime = ep.ptime /\ Fits(chan[rserv])
      /\ writer = 0 /\ upd.need
  BY <1>1, <1>3 DEF Control, Following, Owned
<1>5. server <=> rserv # 0
  BY DEF Control, Opened
<1>8. Referred'
  BY <1>1 DEF Control, Referred
<1>6. CASE rserv = 0 \/ ep.target = NoTarget
  <2>1. workers' = WorkerEnded(n) /\ writer' = writer /\ upd' = [upd EXCEPT !.pc = "drop"]
    BY <1>3, <1>6 DEF UpdateKeep
  <2>2. OnlyWorker(n) /\ Ended(workers'[n], workers[n])
    BY <2>1, EndedWorkers DEF EndTypeOK
  <2>3. /\ upd' \in Updating /\ upd'.pc = "drop" /\ (upd'.need <=> upd.need)
        /\ upd'.channel = upd.channel /\ upd' # Idle
    BY <1>1, <2>1, UpdateMoves DEF Places
  <2>4. Counted'
    BY <1>1, <2>2, SameReferences DEF Control, OnlyWorker, Ended
  <2>5. EndTypeOK'
    BY <1>1, <2>1, <2>2, <2>3 DEF EndTypeOK, OnlyWorker
  <2>6. /\ Len(workers') = Len(workers) /\ DOMAIN workers' = 1 .. Len(workers)
        /\ \A v \in 1 .. Len(workers) : v # n => workers'[v] = workers[v]
        /\ workers'[n].ended /\ workers'[n].open /\ workers'[n].ref
    BY <1>3, <2>2 DEF OnlyWorker, Ended
  <2>7. Owned'
    BY <1>1, <1>3, <1>4, <2>1, <2>3, <2>6 DEF Control, Owned
  <2>8. Opened'
    BY <1>1, <2>1, <2>3 DEF Control, Opened
  <2>10. Following'
    BY <1>1, <1>4, <1>5, <1>6 DEF Following
  <2> QED BY <1>8, <2>4, <2>5, <2>7, <2>8, <2>10 DEF Control
<1>7. CASE rserv # 0 /\ ep.target # NoTarget
  <2>1. writer' = n /\ workers' = workers /\ upd' = [upd EXCEPT !.pc = "stream"]
    BY <1>3, <1>7 DEF UpdateKeep
  <2>0. /\ upd' \in Updating /\ upd'.pc = "stream" /\ (upd'.need <=> upd.need)
        /\ upd'.channel = upd.channel /\ upd' # Idle
    BY <1>1, <2>1, UpdateMoves DEF Places
  <2>2. EndTypeOK'
    BY <1>1, <1>3, <2>0, <2>1 DEF EndTypeOK
  <2>3. Owned'
    <3>1. shut.pc = "idle"
      BY <1>1, <1>7, Whereabouts DEF Control, Opened
    <3> QED BY <1>1, <1>3, <1>4, <1>7, <2>0, <2>1, <3>1 DEF Control, Owned
  <2>4. Opened'
    BY <1>1, <1>7, <2>0, <2>1 DEF Control, Opened
  <2>5. Counted'
    BY <1>1, <2>1 DEF Control, Counted
  <2>6. Following'
    BY <1>1, <1>3, <1>4, <1>7, <2>0, <2>1 DEF Following, Fits
  <2> QED BY <1>8, <2>2, <2>3, <2>4, <2>5, <2>6 DEF Control
<1> QED BY <1>6, <1>7

LEMMA UpdateDropControl == EndTypeOK /\ Control /\ UpdateDrop => EndTypeOK' /\ Control'
<1> SUFFICES ASSUME EndTypeOK, Control, UpdateDrop PROVE EndTypeOK' /\ Control'
  OBVIOUS
<1>1. /\ upd.pc = "drop" /\ upd \in Updating
      /\ UNCHANGED <<ep, writer, rserv, server, chan, shut, snd, leaked, kept, resampled>>
      /\ Len(workers) \in Nat /\ DOMAIN workers = 1 .. Len(workers)
      /\ Idle.pc = "idle" /\ Idle \notin Updating
  BY Whereabouts DEF UpdateDrop, Attached, Idle, Updating
<1>2. PICK n \in 1 .. Len(workers) :
          n = Len(workers) /\ workers[n].ended /\ workers[n].ref /\ writer = 0
  <2>1. /\ Len(workers) # 0 /\ workers[Len(workers)].ended /\ workers[Len(workers)].ref
        /\ writer = 0
    BY <1>1 DEF Control, Owned
  <2>2. Len(workers) \in 1 .. Len(workers)
    BY <1>1, <2>1
  <2> QED BY <2>1, <2>2
<1>3. workers' = Joined(n) /\ refs' = OneLess("proc")
  BY <1>2 DEF UpdateDrop
<1>4. OnlyWorker(n) /\ Left(workers'[n], workers[n])
  BY <1>3, JoinedWorkers DEF EndTypeOK
<1>5. Counted' /\ refs'.server = refs.server
  BY <1>2, <1>3, OneReferenceLess DEF Control
<1>6. refs' \in [server : Nat, proc : Nat]
  BY <1>3 DEF OneLess, EndTypeOK
<1>7. /\ upd' = Idle \/ (upd' \in Updating /\ upd'.pc = "stream" /\ upd'.channel = upd.channel)
      /\ failed' \in BOOLEAN /\ (failed => failed')
  <2>1. CASE workers[n].open
    <3>1. upd' = [upd EXCEPT !.pc = "stream"] /\ failed' = failed
      BY <1>2, <2>1 DEF UpdateDrop
    <3> QED BY <1>1, <3>1, UpdateMoves DEF EndTypeOK, Places
  <2>2. CASE ~workers[n].open
    BY <1>2, <2>2 DEF UpdateDrop
  <2> QED BY <2>1, <2>2
<1>8. EndTypeOK'
  BY <1>1, <1>4, <1>6, <1>7 DEF EndTypeOK, OnlyWorker
<1>9. /\ Len(workers') = Len(workers) /\ DOMAIN workers' = 1 .. Len(workers)
      /\ \A v \in 1 .. Len(workers) : v # n => workers'[v] = workers[v]
      /\ workers'[n].ended /\ ~workers'[n].open
  BY <1>2, <1>4 DEF OnlyWorker, Left
<1>10. Owned'
  <2>1. /\ shut.pc \in {"end", "join"} /\ shut.writer # 0 => shut.writer # n
        /\ shut.pc = "join" => shut.writer # 0
    BY <1>1, <1>2 DEF Control, Owned
  <2>2. upd'.pc \in {"idle", "stream"}
    BY <1>1, <1>7
  <2> QED BY <1>1, <1>2, <1>7, <1>9, <2>1, <2>2 DEF Control, Owned
<1>11. Opened'
  BY <1>1, <1>7 DEF Control, Opened
<1>12. Referred'
  BY <1>1, <1>5, <1>7 DEF Control, Referred
<1>13. Following'
  BY <1>1, <1>7 DEF Control, Following
<1> QED BY <1>5, <1>8, <1>10, <1>11, <1>12, <1>13 DEF Control

LEMMA StreamUpdateControl == EndTypeOK /\ Control /\ stream_update => EndTypeOK' /\ Control'
<1> SUFFICES ASSUME EndTypeOK, Control, stream_update PROVE EndTypeOK' /\ Control'
  OBVIOUS
<1>1. /\ upd.pc = "stream" /\ upd \in Updating /\ upd' = Idle
      /\ UNCHANGED <<ep, writer, rserv, server, chan, workers, refs, shut, snd, failed, leaked,
                     kept, resampled>>
      /\ Idle.pc = "idle" /\ Idle \notin Updating
  BY Whereabouts DEF stream_update, Counters, Lost, Attached, Idle, Updating
<1>2. EndTypeOK'
  BY <1>1 DEF EndTypeOK
<1>3. Owned' /\ Opened' /\ Referred' /\ Counted'
  BY <1>1 DEF Control, Owned, Opened, Referred, Counted
<1>4. Following'
  BY <1>1 DEF Control, Following, Fits
<1> QED BY <1>2, <1>3, <1>4 DEF Control

LEMMA ShutTakeControl == EndTypeOK /\ Control /\ ShutTake => EndTypeOK' /\ Control'
<1> SUFFICES ASSUME EndTypeOK, Control, ShutTake PROVE EndTypeOK' /\ Control'
  OBVIOUS
<1>1. /\ shut = Idle /\ upd.pc # "new" /\ writer' = 0 /\ rserv' = 0 /\ ~server' /\ server' \in BOOLEAN
      /\ shut' = [pc |-> "end", writer |-> writer, channel |-> rserv, server |-> server]
      /\ UNCHANGED <<ep, chan, workers, refs, upd, snd, failed, leaked, kept, resampled>>
      /\ upd.pc # "drop"
  BY DEF ShutTake, Lost, Unlocked
<1>2. /\ Len(workers) \in Nat /\ DOMAIN workers = 1 .. Len(workers) /\ writer \in Nat
      /\ Len(chan) \in Nat /\ DOMAIN chan = 1 .. Len(chan) /\ rserv \in Nat
      /\ 0 \in 0 .. Len(workers) /\ 0 \in 0 .. Len(chan) /\ writer \in 0 .. Len(workers)
      /\ rserv \in 0 .. Len(chan) /\ server \in BOOLEAN
  BY Whereabouts DEF EndTypeOK
<1>3. /\ shut' \in Shutting /\ shut'.pc = "end" /\ shut'.writer = writer /\ shut'.channel = rserv
      /\ (shut'.server <=> server) /\ shut' # Idle
  BY <1>1, <1>2 DEF Shutting, Idle
<1>4. EndTypeOK'
  BY <1>1, <1>2, <1>3 DEF EndTypeOK
<1>5. Owned'
  <2>1. shut.pc = "idle"
    BY <1>1 DEF Idle
  <2>2. writer # 0 => /\ upd.pc = "end" => writer # upd.old
                      /\ upd.pc # "join" /\ upd.pc # "keep"
    <3>1. upd.pc = "keep" => upd \in Updating
      BY Whereabouts
    <3> QED BY <3>1 DEF Control, Owned
  <2>3. \A v \in 1 .. Len(workers) :
             /\ workers[v].open => workers[v].ref
             /\ ~workers[v].ended => workers[v].open
             /\ ~workers[v].ended => \/ v = writer \/ (upd.pc = "end" /\ v = upd.old)
                                     \/ (upd.pc = "keep" /\ v = Len(workers))
    BY <1>2, <2>1 DEF Control, Owned
  <2>4. writer # 0 => writer \in 1 .. Len(workers) /\ ~workers[writer].ended
    BY <1>2 DEF Control, Owned
  <2> QED BY <1>1, <1>2, <1>3, <2>2, <2>3, <2>4 DEF Control, Owned
<1>6. Opened'
  <2>1. \A c \in 1 .. Len(chan) : chan[c].open =>
          \/ (upd.pc \in {"aim", "put"} /\ c = Len(chan)) \/ (upd.pc = "close" /\ c = upd.channel)
          \/ c = rserv \/ c \in leaked
    BY <1>1, <1>2 DEF Control, Opened
  <2>2. upd.pc \in {"aim", "put"} => rserv # Len(chan) /\ chan[Len(chan)].open
    <3>1. upd.pc \in {"aim", "put"} =>
             /\ rserv \in {0, upd.channel} /\ upd.channel < Len(chan)
             /\ chan[Len(chan)].open /\ upd.channel # 0 /\ upd.channel \in Nat
      BY Whereabouts DEF Control, Opened, Updating
    <3>2. upd.pc \in {"aim", "put"} => upd.channel # Len(chan) /\ Len(chan) # 0
      BY <1>2, <3>1, Less
    <3> QED BY <3>1, <3>2
  <2> QED BY <1>1, <1>2, <1>3, <2>1, <2>2 DEF Control, Opened
<1>7. Referred' /\ Counted'
  BY <1>1, <1>3 DEF Control, Referred, Counted
<1>8. Following'
  BY <1>1 DEF Following
<1> QED BY <1>4, <1>5, <1>6, <1>7, <1>8 DEF Control

LEMMA ShutEndControl == EndTypeOK /\ Control /\ ShutEnd => EndTypeOK' /\ Control'
<1> SUFFICES ASSUME EndTypeOK, Control, ShutEnd PROVE EndTypeOK' /\ Control'
  OBVIOUS
<1>1. /\ shut.pc = "end" /\ shut \in Shutting
      /\ UNCHANGED <<ep, writer, rserv, server, chan, refs, upd, snd, failed, leaked, kept,
                     resampled>>
      /\ Len(workers) \in Nat /\ DOMAIN workers = 1 .. Len(workers) /\ shut # Idle
  BY Whereabouts DEF ShutEnd, Attached, Counters, Lost
<1>2. PICK p \in {"close", "join"} :
          shut' = [shut EXCEPT !.pc = p] /\ (p = "close" <=> shut.writer = 0)
  BY DEF ShutEnd
<1>3. /\ shut' \in Shutting /\ shut'.pc = p /\ shut'.channel = shut.channel
      /\ (shut'.server <=> shut.server) /\ shut'.writer = shut.writer /\ shut' # Idle
  BY <1>1, <1>2 DEF Shutting, Idle
<1>4. rserv = 0 /\ ~server /\ writer = 0 /\ upd.pc # "new"
  BY <1>1 DEF Control, Opened
<1>5. Opened'
  BY <1>1, <1>3, <1>4 DEF Control, Opened
<1>6. Following' /\ Referred'
  BY <1>1, <1>3, <1>4 DEF Control, Following, Referred
<1>7. CASE shut.writer = 0
  <2>1. workers' = workers
    BY <1>7 DEF ShutEnd
  <2>2. EndTypeOK'
    BY <1>1, <1>3, <2>1 DEF EndTypeOK
  <2>3. Owned'
    BY <1>1, <1>2, <1>3, <1>4, <1>7, <2>1 DEF Control, Owned
  <2>4. Counted'
    BY <1>1, <2>1 DEF Control, Counted
  <2> QED BY <1>5, <1>6, <2>2, <2>3, <2>4 DEF Control
<1>8. CASE shut.writer # 0
  <2>0. PICK w \in 1 .. Len(workers) :
            /\ w = shut.writer /\ ~workers[w].ended /\ workers[w].open /\ workers[w].ref
            /\ upd.pc \in {"end", "join"} => w # upd.old
            /\ upd.pc \in {"keep", "drop"} => w # Len(workers)
    BY <1>1, <1>8 DEF Control, Owned
  <2>1. workers' = WorkerEnded(w) /\ p = "join"
    BY <1>2, <1>8, <2>0 DEF ShutEnd
  <2>2. OnlyWorker(w) /\ Ended(workers'[w], workers[w])
    BY <2>1, EndedWorkers DEF EndTypeOK
  <2>4. Counted'
    BY <1>1, <2>2, SameReferences DEF Control, OnlyWorker, Ended
  <2>5. EndTypeOK'
    BY <1>1, <1>3, <2>2 DEF EndTypeOK, OnlyWorker
  <2>6. /\ Len(workers') = Len(workers) /\ DOMAIN workers' = 1 .. Len(workers)
        /\ \A v \in 1 .. Len(workers) : v # w => workers'[v] = workers[v]
        /\ workers'[w].ended /\ workers'[w].open /\ workers'[w].ref
    BY <2>0, <2>2 DEF OnlyWorker, Ended
  <2>7. Owned'
    <3>1. /\ upd.pc = "join" => upd.old \in 1 .. Len(workers)
          /\ upd.pc \in {"keep", "drop"} => Len(workers) \in 1 .. Len(workers)
      BY <1>1 DEF Control, Owned
    <3> QED BY <1>1, <1>3, <1>4, <2>0, <2>1, <2>6, <3>1 DEF Control, Owned
  <2> QED BY <1>5, <1>6, <2>4, <2>5, <2>7 DEF Control
<1> QED BY <1>7, <1>8

LEMMA ShutJoinControl == EndTypeOK /\ Control /\ ShutJoin => EndTypeOK' /\ Control'
<1> SUFFICES ASSUME EndTypeOK, Control, ShutJoin PROVE EndTypeOK' /\ Control'
  OBVIOUS
<1>1. /\ shut.pc = "join" /\ shut \in Shutting
      /\ UNCHANGED <<ep, writer, rserv, server, chan, upd, snd, resampled>>
      /\ Len(workers) \in Nat /\ DOMAIN workers = 1 .. Len(workers) /\ shut # Idle
      /\ Len(chan) \in Nat /\ DOMAIN chan = 1 .. Len(chan)
      /\ Idle.pc = "idle" /\ Idle \notin Shutting
  BY Whereabouts DEF ShutJoin, Attached, Idle, Shutting
<1>2. PICK w \in 1 .. Len(workers) :
          /\ w = shut.writer /\ workers[w].ended /\ workers[w].ref
          /\ upd.pc \in {"end", "join"} => w # upd.old
          /\ upd.pc \in {"keep", "drop"} => w # Len(workers)
  <2>1. /\ shut.writer \in 1 .. Len(workers) /\ workers[shut.writer].ended
        /\ workers[shut.writer].ref
    BY <1>1 DEF Control, Owned
  <2>2. shut.pc \in {"end", "join"} /\ shut.writer # 0
    BY <1>1, <2>1
  <2>3. /\ upd.pc \in {"end", "join"} => shut.writer # upd.old
        /\ upd.pc \in {"keep", "drop"} => shut.writer # Len(workers)
    BY <2>2 DEF Control, Owned
  <2> QED BY <2>1, <2>3
<1>3. workers' = Joined(w) /\ refs' = OneLess("proc")
  BY <1>2 DEF ShutJoin
<1>4. OnlyWorker(w) /\ Left(workers'[w], workers[w])
  BY <1>3, JoinedWorkers DEF EndTypeOK
<1>5. Counted' /\ refs'.server = refs.server
  BY <1>2, <1>3, OneReferenceLess DEF Control
<1>6. refs' \in [server : Nat, proc : Nat]
  BY <1>3 DEF OneLess, EndTypeOK
<1>7. rserv = 0 /\ ~server /\ writer = 0 /\ upd.pc # "new" /\ shut.channel \in 0 .. Len(chan)
  BY <1>1 DEF Control, Opened
<1>8. Following'
  BY <1>1, <1>7 DEF Following
<1>9. /\ Len(workers') = Len(workers) /\ DOMAIN workers' = 1 .. Len(workers)
      /\ \A v \in 1 .. Len(workers) : v # w => workers'[v] = workers[v]
      /\ workers'[w].ended /\ ~workers'[w].open
  BY <1>2, <1>4 DEF OnlyWorker, Left
<1>10. ASSUME shut'.pc \in {"idle", "close"} PROVE Owned'
  <2>1. /\ upd.pc = "join" => upd.old \in 1 .. Len(workers)
        /\ upd.pc \in {"keep", "drop"} => Len(workers) \in 1 .. Len(workers)
    BY <1>1 DEF Control, Owned
  <2> QED BY <1>1, <1>2, <1>7, <1>9, <1>10, <2>1 DEF Control, Owned
<1>11. CASE workers[w].open
  <2>1. shut' = [shut EXCEPT !.pc = "close"] /\ UNCHANGED <<failed, leaked, kept>>
    BY <1>2, <1>11 DEF ShutJoin, Lost
  <2>2. /\ shut' \in Shutting /\ shut'.pc = "close" /\ shut'.channel = shut.channel
        /\ (shut'.server <=> shut.server) /\ shut' # Idle
    BY <1>1, <2>1 DEF Shutting, Idle
  <2>3. EndTypeOK'
    BY <1>1, <1>4, <1>6, <2>1, <2>2 DEF EndTypeOK, OnlyWorker
  <2>4. Opened'
    BY <1>1, <1>7, <2>1, <2>2 DEF Control, Opened
  <2>5. Referred'
    BY <1>1, <1>5, <1>7, <2>1, <2>2 DEF Control, Referred
  <2> QED BY <1>5, <1>8, <1>10, <2>2, <2>3, <2>4, <2>5 DEF Control
<1>12. CASE ~workers[w].open
  <2>1. /\ shut' = Idle /\ failed' = TRUE /\ leaked' = leaked \cup ({shut.channel} \ {0})
        /\ kept' = (kept \/ shut.server)
    BY <1>2, <1>12 DEF ShutJoin
  <2>2. shut.server \in BOOLEAN /\ kept \in BOOLEAN
    BY <1>1 DEF Shutting, EndTypeOK
  <2>3. kept' \in BOOLEAN /\ (kept' <=> kept \/ shut.server)
    BY <2>1, <2>2, Zenon
  <2>4. leaked' \subseteq 1 .. Len(chan)
    <3>1. {shut.channel} \ {0} \subseteq 1 .. Len(chan)
      BY <1>1, <1>7
    <3> QED BY <2>1, <3>1 DEF EndTypeOK
  <2>5. EndTypeOK'
    BY <1>1, <1>4, <1>6, <2>1, <2>3, <2>4 DEF EndTypeOK, OnlyWorker
  <2>6. Opened'
    BY <1>1, <1>7, <2>1 DEF Control, Opened
  <2>7. Referred'
    BY <1>1, <1>5, <1>7, <2>1, <2>3 DEF Control, Referred
  <2>8. shut'.pc \in {"idle", "close"}
    BY <1>1, <2>1
  <2> QED BY <1>5, <1>8, <1>10, <2>5, <2>6, <2>7, <2>8 DEF Control
<1> QED BY <1>11, <1>12

LEMMA ShutCloseControl == EndTypeOK /\ Control /\ ShutClose => EndTypeOK' /\ Control'
<1> SUFFICES ASSUME EndTypeOK, Control, ShutClose PROVE EndTypeOK' /\ Control'
  OBVIOUS
<1> DEFINE c == shut.channel
<1>1. /\ shut.pc = "close" /\ shut \in Shutting /\ shut' = Idle
      /\ UNCHANGED <<ep, writer, rserv, server, workers, upd, snd, failed, leaked, kept, resampled>>
      /\ Len(chan) \in Nat /\ DOMAIN chan = 1 .. Len(chan) /\ shut # Idle /\ Idle.pc = "idle"
  BY Whereabouts DEF ShutClose, Attached, Counters, Lost, Idle
<1>2. rserv = 0 /\ ~server /\ writer = 0 /\ c \in 0 .. Len(chan) /\ upd.pc # "new"
  BY <1>1 DEF Control, Opened
<1>3. /\ chan' \in Seq(Channel) /\ Len(chan') = Len(chan) /\ DOMAIN chan' = 1 .. Len(chan)
      /\ \A x \in 1 .. Len(chan) : x # c => chan'[x] = chan[x]
      /\ \A x \in 1 .. Len(chan) : x = c => ~chan'[x].open
  <2>1. CASE c = 0
    <3>1. chan' = chan
      BY <2>1 DEF ShutClose
    <3> QED BY <1>1, <2>1, <3>1 DEF EndTypeOK
  <2>2. CASE c # 0
    <3>1. chan' = [chan EXCEPT ![c].open = FALSE] /\ c \in 1 .. Len(chan)
      BY <1>2, <2>2 DEF ShutClose
    <3>2. /\ chan' \in Seq(Channel) /\ Len(chan') = Len(chan) /\ DOMAIN chan' = 1 .. Len(chan)
          /\ ~chan'[c].open /\ \A x \in 1 .. Len(chan) : x # c => chan'[x] = chan[x]
      BY <3>1, ClosedChannel
    <3> QED BY <3>2
  <2> QED BY <2>1, <2>2
<1>4. /\ refs' \in [server : Nat, proc : Nat] /\ refs'.proc = refs.proc
      /\ refs'.server = OtherUsers + (IF kept THEN 1 ELSE 0)
  <2>1. refs \in [server : Nat, proc : Nat] /\ OtherUsers \in Nat
    BY RtpAssumption DEF EndTypeOK
  <2>2. /\ refs.server = OtherUsers + (IF kept \/ shut.server THEN 1 ELSE 0)
        /\ kept => ~shut.server
    BY <1>1, <1>2 DEF Control, Referred
  <2>3. CASE shut.server
    <3>1. refs' = OneLess("server") /\ refs.server = OtherUsers + 1 /\ ~kept
      BY <2>2, <2>3 DEF ShutClose
    <3> QED BY <2>1, <3>1 DEF OneLess
  <2>4. CASE ~shut.server
    <3>1. refs' = refs /\ refs.server = OtherUsers + (IF kept THEN 1 ELSE 0)
      BY <2>1, <2>2, <2>4 DEF ShutClose
    <3> QED BY <2>1, <3>1
  <2> QED BY <2>3, <2>4
<1>5. EndTypeOK'
  BY <1>1, <1>2, <1>3, <1>4 DEF EndTypeOK
<1>6. Owned'
  BY <1>1, <1>2 DEF Control, Owned
<1>7. Opened'
  BY <1>1, <1>2, <1>3 DEF Control, Opened
<1>8. Referred'
  BY <1>1, <1>2, <1>4, RtpAssumption DEF Control, Referred
<1>9. Counted'
  BY <1>1, <1>4 DEF Control, Counted
<1>10. Following'
  BY <1>1, <1>2 DEF Following
<1> QED BY <1>5, <1>6, <1>7, <1>8, <1>9, <1>10 DEF Control

LEMMA ProcClosesControl ==
    ASSUME EndTypeOK, Control, NEW w \in 1 .. Len(workers), ProcCloses(w)
    PROVE  EndTypeOK' /\ Control'
<1>1. /\ workers[w].ended /\ workers' = [workers EXCEPT ![w].open = FALSE]
      /\ UNCHANGED <<ep, writer, rserv, server, chan, refs, upd, shut, snd, failed, leaked, kept,
                     resampled>>
      /\ Len(workers) \in Nat /\ DOMAIN workers = 1 .. Len(workers)
  BY Whereabouts DEF ProcCloses, Attached, Counters, Lost
<1>2. OnlyWorker(w) /\ Shuttered(workers'[w], workers[w])
  BY <1>1, ClosedWorkers DEF EndTypeOK
<1>3. /\ Len(workers') = Len(workers) /\ DOMAIN workers' = 1 .. Len(workers)
      /\ \A v \in 1 .. Len(workers) :
            /\ workers'[v].ended <=> workers[v].ended
            /\ workers'[v].ref <=> workers[v].ref
            /\ workers'[v].ptime = workers[v].ptime
            /\ workers'[v].open => workers[v].open
            /\ ~workers[v].ended => (workers'[v].open <=> workers[v].open)
  BY <1>1, <1>2 DEF OnlyWorker, Shuttered, SameSound
<1>4. EndTypeOK'
  BY <1>1, <1>2 DEF EndTypeOK, OnlyWorker
<1>5. /\ writer \in 0 .. Len(workers) /\ (writer # 0 => writer \in 1 .. Len(workers))
      /\ upd.pc \in {"keep", "drop"} => Len(workers) \in 1 .. Len(workers)
      /\ workers = <<>> => workers' = <<>>
  <2>1. upd.pc \in {"keep", "drop"} => Len(workers) # 0
    BY DEF Control, Owned
  <2> QED BY <1>1, <1>3, <2>1 DEF EndTypeOK
<1>6. Owned'
  BY <1>1, <1>3, <1>5 DEF Control, Owned
<1>7. Opened' /\ Referred'
  BY <1>1, <1>5 DEF Control, Opened, Referred
<1>8. Following'
  BY <1>1, <1>3, <1>5 DEF Control, Following, Fits
<1>9. Counted'
  BY <1>1, <1>3, SameReferences DEF Control
<1> QED BY <1>4, <1>6, <1>7, <1>8, <1>9 DEF Control

-----------------------------------------------------------------------------
(* Sums.                                                                   *)

LEMMA LeastNumber ==
    ASSUME NEW T, T \subseteq Nat, T # {}
    PROVE  \E x \in T : \A y \in T : x <= y
<1> DEFINE R == OpToRel(<, Nat)
<1>1. IsWellFoundedOn(R, Nat)
  BY NatLessThanWellFounded
<1>2. \A x, y \in Nat : x < y => <<x, y>> \in R
  BY DEF OpToRel
<1> HIDE DEF R
<1>3. PICK x \in T : \A y \in T : ~(<<y, x>> \in R)
  BY <1>1, WFMin
<1>4. \A y \in T : ~(y < x)
  BY <1>2, <1>3
<1> QED BY <1>4

\* f holds the sums of the first elements of s, up to n of them.
SumsTo(f, s, n) == f = [k \in 0 .. n |-> IF k = 0 THEN 0 ELSE f[k - 1] + s[k]]

LEMMA SumsExist == ASSUME NEW s, NEW n \in Nat PROVE \E f : SumsTo(f, s, n)
<1> DEFINE T == {m \in Nat : ~\E f : SumsTo(f, s, m)}
<1> SUFFICES ASSUME T # {} PROVE FALSE
  OBVIOUS
<1>1. PICK m \in T : \A j \in T : m <= j
  BY LeastNumber
<1>2. m # 0
  <2> DEFINE f == [k \in 0 .. 0 |-> 0]
  <2>1. f = [k \in 0 .. 0 |-> IF k = 0 THEN 0 ELSE f[k - 1] + s[k]]
    OBVIOUS
  <2>2. SumsTo(f, s, 0)
    BY <2>1 DEF SumsTo
  <2> QED BY <2>2
<1>3. m - 1 \in Nat /\ m - 1 \notin T /\ m \in Nat
  BY <1>1, <1>2
<1>4. PICK f : SumsTo(f, s, m - 1)
  BY <1>3
<1>5. \A k \in 0 .. m - 1 : f[k] = IF k = 0 THEN 0 ELSE f[k - 1] + s[k]
  <2>1. f = [k \in 0 .. m - 1 |-> IF k = 0 THEN 0 ELSE f[k - 1] + s[k]]
    BY <1>4 DEF SumsTo
  <2> QED BY <2>1
<1> DEFINE g == [k \in 0 .. m |-> IF k = m THEN f[m - 1] + s[m] ELSE f[k]]
<1>6. ASSUME NEW k \in 0 .. m
      PROVE  g[k] = IF k = 0 THEN 0 ELSE g[k - 1] + s[k]
  <2>1. CASE k = 0
    BY <1>2, <1>3, <1>5, <2>1
  <2>2. CASE k # 0
    <3>1. k - 1 \in 0 .. m - 1 /\ k - 1 \in 0 .. m /\ k - 1 # m
      BY <1>3, <2>2
    <3>2. g[k - 1] = f[k - 1]
      BY <3>1
    <3>3. CASE k = m
      BY <2>2, <3>2, <3>3
    <3>4. CASE k # m
      <4>1. k \in 0 .. m - 1
        BY <1>3, <3>4
      <4> QED BY <1>5, <2>2, <3>2, <3>4, <4>1
    <3> QED BY <3>3, <3>4
  <2> QED BY <2>1, <2>2
<1>7. g = [k \in 0 .. m |-> g[k]]
  OBVIOUS
<1> HIDE DEF g
<1>8. SumsTo(g, s, m)
  <2>1. [k \in 0 .. m |-> g[k]] = [k \in 0 .. m |-> IF k = 0 THEN 0 ELSE g[k - 1] + s[k]]
    BY <1>6
  <2> QED BY <1>7, <2>1 DEF SumsTo
<1> QED BY <1>8, <1>1

Sums(f, s) ==
    /\ f[0] = 0 /\ \A k \in 1 .. Len(s) : f[k] = f[k - 1] + s[k]
    /\ \A k \in 0 .. Len(s) : f[k] \in Int

\* A total is the last of the sums.
LEMMA TotalSums == ASSUME NEW s \in Seq(Int) PROVE \E f : Sums(f, s) /\ Total(s) = f[Len(s)]
<1> DEFINE f == CHOOSE g : SumsTo(g, s, Len(s))
<1>1. Len(s) \in Nat
  OBVIOUS
<1>2. SumsTo(f, s, Len(s))
  BY <1>1, SumsExist
<1>3. Total(s) = f[Len(s)]
  BY DEF Total, SumsTo
<1> HIDE DEF f
<1>4. f = [k \in 0 .. Len(s) |-> IF k = 0 THEN 0 ELSE f[k - 1] + s[k]]
  BY <1>2 DEF SumsTo
<1>5. f[0] = 0 /\ \A k \in 1 .. Len(s) : f[k] = f[k - 1] + s[k]
  BY <1>1, <1>4
<1>6. \A k \in 0 .. Len(s) : f[k] \in Int
  <2> DEFINE T == {k \in Nat : k <= Len(s) /\ f[k] \notin Int}
  <2> SUFFICES ASSUME T # {} PROVE FALSE
    BY <1>1
  <2>1. PICK k \in T : \A j \in T : k <= j
    BY LeastNumber
  <2>2. k # 0
    BY <1>5
  <2>3. k - 1 \in Nat /\ k - 1 \notin T /\ k \in 1 .. Len(s)
    BY <1>1, <2>1, <2>2
  <2>4. f[k - 1] \in Int /\ s[k] \in Int
    BY <1>1, <2>3
  <2> QED BY <1>5, <2>3, <2>4
<1> QED BY <1>3, <1>5, <1>6 DEF Sums

\* Sums over equal parts of two sequences grow by the same.
SamePart(s, a, t, b, n) == \A k \in 1 .. n : s[a + k] = t[b + k]
SameGrowth(f, a, g, b, n) == f[a + n] - f[a] = g[b + n] - g[b]

LEMMA EqualParts ==
    ASSUME NEW s \in Seq(Int), NEW t \in Seq(Int), NEW f, NEW g, Sums(f, s), Sums(g, t),
           NEW a \in Nat, NEW b \in Nat, NEW n \in Nat, a + n <= Len(s), b + n <= Len(t),
           SamePart(s, a, t, b, n)
    PROVE  SameGrowth(f, a, g, b, n)
<1> DEFINE T == {k \in Nat : k <= n /\ ~SameGrowth(f, a, g, b, k)}
<1> SUFFICES ASSUME ~SameGrowth(f, a, g, b, n) PROVE FALSE
  OBVIOUS
<1>0. T # {}
  <2>1. n \in Nat /\ n <= n
    OBVIOUS
  <2>2. n \in T
    BY <2>1
  <2> QED BY <2>2
<1>1. PICK k \in T : \A j \in T : k <= j
  BY <1>0, LeastNumber
<1>2. Len(s) \in Nat /\ Len(t) \in Nat
  OBVIOUS
<1>3. f[a] \in Int /\ g[b] \in Int /\ a + 0 = a /\ b + 0 = b
  BY <1>2 DEF Sums
<1>4. k # 0
  <2>1. SameGrowth(f, a, g, b, 0)
    BY <1>3 DEF SameGrowth
  <2> QED BY <1>1, <2>1
<1> DEFINE j == k - 1
<1>5. j \in Nat /\ k = j + 1 /\ j <= n /\ k \in 1 .. n /\ ~(k <= j)
  BY <1>1, <1>4
<1> HIDE DEF j
<1>6. SameGrowth(f, a, g, b, j)
  BY <1>1, <1>5
<1>7. /\ a + k \in 1 .. Len(s) /\ (a + k) - 1 = a + j /\ a + j \in 0 .. Len(s)
      /\ b + k \in 1 .. Len(t) /\ (b + k) - 1 = b + j /\ b + j \in 0 .. Len(t)
  BY <1>2, <1>5
<1>8. /\ f[a + k] = f[a + j] + s[a + k] /\ f[a + j] \in Int
      /\ g[b + k] = g[b + j] + t[b + k] /\ g[b + j] \in Int
  BY <1>7 DEF Sums
<1>9. s[a + k] = t[b + k] /\ s[a + k] \in Int
  <2>1. s[a + k] = t[b + k]
    BY <1>5 DEF SamePart
  <2> QED BY <1>2, <1>7, <2>1
<1>10. SameGrowth(f, a, g, b, k)
  <2>1. PICK u \in Int, v \in Int, x \in Int, y \in Int, z \in Int :
           u = f[a + j] /\ v = f[a] /\ x = g[b + j] /\ y = g[b] /\ z = s[a + k]
    BY <1>3, <1>8, <1>9
  <2>2. u - v = x - y
    BY <1>6, <2>1 DEF SameGrowth
  <2>3. (u + z) - v = (x + z) - y
    BY <2>2
  <2>4. f[a + k] = u + z /\ g[b + k] = x + z
    BY <1>8, <1>9, <2>1
  <2> QED BY <2>1, <2>3, <2>4 DEF SameGrowth
<1> QED BY <1>1, <1>10

LEMMA TotalType == ASSUME NEW s \in Seq(Int) PROVE Total(s) \in Int
<1>1. PICK f : Sums(f, s) /\ Total(s) = f[Len(s)]
  BY TotalSums
<1> QED BY <1>1 DEF Sums

LEMMA TotalEmpty == Total(<<>>) = 0
<1>1. <<>> \in Seq(Int) /\ Len(<<>>) = 0
  OBVIOUS
<1>2. PICK f : Sums(f, <<>>) /\ Total(<<>>) = f[Len(<<>>)]
  BY <1>1, TotalSums
<1> QED BY <1>1, <1>2 DEF Sums

LEMMA TotalAppend ==
    ASSUME NEW s \in Seq(Int), NEW x \in Int
    PROVE  Total(Append(s, x)) = Total(s) + x
<1> DEFINE t == Append(s, x)
           n == Len(s)
<1>1. /\ n \in Nat /\ t \in Seq(Int) /\ Len(t) = n + 1 /\ t[n + 1] = x
      /\ \A k \in 1 .. n : t[k] = s[k]
  OBVIOUS
<1>2. PICK f : Sums(f, s) /\ Total(s) = f[n]
  BY TotalSums
<1>3. PICK g : Sums(g, t) /\ Total(t) = g[n + 1]
  BY <1>1, TotalSums
<1> HIDE DEF t, n
<1>4. SameGrowth(f, 0, g, 0, n)
  <2>1. SamePart(s, 0, t, 0, n)
    BY <1>1 DEF SamePart
  <2>2. 0 + n <= Len(s) /\ 0 + n <= Len(t)
    BY <1>1 DEF n
  <2> QED BY <1>1, <1>2, <1>3, <2>1, <2>2, EqualParts
<1>5. f[n] \in Int /\ f[0] = 0
  BY <1>1, <1>2 DEF Sums, n
<1>6. g[n] \in Int /\ g[0] = 0 /\ g[n + 1] = g[n] + x
  <2>1. n + 1 \in 1 .. Len(t) /\ n \in 0 .. Len(t) /\ (n + 1) - 1 = n
    BY <1>1
  <2> QED BY <1>1, <1>3, <2>1 DEF Sums
<1>7. Total(t) = Total(s) + x
  <2>1. f[n] - 0 = g[n] - 0
    BY <1>1, <1>4, <1>5, <1>6 DEF SameGrowth
  <2>2. f[n] = g[n]
    BY <1>5, <1>6, <2>1
  <2> QED BY <1>2, <1>3, <1>6, <2>2
<1> QED BY <1>7 DEF t

LEMMA TotalSplit ==
    ASSUME NEW s \in Seq(Int), NEW n \in 0 .. Len(s)
    PROVE  Total(s) = Total(SubSeq(s, 1, n)) + Total(SubSeq(s, n + 1, Len(s)))
<1> DEFINE p == SubSeq(s, 1, n)
           q == SubSeq(s, n + 1, Len(s))
           m == Len(s) - n
<1>1. /\ Len(s) \in Nat /\ n \in Nat /\ m \in Nat /\ n + m = Len(s)
      /\ p \in Seq(Int) /\ Len(p) = n /\ \A k \in 1 .. n : p[k] = s[k]
  OBVIOUS
<1>2. /\ q \in Seq(Int) /\ Len(q) = m /\ \A k \in 1 .. m : q[k] = s[n + k]
  OBVIOUS
<1>3. PICK f : Sums(f, s) /\ Total(s) = f[Len(s)]
  BY TotalSums
<1>4. PICK g : Sums(g, p) /\ Total(p) = g[n]
  BY <1>1, TotalSums
<1>5. PICK h : Sums(h, q) /\ Total(q) = h[m]
  BY <1>2, TotalSums
<1> HIDE DEF p, q, m
<1>6. SameGrowth(f, 0, g, 0, n)
  <2>1. SamePart(s, 0, p, 0, n)
    BY <1>1 DEF SamePart
  <2>2. 0 + n <= Len(s) /\ 0 + n <= Len(p)
    BY <1>1
  <2> QED BY <1>1, <1>3, <1>4, <2>1, <2>2, EqualParts
<1>7. SameGrowth(f, n, h, 0, m)
  <2>1. SamePart(s, n, q, 0, m)
    <3>1. \A k \in 1 .. m : 0 + k = k /\ q[k] = s[n + k]
      BY <1>1, <1>2
    <3> QED BY <3>1 DEF SamePart
  <2>2. n + m <= Len(s) /\ 0 + m <= Len(q)
    BY <1>1, <1>2
  <2> QED BY <1>1, <1>2, <1>3, <1>5, <2>1, <2>2, EqualParts
<1>8. f[0] = 0 /\ g[0] = 0 /\ h[0] = 0 /\ f[n] \in Int /\ f[n + m] \in Int /\ g[n] \in Int /\ h[m] \in Int
  BY <1>1, <1>2, <1>3, <1>4, <1>5 DEF Sums
<1>9. Total(s) = Total(p) + Total(q)
  <2>1. f[n] - 0 = g[n] - 0 /\ f[n + m] - f[n] = h[m] - 0
    BY <1>1, <1>6, <1>7, <1>8 DEF SameGrowth
  <2>2. \A u, v, x, y \in Int : u - 0 = v - 0 /\ x - u = y - 0 => x = v + y
    OBVIOUS
  <2>3. f[n + m] = g[n] + h[m]
    BY <1>8, <2>1, <2>2
  <2> QED BY <1>1, <1>3, <1>4, <1>5, <2>3
<1> QED BY <1>9 DEF p, q

LEMMA TotalFirst ==
    ASSUME NEW s \in Seq(Int), s # <<>>, NEW t \in Seq(Int), Len(t) = Len(s),
           \A k \in 2 .. Len(s) : t[k] = s[k]
    PROVE  Total(t) - t[1] = Total(s) - s[1]
<1> DEFINE n == Len(s) - 1
<1>1. Len(s) \in Nat /\ n \in Nat /\ 1 + n = Len(s) /\ s[1] \in Int /\ t[1] \in Int
  OBVIOUS
<1>2. PICK f : Sums(f, s) /\ Total(s) = f[Len(s)]
  BY TotalSums
<1>3. PICK g : Sums(g, t) /\ Total(t) = g[Len(t)]
  BY TotalSums
<1>4. SameGrowth(f, 1, g, 1, n)
  <2>1. SamePart(s, 1, t, 1, n)
    BY <1>1 DEF SamePart
  <2>2. 1 + n <= Len(s) /\ 1 + n <= Len(t)
    BY <1>1
  <2> HIDE DEF n
  <2> QED BY <1>1, <1>2, <1>3, <2>1, <2>2, EqualParts
<1>5. /\ f[1] = s[1] /\ g[1] = t[1] /\ f[1 + n] \in Int /\ g[1 + n] \in Int
  <2>1. 1 \in 1 .. Len(s) /\ 1 - 1 = 0 /\ 1 + n \in 0 .. Len(s)
    BY <1>1
  <2>2. f[1] = 0 + s[1] /\ g[1] = 0 + t[1]
    BY <1>2, <1>3, <2>1 DEF Sums
  <2> QED BY <1>1, <1>2, <1>3, <2>1, <2>2 DEF Sums
<1> QED BY <1>1, <1>2, <1>3, <1>4, <1>5 DEF SameGrowth

-----------------------------------------------------------------------------
(* Frames and bytes of a sequence.                                         *)

HasN(S)   == \A c \in S : c.n \in Int
HasRem(S) == \A c \in S : c.rem \in Int

LEMMA FramesType == ASSUME NEW S, HasN(S), NEW q \in Seq(S) PROVE Frames(q) \in Int
<1>1. [i \in DOMAIN q |-> q[i].n] \in Seq(Int)
  BY DEF HasN
<1> QED BY <1>1, TotalType DEF Frames

LEMMA FramesEmpty == Frames(<<>>) = 0 /\ Bytes(<<>>) = 0
<1>1. [i \in DOMAIN <<>> |-> <<>>[i].n] = <<>> /\ [i \in DOMAIN <<>> |-> <<>>[i].rem] = <<>>
  OBVIOUS
<1> QED BY <1>1, TotalEmpty DEF Frames, Bytes

LEMMA FramesAppend ==
    ASSUME NEW S, HasN(S), NEW q \in Seq(S), NEW c \in S
    PROVE  Frames(Append(q, c)) = Frames(q) + c.n
<1> DEFINE s == [i \in DOMAIN q |-> q[i].n]
           r == Append(q, c)
<1>1. s \in Seq(Int) /\ c.n \in Int
  BY DEF HasN
<1>2. [i \in DOMAIN r |-> r[i].n] = Append(s, c.n)
  OBVIOUS
<1> HIDE DEF s
<1> QED BY <1>1, <1>2, TotalAppend DEF Frames, s

LEMMA FramesSplit ==
    ASSUME NEW S, HasN(S), NEW q \in Seq(S), NEW n \in 0 .. Len(q)
    PROVE  Frames(q) = Frames(SubSeq(q, 1, n)) + Frames(SubSeq(q, n + 1, Len(q)))
<1> DEFINE s == [i \in DOMAIN q |-> q[i].n]
           a == SubSeq(q, 1, n)
           b == SubSeq(q, n + 1, Len(q))
<1>1. s \in Seq(Int) /\ Len(s) = Len(q)
  BY DEF HasN
<1>2. [i \in DOMAIN a |-> a[i].n] = SubSeq(s, 1, n)
  OBVIOUS
<1>3. [i \in DOMAIN b |-> b[i].n] = SubSeq(s, n + 1, Len(s))
  <2> DEFINE m == Len(q) - n
             t == SubSeq(s, n + 1, Len(s))
  <2>1. /\ m \in Nat /\ DOMAIN b = 1 .. m
        /\ \A i \in 1 .. m : b[i] = q[n + i] /\ n + i \in 1 .. Len(q)
    OBVIOUS
  <2>2. t \in Seq(Int) /\ Len(t) = m /\ \A i \in 1 .. m : t[i] = s[n + i]
    <3> HIDE DEF s
    <3> QED BY <1>1
  <2>3. \A i \in 1 .. m : b[i].n = t[i]
    BY <2>1, <2>2
  <2>4. t = [i \in 1 .. m |-> t[i]]
    <3> HIDE DEF t
    <3> QED BY <2>2
  <2> HIDE DEF t, b
  <2> QED BY <2>1, <2>3, <2>4
<1> HIDE DEF s, a, b
<1>4. Total(s) = Total(SubSeq(s, 1, n)) + Total(SubSeq(s, n + 1, Len(s)))
  BY <1>1, TotalSplit
<1>5. Frames(q) = Frames(a) + Frames(b)
  BY <1>2, <1>3, <1>4 DEF Frames, s
<1> QED BY <1>5 DEF a, b

LEMMA FramesTail ==
    ASSUME NEW S, HasN(S), NEW q \in Seq(S), q # <<>>
    PROVE  Frames(q) = Head(q).n + Frames(Tail(q))
<1>1. /\ Len(q) \in Nat /\ 1 \in 0 .. Len(q) /\ Head(q) \in S
      /\ Tail(q) = SubSeq(q, 1 + 1, Len(q)) /\ SubSeq(q, 1, 1) = Append(<<>>, Head(q))
      /\ <<>> \in Seq(S)
  <2>1. Len(q) \in Nat /\ 1 \in 0 .. Len(q) /\ Head(q) \in S /\ <<>> \in Seq(S) /\ Head(q) = q[1]
    OBVIOUS
  <2>2. Tail(q) = SubSeq(q, 1 + 1, Len(q))
    BY TailIsSubSeq
  <2>3. SubSeq(q, 1, 1) = Append(<<>>, Head(q))
    <3> DEFINE a == SubSeq(q, 1, 1)
               b == Append(<<>>, Head(q))
    <3>1. q[1] \in S /\ 1 \in 1 .. Len(q)
      BY <2>1
    <3>2. a \in Seq(S) /\ Len(a) = 1 /\ a[1] = q[1]
      BY <2>1, <3>1
    <3>3. b \in Seq(S) /\ Len(b) = 1 /\ b[1] = q[1]
      BY <2>1
    <3> HIDE DEF a, b
    <3>4. a = b
      BY <3>2, <3>3, SeqEqual
    <3> QED BY <3>4 DEF a, b
  <2> QED BY <2>1, <2>2, <2>3
<1>2. Frames(q) = Frames(Append(<<>>, Head(q))) + Frames(Tail(q))
  BY <1>1, FramesSplit
<1>3. Frames(Append(<<>>, Head(q))) = 0 + Head(q).n
  BY <1>1, FramesAppend, FramesEmpty
<1>4. Head(q).n \in Int
  BY <1>1 DEF HasN
<1> QED BY <1>2, <1>3, <1>4

LEMMA Rems == ASSUME NEW S, HasRem(S), NEW q \in Seq(S) PROVE [i \in DOMAIN q |-> q[i].rem] \in Seq(Int)
BY DEF HasRem

LEMMA BytesType == ASSUME NEW S, HasRem(S), NEW q \in Seq(S) PROVE Bytes(q) \in Int
BY Rems, TotalType DEF Bytes

LEMMA BytesAppend ==
    ASSUME NEW S, HasRem(S), NEW q \in Seq(S), NEW c \in S
    PROVE  Bytes(Append(q, c)) = Bytes(q) + c.rem
<1> DEFINE s == [i \in DOMAIN q |-> q[i].rem]
           r == Append(q, c)
<1>1. s \in Seq(Int) /\ c.rem \in Int
  BY DEF HasRem
<1>2. [i \in DOMAIN r |-> r[i].rem] = Append(s, c.rem)
  OBVIOUS
<1> HIDE DEF s
<1> QED BY <1>1, <1>2, TotalAppend DEF Bytes, s

LEMMA BytesSplit ==
    ASSUME NEW S, HasRem(S), NEW q \in Seq(S), NEW n \in 0 .. Len(q)
    PROVE  Bytes(q) = Bytes(SubSeq(q, 1, n)) + Bytes(SubSeq(q, n + 1, Len(q)))
<1> DEFINE s == [i \in DOMAIN q |-> q[i].rem]
           a == SubSeq(q, 1, n)
           b == SubSeq(q, n + 1, Len(q))
<1>1. s \in Seq(Int) /\ Len(s) = Len(q)
  BY DEF HasRem
<1>2. [i \in DOMAIN a |-> a[i].rem] = SubSeq(s, 1, n)
  OBVIOUS
<1>3. [i \in DOMAIN b |-> b[i].rem] = SubSeq(s, n + 1, Len(s))
  <2> DEFINE m == Len(q) - n
             t == SubSeq(s, n + 1, Len(s))
  <2>1. /\ m \in Nat /\ DOMAIN b = 1 .. m
        /\ \A i \in 1 .. m : b[i] = q[n + i] /\ n + i \in 1 .. Len(q)
    OBVIOUS
  <2>2. t \in Seq(Int) /\ Len(t) = m /\ \A i \in 1 .. m : t[i] = s[n + i]
    <3> HIDE DEF s
    <3> QED BY <1>1
  <2>3. \A i \in 1 .. m : b[i].rem = t[i]
    BY <2>1, <2>2
  <2>4. t = [i \in 1 .. m |-> t[i]]
    <3> HIDE DEF t
    <3> QED BY <2>2
  <2> HIDE DEF t, b
  <2> QED BY <2>1, <2>3, <2>4
<1> HIDE DEF s, a, b
<1>4. Total(s) = Total(SubSeq(s, 1, n)) + Total(SubSeq(s, n + 1, Len(s)))
  BY <1>1, TotalSplit
<1>5. Bytes(q) = Bytes(a) + Bytes(b)
  BY <1>2, <1>3, <1>4 DEF Bytes, s
<1> QED BY <1>5 DEF a, b

\* Bytes are taken off the first pending chunk.
LEMMA FirstTaken ==
    ASSUME NEW q \in Seq(Pending), q # <<>>, NEW d \in Int
    PROVE  LET r == [q EXCEPT ![1].rem = @ - d] IN
           r \in Seq(Pending) /\ Bytes(r) = Bytes(q) - d /\ Frames(r) = Frames(q)
<1> DEFINE h == [q[1] EXCEPT !.rem = q[1].rem - d]
           r == [q EXCEPT ![1] = h]
           s == [i \in DOMAIN q |-> q[i].rem]
           t == [i \in DOMAIN r |-> r[i].rem]
<1>1. Len(q) \in Nat /\ 1 \in 1 .. Len(q) /\ q[1] \in Pending /\ DOMAIN q = 1 .. Len(q)
  OBVIOUS
<1>2. h \in Pending /\ h.rem = q[1].rem - d /\ h.n = q[1].n /\ q[1].rem \in Int
  BY <1>1 DEF Pending
<1>3. [q EXCEPT ![1].rem = @ - d] = r
  BY <1>1
<1> HIDE DEF h
<1>4. /\ r \in Seq(Pending) /\ Len(r) = Len(q) /\ DOMAIN r = 1 .. Len(q) /\ r[1] = h
      /\ \A k \in 1 .. Len(q) : k # 1 => r[k] = q[k]
  BY <1>1, <1>2
<1> HIDE DEF r
<1>5. Frames(r) = Frames(q)
  <2>1. [i \in DOMAIN r |-> r[i].n] = [i \in DOMAIN q |-> q[i].n]
    BY <1>1, <1>2, <1>4
  <2> QED BY <2>1 DEF Frames
<1>6. Bytes(r) = Bytes(q) - d
  <2>1. HasRem(Pending)
    BY DEF Pending, HasRem
  <2>2. s \in Seq(Int) /\ t \in Seq(Int)
    BY <1>4, <2>1, Rems
  <2>3. Len(s) = Len(q) /\ Len(t) = Len(q) /\ s # <<>> /\ \A k \in 2 .. Len(q) : t[k] = s[k]
    BY <1>1, <1>4
  <2>4. s[1] = q[1].rem /\ t[1] = q[1].rem - d
    BY <1>1, <1>2, <1>4
  <2>5. Bytes(q) = Total(s) /\ Bytes(r) = Total(t)
    BY DEF Bytes
  <2> HIDE DEF s, t
  <2>6. Total(s) \in Int /\ Total(t) \in Int
    BY <2>2, TotalType
  <2>7. Total(t) - t[1] = Total(s) - s[1]
    BY <2>2, <2>3, TotalFirst
  <2> QED BY <1>2, <2>4, <2>5, <2>6, <2>7
<1> QED BY <1>3, <1>4, <1>5, <1>6

-----------------------------------------------------------------------------
(* Multiples.                                                              *)

LEMMA Division ==
    ASSUME NEW p \in Nat \ {0}, NEW x \in Int
    PROVE  x = p * (x \div p) + (x % p) /\ x % p \in 0 .. p - 1 /\ x \div p \in Int
OBVIOUS

LEMMA Multiple == ASSUME NEW p \in Nat \ {0}, NEW k \in Int PROVE (p * k) % p = 0
OBVIOUS

LEMMA IsMultiple == ASSUME NEW p \in Nat \ {0}, NEW x \in Int, x % p = 0 PROVE \E a \in Int : x = p * a
<1>1. x = p * (x \div p) + (x % p) /\ x \div p \in Int
  BY Division
<1>2. p * (x \div p) \in Int
  BY <1>1
<1>3. x = p * (x \div p)
  BY <1>1, <1>2
<1> QED BY <1>1, <1>3

LEMMA MultiplesAdd ==
    ASSUME NEW p \in Nat \ {0}, NEW x \in Int, NEW y \in Int, x % p = 0, y % p = 0
    PROVE  (x + y) % p = 0 /\ (x - p) % p = 0
<1>1. PICK a \in Int : x = p * a
  BY IsMultiple
<1>2. PICK b \in Int : y = p * b
  BY IsMultiple
<1>3. x + y = p * (a + b) /\ x - p = p * (a - 1) /\ a + b \in Int /\ a - 1 \in Int
  BY <1>1, <1>2
<1> QED BY <1>3, Multiple

LEMMA Padded == ASSUME NEW p \in Nat \ {0}, NEW n \in Int PROVE (n + ((0 - n) % p)) % p = 0
<1> DEFINE m == 0 - n
           k == m \div p
<1>1. m \in Int /\ m = p * k + (m % p) /\ k \in Int /\ m % p \in Int
  BY Division
<1>2. n + (m % p) = p * (0 - k)
  <2>1. p * (0 - k) = 0 - p * k /\ p * k \in Int
    BY <1>1
  <2>2. n = 0 - m
    OBVIOUS
  <2> HIDE DEF m, k
  <2> QED BY <1>1, <2>1, <2>2
<1>3. 0 - k \in Int
  BY <1>1
<1> HIDE DEF k
<1> QED BY <1>2, <1>3, Multiple

LEMMA WholeAndRest ==
    ASSUME NEW p \in Nat \ {0}, NEW x \in Nat
    PROVE  /\ (x \div p) * p + (x % p) = x /\ (x \div p) * p \in Nat
           /\ x \div p \in Nat /\ x % p \in Nat /\ x % p < p
<1>1. x = p * (x \div p) + (x % p) /\ x % p \in 0 .. p - 1 /\ x \div p \in Int
  BY Division
<1>2. x \div p \in Nat
  OBVIOUS
<1>3. (x \div p) * p = p * (x \div p) /\ (x \div p) * p \in Nat
  BY <1>2
<1> QED BY <1>1, <1>2, <1>3

-----------------------------------------------------------------------------
(* Chunks on their way through a worker.                                   *)

Stock(o) == o.prcsd + Frames(o.pend) + Frames(o.queue)

\* r is o after some of its chunks have gone into the buffer.
Goes(r, o) ==
    /\ r \in Worker /\ SameControl(r, o) /\ r.cb = o.cb /\ r.rcvd = o.rcvd
    /\ Stock(r) = Stock(o)
    /\ Bytes(o.pend) = o.buf => Bytes(r.pend) = r.buf
    /\ AtRate(o.queue) => AtRate(r.queue)
    /\ AtRate(o.queue) /\ o.buf % o.ptime = 0 => r.buf % r.ptime = 0

LEMMA ChunkNumbers == HasN(Chunks) /\ HasN(Pending) /\ HasRem(Pending)
BY RtpAssumption DEF HasN, HasRem, Pending

LEMMA WorkerNumbers ==
    ASSUME NEW o \in Worker
    PROVE  /\ Frames(o.pend) \in Int /\ Frames(o.queue) \in Int /\ Bytes(o.pend) \in Int
           /\ Stock(o) \in Int /\ o.prcsd \in Int /\ o.rcvd \in Int /\ o.buf \in Nat
           /\ o.ptime \in Nat \ {0} /\ o.pend \in Seq(Pending) /\ o.queue \in Seq(Chunks)
<1>1. /\ o.prcsd \in Int /\ o.rcvd \in Int /\ o.buf \in Nat /\ o.ptime \in Nat \ {0}
      /\ o.pend \in Seq(Pending) /\ o.queue \in Seq(Chunks)
  BY DEF Worker
<1>2. Frames(o.pend) \in Int /\ Frames(o.queue) \in Int /\ Bytes(o.pend) \in Int
  BY <1>1, ChunkNumbers, FramesType, BytesType
<1>3. Stock(o) \in Int
  BY <1>1, <1>2 DEF Stock
<1> QED BY <1>1, <1>2, <1>3

LEMMA GoesNowhere == ASSUME NEW o \in Worker PROVE Goes(o, o)
BY DEF Goes, SameControl

LEMMA GoesOn == ASSUME NEW o, NEW r, NEW x, Goes(r, o), Goes(x, r) PROVE Goes(x, o)
BY DEF Goes, SameControl

LEMMA EncodedFacts ==
    ASSUME NEW o \in Worker, NEW c \in Chunks
    PROVE  /\ Encoded(o, c) \in Nat
           /\ c.rate = 1 => Encoded(o, c) % o.ptime = 0
<1>1. o.ptime \in Nat \ {0} /\ c.n \in Nat /\ c.rate \in Nat \ {0}
  BY RtpAssumption DEF Worker
<1>2. c.n \div c.rate \in Nat
  BY <1>1, WholeAndRest
<1>3. (0 - c.n) % o.ptime \in Nat
  <2>1. 0 - c.n \in Int
    BY <1>1
  <2>2. (0 - c.n) % o.ptime \in 0 .. o.ptime - 1
    BY <1>1, <2>1, Division
  <2> QED BY <1>1, <2>2
<1>4. c.rate = 1 => c.n \div c.rate = c.n
  BY <1>1
<1>5. (c.n + ((0 - c.n) % o.ptime)) % o.ptime = 0
  BY <1>1, Padded
<1> QED BY <1>2, <1>3, <1>4, <1>5 DEF Encoded

LEMMA Taken ==
    ASSUME NEW o \in Worker, o.queue # <<>>
    PROVE  Goes(TakeChunk(o), o) /\ Len(TakeChunk(o).queue) = Len(o.queue) - 1
<1> DEFINE c == Head(o.queue)
           e == Encoded(o, c)
           taken == [o EXCEPT !.queue = Tail(@), !.buf = @ + e]
           r == TakeChunk(o)
<1>1. /\ Frames(o.pend) \in Int /\ Frames(o.queue) \in Int /\ Bytes(o.pend) \in Int
      /\ Stock(o) \in Int /\ o.prcsd \in Int /\ o.rcvd \in Int /\ o.buf \in Nat
      /\ o.ptime \in Nat \ {0} /\ o.pend \in Seq(Pending) /\ o.queue \in Seq(Chunks)
  BY WorkerNumbers
<1>2. /\ c \in Chunks /\ Tail(o.queue) \in Seq(Chunks) /\ Len(Tail(o.queue)) = Len(o.queue) - 1
      /\ c = o.queue[1] /\ 1 \in DOMAIN o.queue
      /\ \A i \in DOMAIN Tail(o.queue) : i + 1 \in DOMAIN o.queue /\ Tail(o.queue)[i] = o.queue[i + 1]
  BY <1>1
<1>3. e \in Nat /\ (c.rate = 1 => e % o.ptime = 0) /\ c.n \in Nat
  BY <1>2, EncodedFacts, RtpAssumption
<1>4. Frames(o.queue) = c.n + Frames(Tail(o.queue)) /\ Frames(Tail(o.queue)) \in Int
  BY <1>1, <1>2, ChunkNumbers, FramesTail, FramesType
<1>5. AtRate(o.queue) => AtRate(Tail(o.queue)) /\ c.rate = 1
  BY <1>2 DEF AtRate
<1>6. o.buf + e \in Nat /\ (AtRate(o.queue) /\ o.buf % o.ptime = 0 => (o.buf + e) % o.ptime = 0)
  <2> HIDE DEF e, c
  <2>1. o.buf + e \in Nat
    BY <1>1, <1>3
  <2>2. o.buf % o.ptime = 0 /\ e % o.ptime = 0 => (o.buf + e) % o.ptime = 0
    <3>1. o.buf \in Int /\ e \in Int
      BY <1>1, <1>3
    <3> QED BY <1>1, <3>1, MultiplesAdd
  <2> QED BY <1>3, <1>5, <2>1, <2>2
<1> HIDE DEF e, c
<1>7. /\ taken \in Worker /\ SameControl(taken, o) /\ taken.cb = o.cb /\ taken.rcvd = o.rcvd
      /\ taken.queue = Tail(o.queue) /\ taken.buf = o.buf + e /\ taken.pend = o.pend
      /\ taken.prcsd = o.prcsd /\ taken.ptime = o.ptime
  BY <1>1, <1>2, <1>6 DEF Worker, SameControl
<1>8. CASE e > 0
  <2> DEFINE x == [rem |-> e, n |-> c.n]
             pend == Append(o.pend, x)
  <2>1. x \in Pending /\ x.rem = e /\ x.n = c.n
    BY <1>3 DEF Pending
  <2>2. r = [taken EXCEPT !.pend = Append(@, x)]
    BY <1>8 DEF TakeChunk, e, c
  <2> HIDE DEF taken, x
  <2>3. pend \in Seq(Pending) /\ Frames(pend) = Frames(o.pend) + c.n /\ Bytes(pend) = Bytes(o.pend) + e
    BY <1>1, <2>1, ChunkNumbers, FramesAppend, BytesAppend
  <2>4. /\ r \in Worker /\ SameControl(r, o) /\ r.cb = o.cb /\ r.rcvd = o.rcvd
        /\ r.queue = Tail(o.queue) /\ r.buf = o.buf + e /\ r.pend = pend
        /\ r.prcsd = o.prcsd /\ r.ptime = o.ptime
    BY <1>7, <2>2, <2>3 DEF Worker, SameControl
  <2> HIDE DEF r, pend
  <2>5. Stock(r) = Stock(o)
    <3>1. \A u, v, z, y \in Int : u + (v + z) + y = u + v + (z + y)
      OBVIOUS
    <3>2. Stock(r) = o.prcsd + (Frames(o.pend) + c.n) + Frames(Tail(o.queue))
      BY <2>3, <2>4 DEF Stock
    <3>3. Stock(o) = o.prcsd + Frames(o.pend) + (c.n + Frames(Tail(o.queue)))
      BY <1>4 DEF Stock
    <3>4. c.n \in Int
      BY <1>3
    <3> QED BY <1>1, <1>4, <3>1, <3>2, <3>3, <3>4
  <2>6. Bytes(o.pend) = o.buf => Bytes(r.pend) = r.buf
    BY <2>3, <2>4
  <2>7. Goes(r, o)
    BY <1>5, <1>6, <2>4, <2>5, <2>6 DEF Goes
  <2> QED BY <1>2, <2>4, <2>7 DEF r
<1>9. CASE ~(e > 0)
  <2>1. e = 0
    BY <1>3, <1>9
  <2>2. r = [taken EXCEPT !.prcsd = @ + c.n]
    BY <1>9 DEF TakeChunk, e, c
  <2> HIDE DEF taken
  <2>3. /\ r \in Worker /\ SameControl(r, o) /\ r.cb = o.cb /\ r.rcvd = o.rcvd
        /\ r.queue = Tail(o.queue) /\ r.buf = o.buf + e /\ r.pend = o.pend
        /\ r.prcsd = o.prcsd + c.n /\ r.ptime = o.ptime
    <3>1. PICK v \in Int : v = o.prcsd + c.n
      BY <1>1, <1>3
    <3>2. r = [taken EXCEPT !.prcsd = v]
      BY <1>7, <2>2, <3>1
    <3> HIDE DEF r
    <3> QED BY <1>7, <3>1, <3>2 DEF Worker, SameControl
  <2> HIDE DEF r
  <2>4. Stock(r) = Stock(o)
    <3>1. \A u, v, x, y \in Int : (u + v) + x + y = u + x + (v + y)
      OBVIOUS
    <3>2. Stock(r) = (o.prcsd + c.n) + Frames(o.pend) + Frames(Tail(o.queue))
      BY <2>3 DEF Stock
    <3>3. Stock(o) = o.prcsd + Frames(o.pend) + (c.n + Frames(Tail(o.queue)))
      BY <1>4 DEF Stock
    <3>4. c.n \in Int
      BY <1>3
    <3> QED BY <1>1, <1>4, <3>1, <3>2, <3>3, <3>4
  <2>5. Goes(r, o)
    BY <1>1, <1>5, <1>6, <2>1, <2>3, <2>4 DEF Goes
  <2> QED BY <1>2, <2>3, <2>5 DEF r
<1> QED BY <1>8, <1>9

\* The loop of _proc_in(), n times.
FillTo(f, o, n) ==
    f = [k \in 0 .. n |-> IF k = 0 THEN o
                          ELSE IF f[k - 1].buf >= o.ptime THEN f[k - 1] ELSE TakeChunk(f[k - 1])]

LEMMA FillsExist == ASSUME NEW o, NEW n \in Nat PROVE \E f : FillTo(f, o, n)
<1> DEFINE T == {m \in Nat : ~\E f : FillTo(f, o, m)}
           Next1(x) == IF x.buf >= o.ptime THEN x ELSE TakeChunk(x)
<1> SUFFICES ASSUME T # {} PROVE FALSE
  OBVIOUS
<1>1. PICK m \in T : \A j \in T : m <= j
  BY LeastNumber
<1>2. m # 0
  <2> DEFINE f == [k \in 0 .. 0 |-> o]
  <2>1. f = [k \in 0 .. 0 |-> IF k = 0 THEN o
                              ELSE IF f[k - 1].buf >= o.ptime THEN f[k - 1] ELSE TakeChunk(f[k - 1])]
    OBVIOUS
  <2>2. FillTo(f, o, 0)
    BY <2>1 DEF FillTo
  <2> QED BY <2>2
<1>3. m - 1 \in Nat /\ m - 1 \notin T /\ m \in Nat
  BY <1>1, <1>2
<1>4. PICK f : FillTo(f, o, m - 1)
  BY <1>3
<1>5. \A k \in 0 .. m - 1 : f[k] = IF k = 0 THEN o ELSE Next1(f[k - 1])
  <2>1. f = [k \in 0 .. m - 1 |-> IF k = 0 THEN o ELSE Next1(f[k - 1])]
    BY <1>4 DEF FillTo
  <2> HIDE DEF Next1
  <2> QED BY <2>1
<1> DEFINE g == [k \in 0 .. m |-> IF k = m THEN Next1(f[m - 1]) ELSE f[k]]
<1> HIDE DEF Next1
<1>6. ASSUME NEW k \in 0 .. m
      PROVE  g[k] = IF k = 0 THEN o ELSE Next1(g[k - 1])
  <2>1. CASE k = 0
    BY <1>2, <1>3, <1>5, <2>1
  <2>2. CASE k # 0
    <3>1. k - 1 \in 0 .. m - 1 /\ k - 1 \in 0 .. m /\ k - 1 # m
      BY <1>3, <2>2
    <3>2. g[k - 1] = f[k - 1]
      BY <3>1
    <3>3. CASE k = m
      BY <2>2, <3>2, <3>3
    <3>4. CASE k # m
      <4>1. k \in 0 .. m - 1
        BY <1>3, <3>4
      <4> QED BY <1>5, <2>2, <3>2, <3>4, <4>1
    <3> QED BY <3>3, <3>4
  <2> QED BY <2>1, <2>2
<1>7. g = [k \in 0 .. m |-> g[k]]
  OBVIOUS
<1> HIDE DEF g
<1>8. FillTo(g, o, m)
  <2>1. [k \in 0 .. m |-> g[k]] = [k \in 0 .. m |-> IF k = 0 THEN o ELSE Next1(g[k - 1])]
    BY <1>6
  <2> QED BY <1>7, <2>1 DEF FillTo, Next1
<1> QED BY <1>8, <1>1

LEMMA Filled == ASSUME NEW o \in Worker PROVE Goes(Fill(o), o)
<1> DEFINE n == Len(o.queue)
           f == CHOOSE g : FillTo(g, o, n)
<1>1. n \in Nat
  BY WorkerNumbers
<1>2. Fill(o) = f[n]
  BY DEF Fill, FillTo
<1>3. FillTo(f, o, n)
  BY <1>1, FillsExist
<1> HIDE DEF f
<1>4. f[0] = o
  BY <1>1, <1>3 DEF FillTo
<1>5. \A k \in 1 .. n : f[k] = IF f[k - 1].buf >= o.ptime THEN f[k - 1] ELSE TakeChunk(f[k - 1])
  <2>1. f = [k \in 0 .. n |-> IF k = 0 THEN o
                          ELSE IF f[k - 1].buf >= o.ptime THEN f[k - 1] ELSE TakeChunk(f[k - 1])]
    BY <1>3 DEF FillTo
  <2> QED BY <1>1, <2>1
<1> DEFINE Ok(k) == Goes(f[k], o) /\ Len(f[k].queue) >= n - k
           T == {k \in Nat : k <= n /\ ~Ok(k)}
<1> SUFFICES ASSUME ~Ok(n) PROVE FALSE
  BY <1>2
<1>6. n \in T
  BY <1>1
<1>7. PICK k \in T : \A j \in T : k <= j
  BY <1>6, LeastNumber
<1>8. k # 0
  <2>1. Ok(0)
    BY <1>1, <1>4, GoesNowhere
  <2> QED BY <1>7, <2>1
<1> DEFINE j == k - 1
<1>9. j \in Nat /\ k = j + 1 /\ k \in 1 .. n /\ j <= n /\ ~(k <= j)
  BY <1>1, <1>7, <1>8
<1>10. Ok(j)
  <2> HIDE DEF Ok, j
  <2> QED BY <1>7, <1>9
<1>11. f[k] = IF f[j].buf >= o.ptime THEN f[j] ELSE TakeChunk(f[j])
  BY <1>5, <1>9
<1> HIDE DEF j
<1>12. f[j] \in Worker /\ Goes(f[j], o) /\ Len(f[j].queue) >= n - j
  BY <1>10 DEF Goes
<1>13. f[j].queue \in Seq(Chunks) /\ Len(f[j].queue) \in Nat
  BY <1>12, WorkerNumbers
<1>14. n - j >= 1 /\ n - k = (n - j) - 1
  BY <1>1, <1>9
<1>15. Ok(k)
  <2>1. CASE f[j].buf >= o.ptime
    <3>1. f[k] = f[j]
      BY <1>11, <2>1
    <3>2. Len(f[j].queue) >= n - k
      BY <1>1, <1>9, <1>12, <1>13, <1>14
    <3> QED BY <1>12, <3>1, <3>2
  <2>2. CASE ~(f[j].buf >= o.ptime)
    <3>1. f[k] = TakeChunk(f[j])
      BY <1>11, <2>2
    <3>2. f[j].queue # <<>>
      BY <1>1, <1>9, <1>12, <1>13, <1>14
    <3>3. Goes(f[k], f[j]) /\ Len(f[k].queue) = Len(f[j].queue) - 1
      BY <1>12, <3>1, <3>2, Taken
    <3>4. Goes(f[k], o)
      BY <1>12, <3>3, GoesOn
    <3>5. Len(f[k].queue) >= n - k
      BY <1>1, <1>9, <1>12, <1>13, <1>14, <3>3
    <3> QED BY <3>4, <3>5
  <2> QED BY <2>1, <2>2
<1> QED BY <1>7, <1>15

\* A packet has gone: the frames are still accounted for, and the bytes of the packet
\* are taken off what is pending.
LEMMA Marked ==
    ASSUME NEW o \in Worker, NEW nbytes \in Nat \ {0}, Bytes(o.pend) >= nbytes
    PROVE  LET r == MarkProcessed(o, nbytes) IN
           /\ r \in Worker /\ SameControl(r, o) /\ r.cb = o.cb /\ r.rcvd = o.rcvd
           /\ r.queue = o.queue /\ r.buf = o.buf /\ Stock(r) = Stock(o)
           /\ Bytes(r.pend) = Bytes(o.pend) - nbytes
<1> DEFINE First(k) == SubSeq(o.pend, 1, k)
           K == {k \in 1 .. Len(o.pend) : Bytes(First(k)) <= nbytes}
           n == Cardinality(K)
           rest == SubSeq(o.pend, n + 1, Len(o.pend))
           d == nbytes - Bytes(First(n))
           pend == IF rest = <<>> THEN <<>> ELSE [rest EXCEPT ![1].rem = @ - d]
           r == MarkProcessed(o, nbytes)
<1>1. /\ Frames(o.pend) \in Int /\ Frames(o.queue) \in Int /\ Bytes(o.pend) \in Int
      /\ Stock(o) \in Int /\ o.prcsd \in Int /\ o.rcvd \in Int /\ o.buf \in Nat
      /\ o.ptime \in Nat \ {0} /\ o.pend \in Seq(Pending) /\ o.queue \in Seq(Chunks)
      /\ Len(o.pend) \in Nat
  BY WorkerNumbers
<1>2. /\ IsFiniteSet(1 .. Len(o.pend)) /\ Cardinality(1 .. Len(o.pend)) = Len(o.pend)
      /\ K \subseteq 1 .. Len(o.pend)
  <2>1. K \subseteq 1 .. Len(o.pend)
    OBVIOUS
  <2> HIDE DEF K
  <2>2. ASSUME NEW m \in Nat PROVE IsFiniteSet(1 .. m) /\ Cardinality(1 .. m) = m
    <3>1. 1 \in Int /\ m \in Int
      OBVIOUS
    <3>2. /\ IsFiniteSet(1 .. m)
          /\ Cardinality(1 .. m) = IF 1 > m THEN 0 ELSE m - 1 + 1
      BY <3>1, FS_Interval
    <3> QED BY <3>2
  <2> QED BY <1>1, <2>1, <2>2
<1>3. n \in 0 .. Len(o.pend) /\ (n = Len(o.pend) => K = 1 .. Len(o.pend))
  <2> HIDE DEF K
  <2>1. IsFiniteSet(K) /\ n <= Len(o.pend) /\ (n = Len(o.pend) => K = 1 .. Len(o.pend))
    BY <1>2, FS_Subset
  <2>2. n \in Nat
    BY <2>1, FS_CardinalityType
  <2> QED BY <1>1, <2>1, <2>2
<1>4. n = Len(o.pend) => Bytes(o.pend) <= nbytes
  <2>1. CASE Len(o.pend) = 0
    <3>1. o.pend = <<>>
      BY <1>1, <2>1
    <3> QED BY <3>1, FramesEmpty
  <2>2. CASE Len(o.pend) # 0
    <3>1. Len(o.pend) \in 1 .. Len(o.pend)
      BY <1>1, <2>2
    <3>2. First(Len(o.pend)) = o.pend
      BY <1>1, SubSeqFull
    <3> QED BY <1>3, <3>1, <3>2
  <2> QED BY <2>1, <2>2
<1> HIDE DEF K
<1>5. /\ First(n) \in Seq(Pending) /\ rest \in Seq(Pending)
      /\ rest = <<>> => n = Len(o.pend)
  <2>1. ASSUME NEW q \in Seq(Pending), NEW m \in 0 .. Len(q)
        PROVE  /\ SubSeq(q, 1, m) \in Seq(Pending) /\ SubSeq(q, m + 1, Len(q)) \in Seq(Pending)
               /\ Len(SubSeq(q, m + 1, Len(q))) = Len(q) - m
    OBVIOUS
  <2> HIDE DEF n
  <2>2. First(n) \in Seq(Pending) /\ rest \in Seq(Pending) /\ Len(rest) = Len(o.pend) - n
    BY <1>1, <1>3, <2>1
  <2> HIDE DEF rest
  <2>3. rest = <<>> => Len(o.pend) - n = 0
    BY <2>2
  <2> QED BY <1>1, <1>3, <2>2, <2>3
<1>6. /\ Frames(o.pend) = Frames(First(n)) + Frames(rest)
      /\ Bytes(o.pend) = Bytes(First(n)) + Bytes(rest)
  BY <1>1, <1>3, ChunkNumbers, FramesSplit, BytesSplit
<1>7. r = [o EXCEPT !.pend = pend, !.prcsd = @ + Frames(First(n))]
  BY DEF MarkProcessed, K
<1> HIDE DEF n, First, rest
<1>8. /\ Frames(First(n)) \in Int /\ Bytes(First(n)) \in Int /\ Frames(rest) \in Int
      /\ Bytes(rest) \in Int /\ d \in Int
  BY <1>5, ChunkNumbers, FramesType, BytesType
<1> HIDE DEF d
<1>9. /\ pend \in Seq(Pending) /\ Frames(pend) = Frames(rest)
      /\ Bytes(pend) = Bytes(o.pend) - nbytes
  <2>1. CASE rest = <<>>
    <3>1. pend = <<>> /\ Bytes(o.pend) = nbytes
      BY <1>1, <1>4, <1>5, <2>1
    <3> QED BY <1>1, <2>1, <3>1, FramesEmpty
  <2>2. CASE rest # <<>>
    <3>1. pend = [rest EXCEPT ![1].rem = @ - d]
      BY <2>2
    <3> HIDE DEF pend
    <3>2. pend \in Seq(Pending) /\ Bytes(pend) = Bytes(rest) - d /\ Frames(pend) = Frames(rest)
      BY <1>5, <1>8, <2>2, <3>1, FirstTaken
    <3>3. Bytes(rest) - d = Bytes(o.pend) - nbytes
      BY <1>1, <1>6, <1>8 DEF d
    <3> QED BY <3>2, <3>3
  <2> QED BY <2>1, <2>2
<1> HIDE DEF pend
<1>10. PICK v \in Int : v = o.prcsd + Frames(First(n))
  BY <1>1, <1>8
<1>11. r = [[o EXCEPT !.pend = pend] EXCEPT !.prcsd = v]
  BY <1>7, <1>10 DEF Worker
<1>12. /\ r \in Worker /\ SameControl(r, o) /\ r.cb = o.cb /\ r.rcvd = o.rcvd
       /\ r.queue = o.queue /\ r.buf = o.buf /\ r.pend = pend /\ r.prcsd = v
  <2> HIDE DEF r
  <2> QED BY <1>9, <1>11 DEF Worker, SameControl
<1> HIDE DEF r
<1>13. Stock(r) = Stock(o)
  <2>1. \A u, x, y, z \in Int : (u + x) + y + z = u + (x + y) + z
    OBVIOUS
  <2>2. Stock(r) = (o.prcsd + Frames(First(n))) + Frames(rest) + Frames(o.queue)
    BY <1>9, <1>10, <1>12 DEF Stock
  <2>3. Stock(o) = o.prcsd + (Frames(First(n)) + Frames(rest)) + Frames(o.queue)
    BY <1>6 DEF Stock
  <2> QED BY <1>1, <1>8, <2>1, <2>2, <2>3
<1> QED BY <1>9, <1>12, <1>13 DEF r

-----------------------------------------------------------------------------
(* Sound.                                                                  *)

\* What Sounding says of a worker.
Sounds(o, hold, on, other) ==
    /\ Balanced(o, hold)
    /\ o.cb # "dead" /\ on => Level(o)
    /\ ~other => AtRate(o.queue) /\ o.buf % o.ptime = 0

LEMMA SoundingWorkers ==
    Sounding <=> /\ \A w \in DOMAIN workers : Sounds(workers[w], InHand(w), rserv # 0, resampled)
                 /\ ~resampled /\ snd # <<>> => snd[2].rate = 1
BY DEF Sounding, Sounds

LEMMA SoundsSame ==
    ASSUME NEW v, NEW o, NEW hold, NEW on, NEW on2, NEW other, SameSound(v, o), on2 => on,
           Sounds(o, hold, on, other)
    PROVE  Sounds(v, hold, on2, other)
BY DEF Sounds, SameSound, Balanced, Level

LEMMA NewSounds ==
    ASSUME NEW pt \in Nat \ {0}, NEW on, NEW other PROVE Sounds(NewWorker(pt), 0, on, other)
<1> DEFINE o == NewWorker(pt)
<1>1. /\ o.ptime = pt /\ o.cb = "idle" /\ o.queue = <<>> /\ o.buf = 0 /\ o.pend = <<>>
      /\ o.rcvd = 0 /\ o.prcsd = 0
  BY NewWorkerFacts
<1> HIDE DEF o
<1>2. Balanced(o, 0)
  BY <1>1, FramesEmpty DEF Balanced
<1>3. Level(o)
  BY <1>1, FramesEmpty DEF Level
<1>4. AtRate(o.queue)
  BY <1>1 DEF AtRate
<1>5. o.buf % o.ptime = 0
  <2>1. (pt * 0) % pt = 0 /\ pt * 0 = 0
    BY Multiple
  <2> QED BY <1>1, <2>1
<1>6. Sounds(o, 0, on, other)
  BY <1>2, <1>3, <1>4, <1>5 DEF Sounds
<1> QED BY <1>6 DEF o

\* A step that plays nothing: workers may be ended, and made.
Silent ==
    /\ snd' = snd /\ (resampled' <=> resampled)
    /\ rserv' # 0 => rserv # 0 \/ workers = <<>>
    /\ Len(workers') \in Nat /\ DOMAIN workers' = 1 .. Len(workers')
    /\ \A w \in 1 .. Len(workers') :
          \/ w \in 1 .. Len(workers) /\ SameSound(workers'[w], workers[w])
          \/ w \notin 1 .. Len(workers) /\ \E pt \in Nat \ {0} : workers'[w] = NewWorker(pt)

LEMMA SilentSounding == ASSUME EndTypeOK, Sounding, Silent PROVE Sounding'
<1>1. DOMAIN workers = 1 .. Len(workers) /\ snd' = snd /\ (resampled' <=> resampled)
  BY DEF EndTypeOK, Silent
<1>2. ASSUME NEW w \in 1 .. Len(workers')
      PROVE  Sounds(workers'[w], InHand(w)', rserv' # 0, resampled')
  <2>1. InHand(w)' = InHand(w)
    BY <1>1 DEF InHand
  <2>2. CASE w \in 1 .. Len(workers) /\ SameSound(workers'[w], workers[w])
    <3>1. Sounds(workers[w], InHand(w), rserv # 0, resampled)
      BY <1>1, <2>2, SoundingWorkers
    <3>2. rserv' # 0 => rserv # 0
      BY <2>2 DEF Silent
    <3>3. Sounds(workers'[w], InHand(w), rserv' # 0, resampled)
      <4>1. ASSUME NEW a, NEW b, a => b, Sounds(workers[w], InHand(w), b, resampled)
            PROVE  Sounds(workers'[w], InHand(w), a, resampled)
        BY <2>2, <4>1, SoundsSame
      <4> QED BY <3>1, <3>2, <4>1
    <3> QED BY <1>1, <2>1, <3>3 DEF Sounds
  <2>3. CASE w \notin 1 .. Len(workers) /\ \E pt \in Nat \ {0} : workers'[w] = NewWorker(pt)
    <3>1. InHand(w) = 0
      BY <2>3 DEF InHand, EndTypeOK
    <3> QED BY <2>1, <2>3, <3>1, NewSounds
  <2> QED BY <2>2, <2>3 DEF Silent
<1>3. Sounding'
  <2>1. DOMAIN workers' = 1 .. Len(workers')
    BY DEF Silent
  <2>2. ~resampled' /\ snd' # <<>> => snd'[2].rate = 1
    BY <1>1 DEF Sounding
  <2> QED BY <1>2, <2>1, <2>2 DEF Sounding, Sounds
<1> QED BY <1>3

LEMMA SameWorkersSilent ==
    ASSUME EndTypeOK, snd' = snd, resampled' = resampled, workers' = workers,
           rserv' # 0 => rserv # 0 \/ workers = <<>>
    PROVE  Silent
BY Whereabouts DEF Silent, SameSound

LEMMA OneWorkerSilent ==
    ASSUME EndTypeOK, NEW w \in 1 .. Len(workers), snd' = snd, resampled' = resampled,
           rserv' # 0 => rserv # 0,
           \/ workers' = WorkerEnded(w) \/ workers' = Joined(w)
           \/ workers' = [workers EXCEPT ![w].open = FALSE]
    PROVE  Silent
<1>1. OnlyWorker(w) /\ SameSound(workers'[w], workers[w])
  BY EndedWorkers, JoinedWorkers, ClosedWorkers DEF EndTypeOK, Ended, Left, Shuttered
<1> QED BY <1>1 DEF Silent, SameSound, OnlyWorker

LEMMA AppendedSilent ==
    ASSUME EndTypeOK, NEW pt \in Nat \ {0}, workers' = Append(workers, NewWorker(pt)), snd' = snd,
           resampled' = resampled, rserv' # 0 => rserv # 0 \/ workers = <<>>
    PROVE  Silent
<1>1. /\ Len(workers') = Len(workers) + 1 /\ DOMAIN workers' = 1 .. Len(workers) + 1
      /\ Len(workers) \in Nat /\ workers'[Len(workers) + 1] = NewWorker(pt)
      /\ \A v \in 1 .. Len(workers) : workers'[v] = workers[v]
  BY NewWorkers DEF EndTypeOK
<1>2. \A w \in 1 .. Len(workers) + 1 : w \in 1 .. Len(workers) \/ w = Len(workers) + 1
  BY <1>1
<1>3. Len(workers) + 1 \notin 1 .. Len(workers)
  BY <1>1
<1> QED BY <1>1, <1>2, <1>3 DEF Silent, SameSound

ControlStep ==
    \/ Make \/ MakeFails \/ Update \/ ShutTake \/ ShutEnd \/ ShutJoin \/ ShutClose
    \/ \E p \in RtpParams : UpdateBegin(p)
    \/ \E w \in 1 .. Len(workers) : ProcCloses(w)

LEMMA ControlStepControl == EndTypeOK /\ Control /\ ControlStep => EndTypeOK' /\ Control'
BY MakeControl, UpdateBeginControl, UpdateEndControl, UpdateJoinControl, UpdateTargetControl,
   SwapCheckControl, SwapBindControl, SwapAimControl, SwapPutControl, SwapCloseControl,
   UpdateMakeControl, UpdateKeepControl, UpdateDropControl, StreamUpdateControl, ShutTakeControl,
   ShutEndControl, ShutJoinControl, ShutCloseControl, ProcClosesControl
   DEF ControlStep, Update

LEMMA ControlStepSilent == EndTypeOK /\ Control /\ ControlStep => Silent
<1> SUFFICES ASSUME EndTypeOK, Control, ControlStep PROVE Silent
  OBVIOUS
<1>0. ep.ptime \in Nat \ {0} /\ Len(workers) \in Nat
  BY DEF EndTypeOK, Asked
<1>1. CASE MakeFails
  BY <1>1, SameWorkersSilent DEF MakeFails, Attached
<1>2. CASE Make
  <2>1. workers = <<>>
    BY <1>2 DEF Make, Control, Opened
  <2>2. CASE ep.target = NoTarget
    BY <1>2, <2>1, <2>2, SameWorkersSilent DEF Make, Counters
  <2>3. CASE ep.target # NoTarget
    <3>1. workers' = Append(workers, NewWorker(ep.ptime))
      BY <1>2, <2>1, <2>3 DEF Make
    <3> QED BY <1>0, <1>2, <2>1, <3>1, AppendedSilent DEF Make, Counters
  <2> QED BY <2>2, <2>3
<1>3. CASE \E p \in RtpParams : UpdateBegin(p)
  BY <1>3, SameWorkersSilent DEF UpdateBegin
<1>4. CASE UpdateEnd
  <2>1. CASE upd.old = 0
    BY <1>4, <2>1, SameWorkersSilent DEF UpdateEnd, Attached, Counters
  <2>2. CASE upd.old # 0
    <3>1. PICK w \in 1 .. Len(workers) : w = upd.old
      BY <1>4, <2>2, Whereabouts DEF UpdateEnd, Control, Owned
    <3>2. workers' = WorkerEnded(w)
      BY <1>4, <2>2, <3>1 DEF UpdateEnd
    <3> QED BY <1>4, <3>2, OneWorkerSilent DEF UpdateEnd, Attached, Counters
  <2> QED BY <2>1, <2>2
<1>13. CASE UpdateJoin
  <2>1. PICK w \in 1 .. Len(workers) : w = upd.old
    BY <1>13, Whereabouts DEF UpdateJoin, Control, Owned
  <2>2. workers' = Joined(w)
    BY <1>13, <2>1 DEF UpdateJoin
  <2> QED BY <1>13, <2>2, OneWorkerSilent DEF UpdateJoin, Attached
<1>5. CASE SwapCheck \/ SwapClose \/ stream_update
  BY <1>5, SameWorkersSilent DEF SwapCheck, SwapClose, stream_update, Attached, Counters
<1>6. CASE UpdateTarget \/ SwapBind \/ SwapAim
  BY <1>6, SameWorkersSilent DEF UpdateTarget, SwapBind, SwapAim, Attached
<1>7. CASE SwapPut
  <2>1. rserv' # 0 => rserv # 0
    BY <1>7, Whereabouts DEF SwapPut, Swappable, Control, Opened
  <2> QED BY <1>7, <2>1, SameWorkersSilent DEF SwapPut, Counters
<1>8. CASE UpdateMake
  <2>1. CASE upd.need
    BY <1>0, <1>8, <2>1, AppendedSilent DEF UpdateMake, Attached, Counters
  <2>2. CASE ~upd.need
    BY <1>8, <2>2, SameWorkersSilent DEF UpdateMake, Attached, Counters
  <2> QED BY <2>1, <2>2
<1>9. CASE UpdateKeep
  <2>1. CASE rserv = 0 \/ ep.target = NoTarget
    <3>1. PICK w \in 1 .. Len(workers) : w = Len(workers)
      BY <1>0, <1>9 DEF UpdateKeep, Control, Owned
    <3>2. workers' = WorkerEnded(w)
      BY <1>9, <2>1, <3>1 DEF UpdateKeep
    <3> QED BY <1>9, <3>2, OneWorkerSilent DEF UpdateKeep, Counters
  <2>2. CASE ~(rserv = 0 \/ ep.target = NoTarget)
    BY <1>9, <2>2, SameWorkersSilent DEF UpdateKeep, Counters
  <2> QED BY <2>1, <2>2
<1>14. CASE UpdateDrop
  <2>1. PICK w \in 1 .. Len(workers) : w = Len(workers)
    BY <1>0, <1>14 DEF UpdateDrop, Control, Owned
  <2>2. workers' = Joined(w)
    BY <1>14, <2>1 DEF UpdateDrop
  <2> QED BY <1>14, <2>2, OneWorkerSilent DEF UpdateDrop, Attached
<1>10. CASE ShutTake
  BY <1>10, SameWorkersSilent DEF ShutTake
<1>11. CASE ShutEnd
  <2>1. CASE shut.writer = 0
    BY <1>11, <2>1, SameWorkersSilent DEF ShutEnd, Attached, Counters
  <2>2. CASE shut.writer # 0
    <3>1. PICK w \in 1 .. Len(workers) : w = shut.writer
      BY <1>11, <2>2, Whereabouts DEF ShutEnd, Control, Owned
    <3>2. workers' = WorkerEnded(w)
      BY <1>11, <2>2, <3>1 DEF ShutEnd
    <3> QED BY <1>11, <3>2, OneWorkerSilent DEF ShutEnd, Attached, Counters
  <2> QED BY <2>1, <2>2
<1>15. CASE ShutJoin
  <2>1. PICK w \in 1 .. Len(workers) : w = shut.writer
    BY <1>15, Whereabouts DEF ShutJoin, Control, Owned
  <2>2. workers' = Joined(w)
    BY <1>15, <2>1 DEF ShutJoin
  <2> QED BY <1>15, <2>2, OneWorkerSilent DEF ShutJoin, Attached
<1>12. CASE ShutClose
  BY <1>12, SameWorkersSilent DEF ShutClose, Attached, Counters
<1>16. CASE \E w \in 1 .. Len(workers) : ProcCloses(w)
  BY <1>16, OneWorkerSilent DEF ProcCloses, Attached, Counters
<1> QED BY <1>1, <1>2, <1>3, <1>4, <1>5, <1>6, <1>7, <1>8, <1>9, <1>10, <1>11, <1>12, <1>13,
           <1>14, <1>15, <1>16
        DEF ControlStep, Update

-----------------------------------------------------------------------------
(* Steps that play.                                                        *)

\* The step changes one worker, from o to r, and nothing of who owns what.
Plays(w, r) ==
    /\ w \in 1 .. Len(workers) /\ r \in Worker /\ SameControl(r, workers[w])
    /\ workers' = [workers EXCEPT ![w] = r]
    /\ UNCHANGED <<ep, writer, rserv, server, chan, refs, upd, shut, failed, leaked, kept>>

LEMMA PlaysControl ==
    ASSUME EndTypeOK, Control, NEW w, NEW r, Plays(w, r), resampled' \in BOOLEAN,
           snd' = <<>> \/ snd' \in (1 .. Len(workers)) \X Chunks
    PROVE  /\ EndTypeOK' /\ Control' /\ DOMAIN workers' = 1 .. Len(workers)
           /\ Len(workers) \in Nat /\ workers'[w] = r
           /\ \A v \in 1 .. Len(workers) : v # w => workers'[v] = workers[v]
<1>1. /\ workers \in Seq(Worker) /\ DOMAIN workers = 1 .. Len(workers) /\ Len(workers) \in Nat
      /\ w \in 1 .. Len(workers) /\ r \in Worker
  BY DEF EndTypeOK, Plays
<1>2. /\ workers' \in Seq(Worker) /\ Len(workers') = Len(workers)
      /\ DOMAIN workers' = 1 .. Len(workers) /\ workers'[w] = r
      /\ \A v \in 1 .. Len(workers) : v # w => workers'[v] = workers[v]
  BY <1>1 DEF Plays
<1>3. \A v \in 1 .. Len(workers) : SameControl(workers'[v], workers[v])
  BY <1>1, <1>2 DEF Plays, SameControl
<1>4. Control'
  BY <1>2, <1>3, ControlUnmoved DEF Plays
<1>5. EndTypeOK'
  BY <1>2 DEF EndTypeOK, Plays
<1> QED BY <1>1, <1>2, <1>4, <1>5

\* The other workers sound as before, if what is in hand is not theirs.
LEMMA PlaysSounding ==
    ASSUME EndTypeOK, Control, Sounding, NEW w, NEW r, Plays(w, r), resampled' \in BOOLEAN,
           snd' = <<>> \/ snd' \in (1 .. Len(workers)) \X Chunks,
           resampled => resampled',
           \A v \in 1 .. Len(workers) : v # w => InHand(v)' = InHand(v),
           Sounds(r, InHand(w)', rserv # 0, resampled'),
           ~resampled' /\ snd' # <<>> => snd'[2].rate = 1
    PROVE  EndTypeOK' /\ Control' /\ Sounding'
<1>1. /\ EndTypeOK' /\ Control' /\ DOMAIN workers' = 1 .. Len(workers)
      /\ Len(workers) \in Nat /\ workers'[w] = r
      /\ \A v \in 1 .. Len(workers) : v # w => workers'[v] = workers[v]
  BY PlaysControl
<1>2. rserv' = rserv /\ DOMAIN workers = 1 .. Len(workers)
  BY DEF Plays, EndTypeOK
<1>3. ASSUME NEW v \in 1 .. Len(workers)
      PROVE  Sounds(workers'[v], InHand(v)', rserv' # 0, resampled')
  <2>1. CASE v = w
    BY <1>1, <1>2, <2>1
  <2>2. CASE v # w
    <3>1. Sounds(workers[v], InHand(v), rserv # 0, resampled)
      BY <1>2, SoundingWorkers
    <3> QED BY <1>1, <1>2, <2>2, <3>1 DEF Sounds
  <2> QED BY <2>1, <2>2
<1> QED BY <1>1, <1>3 DEF Sounding, Sounds

LEMMA SoundCountSounding ==
    ASSUME EndTypeOK, Control, Sounding, NEW c \in Chunks, SoundCount(c)
    PROVE  EndTypeOK' /\ Control' /\ Sounding'
<1>0. PICK w \in 1 .. Len(workers) : w = writer
  BY Whereabouts DEF SoundCount, EndTypeOK
<1> DEFINE o == workers[w]
           r == [o EXCEPT !.rcvd = o.rcvd + c.n]
<1>1. w \in 1 .. Len(workers) /\ o \in Worker /\ snd = <<>> /\ c.n \in Nat
  BY RtpAssumption DEF SoundCount, Unlocked, EndTypeOK
<1>2. o.rcvd \in Int /\ o.prcsd \in Int /\ Frames(o.pend) \in Int /\ Frames(o.queue) \in Int
  BY <1>1, WorkerNumbers
<1>3. /\ r \in Worker /\ SameControl(r, o) /\ r.rcvd = o.rcvd + c.n /\ r.prcsd = o.prcsd
      /\ r.pend = o.pend /\ r.queue = o.queue /\ r.buf = o.buf /\ r.cb = o.cb /\ r.ptime = o.ptime
  <2> HIDE DEF o
  <2>1. PICK v \in Int : v = o.rcvd + c.n
    BY <1>1, <1>2
  <2>2. r = [o EXCEPT !.rcvd = v]
    BY <2>1
  <2> HIDE DEF r
  <2> QED BY <1>1, <2>1, <2>2 DEF Worker, SameControl
<1>4. workers' = [workers EXCEPT ![w] = r]
  BY <1>0, <1>1 DEF SoundCount, EndTypeOK
<1> HIDE DEF r
<1>5. Plays(w, r)
  BY <1>1, <1>3, <1>4 DEF Plays, SoundCount, Attached, Lost
<1>6. /\ snd' = <<writer, c>> /\ snd' \in (1 .. Len(workers)) \X Chunks /\ snd' # <<>>
      /\ resampled' \in BOOLEAN /\ (resampled' <=> resampled \/ c.rate # 1)
      /\ snd'[1] = w /\ snd'[2] = c
  BY <1>0, <1>1 DEF SoundCount
<1>7. \A v \in 1 .. Len(workers) : v # w => InHand(v)' = InHand(v)
  BY <1>1, <1>6 DEF InHand
<1>8. InHand(w)' = c.n /\ InHand(w) = 0
  BY <1>1, <1>6 DEF InHand
<1>9. Sounds(o, 0, rserv # 0, resampled)
  BY <1>1, <1>8, SoundingWorkers DEF EndTypeOK
<1> HIDE DEF o
<1>10. Sounds(r, c.n, rserv # 0, resampled')
  <2>1. Balanced(r, c.n)
    <3>1. o.rcvd = o.prcsd + Frames(o.pend) + Frames(o.queue) + 0
      BY <1>9 DEF Sounds, Balanced
    <3>2. \A t, u, v, x, y \in Int : t = u + v + x + 0 => t + y = u + v + x + y
      OBVIOUS
    <3>3. o.rcvd + c.n = o.prcsd + Frames(o.pend) + Frames(o.queue) + c.n
      BY <1>1, <1>2, <3>1, <3>2
    <3> QED BY <1>3, <3>3 DEF Balanced
  <2> QED BY <1>3, <1>6, <1>9, <2>1 DEF Sounds, Level
<1> QED BY <1>5, <1>6, <1>7, <1>8, <1>10, PlaysSounding

LEMMA SoundPutSounding ==
    ASSUME EndTypeOK, Control, Sounding, SoundPut PROVE EndTypeOK' /\ Control' /\ Sounding'
<1>0. PICK w \in 1 .. Len(workers), c \in Chunks : snd = <<w, c>>
  BY DEF SoundPut, Unlocked, EndTypeOK
<1> DEFINE o == workers[w]
           q == Append(o.queue, c)
           r == [o EXCEPT !.queue = q]
<1>1. w \in 1 .. Len(workers) /\ o \in Worker /\ snd # <<>> /\ c \in Chunks /\ c.n \in Nat
  BY <1>0, RtpAssumption DEF EndTypeOK
<1>2. /\ o.rcvd \in Int /\ o.prcsd \in Int /\ Frames(o.pend) \in Int /\ Frames(o.queue) \in Int
      /\ o.queue \in Seq(Chunks)
  BY <1>1, WorkerNumbers
<1>3. q \in Seq(Chunks) /\ Frames(q) = Frames(o.queue) + c.n
  BY <1>1, <1>2, ChunkNumbers, FramesAppend
<1>4. AtRate(o.queue) /\ c.rate = 1 => AtRate(q)
  <2>1. \A i \in DOMAIN q : q[i] = c \/ (i \in DOMAIN o.queue /\ q[i] = o.queue[i])
    BY <1>1, <1>2
  <2> QED BY <2>1 DEF AtRate
<1>5. workers' = [workers EXCEPT ![w] = r]
  BY <1>0, <1>1 DEF SoundPut, EndTypeOK
<1>6. InHand(w) = c.n /\ (\A v : InHand(v)' = 0) /\ (\A v \in 1 .. Len(workers) : v # w => InHand(v) = 0)
  <2>1. snd' = <<>>
    BY DEF SoundPut
  <2> QED BY <1>0, <1>1, <2>1 DEF InHand
<1>7. (~resampled => c.rate = 1) /\ Sounds(o, c.n, rserv # 0, resampled)
  BY <1>0, <1>1, <1>6, SoundingWorkers DEF EndTypeOK
<1> HIDE DEF q, o
<1>8. /\ r \in Worker /\ SameControl(r, o) /\ r.rcvd = o.rcvd /\ r.prcsd = o.prcsd
      /\ r.pend = o.pend /\ r.queue = q /\ r.buf = o.buf /\ r.cb = o.cb /\ r.ptime = o.ptime
  BY <1>1, <1>3 DEF Worker, SameControl
<1> HIDE DEF r
<1>9. Plays(w, r)
  BY <1>1, <1>5, <1>8 DEF Plays, SoundPut, Attached, Counters, Lost, o
<1>10. snd' = <<>> /\ resampled' = resampled /\ resampled \in BOOLEAN
  BY DEF SoundPut, Counters, EndTypeOK
<1>11. Sounds(r, 0, rserv # 0, resampled)
  <2>1. Balanced(r, 0)
    <3>1. o.rcvd = o.prcsd + Frames(o.pend) + Frames(o.queue) + c.n
      BY <1>7 DEF Sounds, Balanced
    <3>2. \A t, u, v, x, y \in Int : t = u + v + x + y => t = u + v + (x + y) + 0
      OBVIOUS
    <3>3. c.n \in Int
      BY <1>1
    <3>4. o.rcvd = o.prcsd + Frames(o.pend) + (Frames(o.queue) + c.n) + 0
      BY <1>2, <3>1, <3>2, <3>3
    <3> QED BY <1>3, <1>8, <3>4 DEF Balanced
  <2>2. r.cb # "dead" /\ rserv # 0 => Level(r)
    BY <1>7, <1>8 DEF Sounds, Level
  <2>3. ~resampled => AtRate(r.queue) /\ r.buf % r.ptime = 0
    BY <1>4, <1>7, <1>8 DEF Sounds
  <2> QED BY <2>1, <2>2, <2>3 DEF Sounds
<1>12. Sounds(r, InHand(w)', rserv # 0, resampled')
  BY <1>6, <1>10, <1>11
<1> QED BY <1>6, <1>9, <1>10, <1>12, PlaysSounding

LEMMA OneLessOf ==
    ASSUME NEW p \in Nat \ {0}, NEW x \in Int, x % p = 0 PROVE (x - p) % p = 0
<1>1. PICK a \in Int : x = p * a
  BY IsMultiple
<1>2. x - p = p * (a - 1) /\ a - 1 \in Int
  BY <1>1
<1>3. (p * (a - 1)) % p = 0
  BY <1>2, Multiple
<1> QED BY <1>2, <1>3

LEMMA ProcInSounding ==
    ASSUME EndTypeOK, Control, Sounding, NEW w \in 1 .. Len(workers), ProcIn(w)
    PROVE  EndTypeOK' /\ Control' /\ Sounding'
<1> DEFINE u == workers[w]
           o == Fill(u)
           h == InHand(w)
<1>1. u \in Worker /\ u.cb = "idle" /\ DOMAIN workers = 1 .. Len(workers)
  BY DEF EndTypeOK, ProcIn
<1>2. Goes(o, u)
  BY <1>1, Filled
<1>3. /\ snd' = snd /\ resampled' = resampled /\ resampled \in BOOLEAN
      /\ UNCHANGED <<ep, writer, rserv, server, chan, refs, upd, shut, failed, leaked, kept>>
  BY DEF ProcIn, Attached, Counters, Lost, EndTypeOK
<1>4. (snd' = <<>> \/ snd' \in (1 .. Len(workers)) \X Chunks) /\ \A v : InHand(v)' = InHand(v)
  BY <1>3 DEF EndTypeOK, InHand
<1>5. Sounds(u, h, rserv # 0, resampled)
  BY <1>1, SoundingWorkers
<1>6. /\ o \in Worker /\ SameControl(o, u) /\ o.cb = "idle" /\ o.rcvd = Stock(o) + h
      /\ rserv # 0 => Bytes(o.pend) = o.buf
      /\ ~resampled => AtRate(o.queue) /\ o.buf % o.ptime = 0
  <2>1. u.rcvd = Stock(u) + h
    BY <1>5 DEF Sounds, Balanced, Stock
  <2>2. rserv # 0 => Bytes(u.pend) = u.buf
    <3>1. u.buf \in Nat
      BY <1>1, WorkerNumbers
    <3>2. rserv # 0 => Bytes(u.pend) = u.buf + 0
      BY <1>1, <1>5 DEF Sounds, Level
    <3> QED BY <3>1, <3>2
  <2>3. ~resampled => AtRate(u.queue) /\ u.buf % u.ptime = 0
    BY <1>5 DEF Sounds
  <2> HIDE DEF u, o, h
  <2> QED BY <1>1, <1>2, <2>1, <2>2, <2>3 DEF Goes
<1>7. o.buf \in Nat /\ o.ptime \in Nat \ {0} /\ Bytes(o.pend) \in Int
  BY <1>6, WorkerNumbers
<1>8. ASSUME NEW cb \in {"idle", "send", "dead"}, NEW b \in Nat,
             workers' = [workers EXCEPT ![w] = [o EXCEPT !.buf = b, !.cb = cb]],
             cb = "dead" \/ o.buf = b + (IF cb = "send" THEN o.ptime ELSE 0),
             ~resampled => b % o.ptime = 0
      PROVE  EndTypeOK' /\ Control' /\ Sounding'
  <2> DEFINE r == [o EXCEPT !.buf = b, !.cb = cb]
  <2>1. /\ r \in Worker /\ SameControl(r, o) /\ r.cb = cb /\ r.buf = b /\ r.ptime = o.ptime
        /\ r.rcvd = o.rcvd /\ r.prcsd = o.prcsd /\ r.pend = o.pend /\ r.queue = o.queue
    <3> HIDE DEF o
    <3> QED BY <1>6 DEF Worker, SameControl
  <2>2. workers' = [workers EXCEPT ![w] = r]
    BY <1>8
  <2> HIDE DEF r, o, h
  <2>3. Plays(w, r)
    BY <1>3, <1>6, <2>1, <2>2 DEF Plays, SameControl, u
  <2>4. Sounds(r, h, rserv # 0, resampled)
    <3>1. Balanced(r, h)
      BY <1>6, <2>1 DEF Balanced, Stock
    <3>2. r.cb # "dead" /\ rserv # 0 => Level(r)
      BY <1>6, <1>8, <2>1 DEF Level
    <3>3. ~resampled => AtRate(r.queue) /\ r.buf % r.ptime = 0
      BY <1>6, <1>8, <2>1
    <3> QED BY <3>1, <3>2, <3>3 DEF Sounds
  <2>5. Sounds(r, InHand(w)', rserv # 0, resampled')
    BY <1>3, <1>4, <2>4 DEF h
  <2>6. ~resampled' /\ snd' # <<>> => snd'[2].rate = 1
    BY <1>3 DEF Sounding
  <2> QED BY <1>3, <1>4, <2>3, <2>5, <2>6, PlaysSounding
<1>9. CASE o.buf < o.ptime /\ workers' = [workers EXCEPT ![w] = o]
  <2>1. o = [o EXCEPT !.buf = o.buf, !.cb = "idle"]
    <3> HIDE DEF o
    <3> QED BY <1>6 DEF Worker
  <2>2. workers' = [workers EXCEPT ![w] = [o EXCEPT !.buf = o.buf, !.cb = "idle"]]
    BY <1>9, <2>1
  <2> HIDE DEF o
  <2>3. o.buf = o.buf + 0
    BY <1>7
  <2> QED BY <1>6, <1>7, <1>8, <2>2, <2>3
<1>10. CASE /\ o.buf >= o.ptime
            /\ workers' = [workers EXCEPT ![w] = [o EXCEPT !.buf = o.buf - o.ptime, !.cb = "send"]]
  <2> HIDE DEF o
  <2>1. o.buf - o.ptime \in Nat /\ o.buf = (o.buf - o.ptime) + o.ptime
    BY <1>7, <1>10
  <2>2. o.buf % o.ptime = 0 => (o.buf - o.ptime) % o.ptime = 0
    <3>1. o.buf \in Int
      BY <1>7
    <3> QED BY <1>7, <3>1, OneLessOf
  <2> QED BY <1>6, <1>7, <1>8, <1>10, <2>1, <2>2
<1>11. CASE \E cb \in {"idle", "dead"} : workers' = [workers EXCEPT ![w] = [o EXCEPT !.cb = cb]]
  <2>1. PICK cb \in {"idle", "dead"} : workers' = [workers EXCEPT ![w] = [o EXCEPT !.cb = cb]]
    BY <1>11
  <2> HIDE DEF o
  <2>2. [o EXCEPT !.cb = cb] = [o EXCEPT !.buf = o.buf, !.cb = cb]
    BY <1>6 DEF Worker
  <2>3. o.buf = o.buf + 0
    BY <1>7
  <2> QED BY <1>6, <1>7, <1>8, <2>1, <2>2, <2>3
<1> QED BY <1>9, <1>10, <1>11 DEF ProcIn

LEMMA SendPktSounding ==
    ASSUME EndTypeOK, Control, Sounding, NEW w \in 1 .. Len(workers), send_pkt(w)
    PROVE  EndTypeOK' /\ Control' /\ Sounding'
<1> DEFINE u == workers[w]
           h == InHand(w)
<1>1. u \in Worker /\ u.cb = "send" /\ DOMAIN workers = 1 .. Len(workers)
  BY DEF EndTypeOK, send_pkt
<1>2. /\ snd' = snd /\ resampled' = resampled /\ resampled \in BOOLEAN
      /\ UNCHANGED <<ep, writer, rserv, server, chan, refs, upd, shut, failed, leaked, kept>>
  BY DEF send_pkt, Attached, Counters, Lost, EndTypeOK
<1>3. (snd' = <<>> \/ snd' \in (1 .. Len(workers)) \X Chunks) /\ \A v : InHand(v)' = InHand(v)
  BY <1>2 DEF EndTypeOK, InHand
<1>4. Sounds(u, h, rserv # 0, resampled)
  BY <1>1, SoundingWorkers
<1>5. u.buf \in Nat /\ u.ptime \in Nat \ {0} /\ Bytes(u.pend) \in Int
  BY <1>1, WorkerNumbers
<1>6. ASSUME NEW x \in Worker, SameControl(x, u), x.rcvd = u.rcvd, Stock(x) = Stock(u), x.buf = u.buf,
             x.queue = u.queue, NEW cb \in {"idle", "dead"}, rserv # 0 => Bytes(x.pend) = x.buf,
             workers' = [workers EXCEPT ![w] = [x EXCEPT !.cb = cb]]
      PROVE  EndTypeOK' /\ Control' /\ Sounding'
  <2> DEFINE r == [x EXCEPT !.cb = cb]
  <2>1. /\ r \in Worker /\ SameControl(r, x) /\ r.cb = cb /\ r.buf = x.buf /\ r.ptime = x.ptime
        /\ r.rcvd = x.rcvd /\ r.prcsd = x.prcsd /\ r.pend = x.pend /\ r.queue = x.queue
    BY DEF Worker, SameControl
  <2>2. workers' = [workers EXCEPT ![w] = r]
    BY <1>6
  <2> HIDE DEF r
  <2>3. Plays(w, r)
    BY <1>2, <1>6, <2>1, <2>2 DEF Plays, SameControl
  <2> HIDE DEF u, h
  <2>4. Sounds(r, h, rserv # 0, resampled)
    <3>1. Balanced(r, h)
      <4>1. u.rcvd = Stock(u) + h
        BY <1>4 DEF Sounds, Balanced, Stock
      <4>2. x.rcvd = Stock(x) + h
        BY <1>6, <4>1
      <4> QED BY <2>1, <4>2 DEF Balanced, Stock
    <3>2. r.cb # "dead" /\ rserv # 0 => Level(r)
      <4>1. x.buf = x.buf + 0
        BY <1>5, <1>6
      <4> QED BY <1>6, <2>1, <4>1 DEF Level
    <3>3. ~resampled => AtRate(r.queue) /\ r.buf % r.ptime = 0
      BY <1>4, <1>6, <2>1 DEF Sounds, SameControl
    <3> QED BY <3>1, <3>2, <3>3 DEF Sounds
  <2>5. Sounds(r, InHand(w)', rserv # 0, resampled')
    BY <1>2, <1>3, <2>4 DEF h
  <2>6. ~resampled' /\ snd' # <<>> => snd'[2].rate = 1
    BY <1>2 DEF Sounding
  <2> QED BY <1>2, <1>3, <2>3, <2>5, <2>6, PlaysSounding
<1>7. CASE /\ rserv # 0
           /\ workers' = [workers EXCEPT ![w] = [MarkProcessed(u, u.ptime) EXCEPT !.cb = "idle"]]
  <2> DEFINE x == MarkProcessed(u, u.ptime)
  <2>1. Bytes(u.pend) = u.buf + u.ptime
    BY <1>1, <1>4, <1>7 DEF Sounds, Level
  <2>2. Bytes(u.pend) >= u.ptime
    <3> HIDE DEF u
    <3> QED BY <1>5, <2>1
  <2>3. /\ x \in Worker /\ SameControl(x, u) /\ x.rcvd = u.rcvd /\ x.queue = u.queue
        /\ x.buf = u.buf /\ Stock(x) = Stock(u) /\ Bytes(x.pend) = Bytes(u.pend) - u.ptime
    <3> HIDE DEF u
    <3> QED BY <1>1, <1>5, <2>2, Marked
  <2>4. Bytes(x.pend) = x.buf
    <3> HIDE DEF u, x
    <3> QED BY <1>5, <2>1, <2>3
  <2>5. workers' = [workers EXCEPT ![w] = [x EXCEPT !.cb = "idle"]]
    BY <1>7
  <2> HIDE DEF x, u
  <2> QED BY <1>6, <2>3, <2>4, <2>5
<1>8. CASE rserv = 0 /\ \E cb \in {"idle", "dead"} : workers' = [workers EXCEPT ![w].cb = cb]
  <2>1. PICK cb \in {"idle", "dead"} : workers' = [workers EXCEPT ![w].cb = cb]
    BY <1>8
  <2>2. workers' = [workers EXCEPT ![w] = [u EXCEPT !.cb = cb]]
    BY <1>1, <2>1
  <2>3. SameControl(u, u)
    BY DEF SameControl
  <2> HIDE DEF u
  <2> QED BY <1>1, <1>6, <1>8, <2>2, <2>3
<1> QED BY <1>7, <1>8 DEF send_pkt

-----------------------------------------------------------------------------
(* The input stream.                                                       *)

LEMMA ReceivedStreaming == ASSUME Streaming, rtp_received PROVE Streaming'
<1>1. /\ ins.last \in Int /\ ins.jb \in Int /\ ins.seq \in Nat /\ ins.obuf \in Nat /\ ins.got \in Nat
      /\ ins.given \in Nat /\ ins.asserted /\ ins.got = ins.given + ins.obuf
  BY DEF Streaming, StreamInOrder
<1>2. PICK n \in ins.seq .. MaxPackets - 1, frames \in Packets : ins' = PktProc(n, frames)
  BY DEF rtp_received
<1>3. n \in Nat /\ n >= ins.seq /\ frames \in Nat /\ OutChunk \in Nat \ {0}
  BY <1>1, RtpAssumption
<1> DEFINE gap == IF ins.jb = -1 THEN 0 ELSE n - ins.jb
           last == IF gap > 0 THEN n - 1 ELSE ins.last
           more == (gap + 1) * frames
           have == ins.obuf + more
           given == (have \div OutChunk) * OutChunk
           left == have % OutChunk
<1>4. gap \in Nat
  BY <1>1, <1>3 DEF Streaming
<1>5. last = -1 \/ n = last + 1
  <2>1. CASE ins.jb = -1
    BY <2>1 DEF Streaming
  <2>2. CASE ins.jb # -1
    BY <1>1, <1>3, <2>2 DEF Streaming
  <2> QED BY <2>1, <2>2
<1>6. ins' = [ins EXCEPT !.seq = n + 1, !.jb = n + 1, !.last = n,
                !.asserted = @ /\ (last = -1 \/ n = last + 1),
                !.got = @ + more,
                !.given = @ + given,
                !.obuf = left]
  BY <1>2 DEF PktProc
<1> HIDE DEF gap, last
<1>7. more \in Nat
  BY <1>3, <1>4
<1> HIDE DEF more
<1>8. have \in Nat
  BY <1>1, <1>7
<1>9. given \in Nat /\ left \in Nat /\ left < OutChunk /\ given + left = have
  <2> HIDE DEF have
  <2> QED BY <1>3, <1>8, WholeAndRest
<1> HIDE DEF given, left
<1>10. PICK g \in Nat, v \in Nat : g = ins.got + more /\ v = ins.given + given
  BY <1>1, <1>7, <1>9
<1>11. (ins.asserted /\ (last = -1 \/ n = last + 1)) = TRUE
  BY <1>1, <1>5
<1>12. ins' = [ins EXCEPT !.seq = n + 1, !.jb = n + 1, !.last = n, !.asserted = TRUE,
                          !.got = g, !.given = v, !.obuf = left]
  <2>1. ins' = [ins EXCEPT !.seq = n + 1, !.jb = n + 1, !.last = n,
                !.asserted = (ins.asserted /\ (last = -1 \/ n = last + 1)),
                !.got = ins.got + more,
                !.given = ins.given + given,
                !.obuf = left]
    BY <1>6 DEF Streaming
  <2> QED BY <1>10, <1>11, <2>1, Zenon
<1>13. g = v + left
  BY <1>1, <1>7, <1>9, <1>10
<1>14. n + 1 \in Nat /\ n + 1 \in Int /\ n \in Int /\ n + 1 # -1 /\ (n + 1) - 1 = n /\ n + 1 > 0
  BY <1>3
<1>15. /\ ins' \in [last : Int, jb : Int, seq : Nat, obuf : Nat, got : Nat, given : Nat,
                    asserted : BOOLEAN]
       /\ ins'.seq = n + 1 /\ ins'.jb = n + 1 /\ ins'.last = n /\ ins'.asserted
       /\ ins'.got = g /\ ins'.given = v /\ ins'.obuf = left
  BY <1>9, <1>12, <1>14 DEF Streaming
<1> QED BY <1>9, <1>13, <1>14, <1>15 DEF Streaming, StreamInOrder

LEMMA StreamUpdateStreaming == ASSUME Streaming, stream_update PROVE Streaming'
<1>1. ins' = [ins EXCEPT !.jb = -1, !.last = -1]
  BY DEF stream_update
<1>2. /\ ins' \in [last : Int, jb : Int, seq : Nat, obuf : Nat, got : Nat, given : Nat,
                   asserted : BOOLEAN]
      /\ ins'.jb = -1 /\ ins'.last = -1 /\ (ins'.asserted <=> ins.asserted)
      /\ ins'.got = ins.got /\ ins'.given = ins.given /\ ins'.obuf = ins.obuf
  <2>1. -1 \in Int
    OBVIOUS
  <2> QED BY <1>1, <2>1 DEF Streaming
<1> QED BY <1>2 DEF Streaming, StreamInOrder

LEMMA ControlStepStreaming == ASSUME Streaming, ControlStep PROVE Streaming'
<1>1. CASE stream_update
  BY <1>1, StreamUpdateStreaming
<1>2. CASE ins' = ins
  BY <1>2 DEF Streaming, StreamInOrder
<1>3. stream_update \/ ins' = ins
  BY DEF ControlStep, Update, Make, MakeFails, UpdateBegin, UpdateEnd, UpdateTarget, SwapCheck,
         SwapBind, SwapPut, SwapClose, UpdateMake, UpdateKeep, ShutTake, ShutEnd, ShutClose,
         UpdateJoin, SwapAim, UpdateDrop, ShutJoin, ProcCloses
<1> QED BY <1>1, <1>2, <1>3

-----------------------------------------------------------------------------
(* The end point.                                                          *)

LEMMA EndInit == RtpInit => EndInv
<1> SUFFICES ASSUME RtpInit PROVE EndInv
  OBVIOUS
<1>1. EndTypeOK
  <2>1. <<>> \in Seq(Channel) /\ <<>> \in Seq(Worker)
    OBVIOUS
  <2>2. refs \in [server : Nat, proc : Nat]
    BY RtpAssumption DEF RtpInit
  <2>3. server \in BOOLEAN /\ failed \in BOOLEAN /\ resampled \in BOOLEAN /\ kept \in BOOLEAN
    BY DEF RtpInit
  <2>4. rserv \in 0 .. Len(chan) /\ writer \in 0 .. Len(workers) /\ leaked \subseteq 1 .. Len(chan)
    BY DEF RtpInit
  <2>5. ep \in Asked
    BY AskedParams DEF RtpInit
  <2> QED BY <2>1, <2>2, <2>3, <2>4, <2>5, Zenon DEF RtpInit, EndTypeOK
<1>2. upd.pc = "new" /\ upd # Idle /\ upd \notin Updating /\ shut.pc = "idle" /\ shut = Idle
  BY DEF RtpInit, Idle, Updating
<1>3. Owned /\ Opened
  BY <1>2 DEF RtpInit, Owned, Opened
<1>4. Referred
  BY <1>2, RtpAssumption DEF RtpInit, Referred
<1>5. Following
  BY DEF RtpInit, Following
<1>6. Counted
  <2>1. {w \in DOMAIN workers : workers[w].ref} = {} /\ refs.proc = 0
    BY DEF RtpInit
  <2> QED BY <2>1, FS_EmptySet DEF Counted
<1>7. Sounding
  BY DEF RtpInit, Sounding
<1>8. Streaming
  BY RtpAssumption DEF RtpInit, NewStream, Streaming, StreamInOrder
<1> QED BY <1>1, <1>3, <1>4, <1>5, <1>6, <1>7, <1>8 DEF EndInv

LEMMA EndStep == EndInv /\ [RtpNext]_rtpVars => EndInv'
<1> SUFFICES ASSUME EndInv, [RtpNext]_rtpVars PROVE EndInv'
  OBVIOUS
<1>0. EndTypeOK /\ Control /\ Sounding /\ Streaming /\ DOMAIN workers = 1 .. Len(workers)
  BY Whereabouts DEF EndInv, Control
<1>1. CASE ControlStep
  <2>1. EndTypeOK' /\ Control'
    BY <1>0, <1>1, ControlStepControl
  <2>2. Sounding'
    BY <1>0, <1>1, ControlStepSilent, SilentSounding
  <2>3. Streaming'
    BY <1>0, <1>1, ControlStepStreaming
  <2> QED BY <2>1, <2>2, <2>3 DEF EndInv, Control
<1>2. CASE \/ \E c \in Chunks : SoundCount(c)
           \/ SoundPut
           \/ \E w \in DOMAIN workers : ProcIn(w) \/ send_pkt(w)
  <2>1. EndTypeOK' /\ Control' /\ Sounding'
    BY <1>0, <1>2, SoundCountSounding, SoundPutSounding, ProcInSounding, SendPktSounding
  <2>2. ins' = ins
    BY <1>2 DEF SoundCount, SoundPut, ProcIn, send_pkt
  <2>3. Streaming'
    BY <1>0, <2>2 DEF Streaming, StreamInOrder
  <2> QED BY <2>1, <2>3 DEF EndInv, Control
<1>3. CASE rtp_received \/ UNCHANGED rtpVars
  <2>1. UNCHANGED <<ep, writer, rserv, server, chan, workers, refs, upd, shut, snd, failed,
                    leaked, kept, resampled>>
    BY <1>3 DEF rtp_received, rtpVars, Attached, Counters, Lost
  <2>2. EndTypeOK'
    BY <1>0, <2>1 DEF EndTypeOK
  <2>3. Control'
    <3>1. \A w \in 1 .. Len(workers) : SameControl(workers'[w], workers[w])
      BY <2>1 DEF SameControl
    <3>2. workers' \in Seq(Worker) /\ Len(workers') = Len(workers)
      BY <1>0, <2>1 DEF EndTypeOK
    <3> QED BY <1>0, <2>1, <3>1, <3>2, ControlUnmoved
  <2>4. Sounding'
    BY <1>0, <2>1, SameWorkersSilent, SilentSounding
  <2>5. Streaming'
    <3>1. CASE rtp_received
      BY <1>0, <3>1, ReceivedStreaming
    <3>2. CASE UNCHANGED rtpVars
      BY <1>0, <3>2 DEF rtpVars, Streaming, StreamInOrder
    <3> QED BY <1>3, <3>1, <3>2
  <2> QED BY <2>2, <2>3, <2>4, <2>5 DEF EndInv, Control
<1> QED BY <1>1, <1>2, <1>3 DEF RtpNext, ControlStep

\* While there is a channel at most one worker has not ended: the one of the end point,
\* the one that update() will end, or the one that it has just made.
LEMMA EndOneStream == ASSUME EndInv PROVE OneStream
<1> SUFFICES ASSUME rserv # 0 PROVE ~(Cardinality(Live) > 1)
  BY DEF OneStream
<1>1. shut = Idle /\ shut.pc # "end" /\ DOMAIN workers = 1 .. Len(workers) /\ Len(workers) \in Nat
  BY Whereabouts DEF EndInv, Opened
<1>2. \A v, w \in Live : v = w
  <2> SUFFICES ASSUME NEW v \in Live, NEW w \in Live PROVE v = w
    OBVIOUS
  <2>1. v # 0 /\ w # 0 /\ ~workers[v].ended /\ ~workers[w].ended /\ v \in DOMAIN workers /\ w \in DOMAIN workers
    BY <1>1 DEF Live
  <2>2. (v = writer \/ (upd.pc = "end" /\ v = upd.old) \/ (upd.pc = "keep" /\ v = Len(workers)))
    BY <1>1, <2>1 DEF EndInv, Owned
  <2>3. (w = writer \/ (upd.pc = "end" /\ w = upd.old) \/ (upd.pc = "keep" /\ w = Len(workers)))
    BY <1>1, <2>1 DEF EndInv, Owned
  <2>4. upd.pc = "end" /\ upd.old # 0 => writer = 0
    BY DEF EndInv, Owned
  <2>5. upd.pc = "keep" => writer = 0
    BY Whereabouts DEF EndInv, Owned
  <2> QED BY <2>1, <2>2, <2>3, <2>4, <2>5
<1>3. CASE Live = {}
  BY <1>3, FS_EmptySet
<1>4. CASE Live # {}
  <2>1. PICK w : Live = {w}
    BY <1>2, <1>4
  <2>2. Cardinality({w}) = 1
    BY FS_Singleton
  <2> QED BY <2>1, <2>2
<1> QED BY <1>3, <1>4

LEMMA EndIsSound == EndInv => EndpointSound
<1> SUFFICES ASSUME EndInv PROVE EndpointSound
  OBVIOUS
<1>1. Accounted
  BY DEF EndInv, Sounding, Accounted, Balanced, Level
<1>2. WholePackets
  BY DEF EndInv, Sounding, WholePackets
<1>3. OneStream
  BY EndOneStream
<1>4. RefsExact
  BY DEF EndInv, Referred, Counted, RefsExact
<1>5. NothingLeft
  <2>0. kept \/ leaked # {} => failed
    BY DEF EndInv, Referred
  <2> SUFFICES ASSUME upd = Idle, shut = Idle, ~server
               PROVE  /\ writer = 0 /\ rserv = 0 /\ Live = {}
                      /\ \A c \in DOMAIN chan : chan[c].open => c \in leaked
    BY <2>0 DEF NothingLeft
  <2>1. upd.pc = "idle" /\ shut.pc = "idle" /\ rserv = 0 /\ writer = 0
    BY DEF EndInv, Opened, Idle
  <2>2. Live = {}
    <3>1. ASSUME NEW w \in Live PROVE FALSE
      BY <2>1, <3>1, Whereabouts DEF Live, EndInv, Owned
    <3> QED BY <3>1
  <2>3. ASSUME NEW c \in DOMAIN chan, chan[c].open PROVE c \in leaked
    BY <2>1, <2>3, Whereabouts DEF EndInv, Opened
  <2> QED BY <2>1, <2>2, <2>3
<1>6. Follows
  <2> SUFFICES ASSUME upd = Idle, server
               PROVE  /\ chan[rserv].open
                      /\ writer # 0 =>
                            workers[writer].open /\ ~workers[writer].ended /\ ep.target # NoTarget
                      /\ ~failed =>
                            /\ ep.target # NoTarget => writer # 0 /\ chan[rserv].target = ep.target
                            /\ writer # 0 => workers[writer].ptime = ep.ptime
                            /\ chan[rserv].proto = ep.proto
    BY DEF Follows
  <2>1. ~failed => /\ Fits(chan[rserv]) /\ (writer # 0 <=> ep.target # NoTarget)
                   /\ writer # 0 => workers[writer].ptime = ep.ptime
    BY DEF EndInv, Following
  <2>2. chan[rserv].open
    BY DEF EndInv, Opened
  <2>3. writer # 0 => workers[writer].open /\ ~workers[writer].ended /\ ep.target # NoTarget
    BY Whereabouts DEF EndInv, Owned, EndTypeOK
  <2> QED BY <2>1, <2>2, <2>3 DEF Fits
<1>7. StreamInOrder
  BY DEF EndInv, Streaming
<1> QED BY <1>1, <1>2, <1>3, <1>4, <1>5, <1>6, <1>7 DEF EndpointSound

\* The invariant holds of every behaviour of the end point, however update(), shutdown(),
\* soundout(), the processor and the server interleave.
THEOREM EndKeepsInv == RtpSpec => []EndInv
<1>1. RtpInit => EndInv
  BY EndInit
<1>2. EndInv /\ [RtpNext]_rtpVars => EndInv'
  BY EndStep
<1> QED BY <1>1, <1>2, PTL DEF RtpSpec

\* RTPEPoint, RTPOutputWorker and RTPInStream, setters, set_target() and join() that raise half
\* way included: every frame is accounted for, packets are whole at the codec's rate, the far
\* end hears one stream, references are exact but for the one of a shutdown() that raised,
\* nothing is left after shutdown() but the channels of calls that raised, what runs is what was
\* asked for until a call raises, and received frames stay in order.
THEOREM EndpointIsSound == RtpSpec => []EndpointSound
<1>1. EndInv => EndpointSound
  BY EndIsSound
<1> QED BY <1>1, EndKeepsInv, PTL
=============================================================================
