-------------------------- MODULE DeviceList_proofs --------------------------
(***************************************************************************)
(* Proofs about DeviceList, for any number of ports, device objects,       *)
(* contexts and references, and for both builds.                           *)
(*                                                                         *)
(* The argument.  The owners of a device, and so its references, are       *)
(* counted one by one only if no list has it twice: usb_devs and the list  *)
(* of a registration have it once (Once), and the pipe says only once that *)
(* it left, after usb_devs lost it (InOrder).  Then refcnt is at least the *)
(* number of owners, and exactly that for a device that is no stray        *)
(* (Counted).  A message of an arrival needs no reference: a listed device *)
(* has that of the list, and another one's departure comes later in the    *)
(* pipe and has it.  What a context that is not ready cannot have (Quiet), *)
(* and how devices are numbered (Numbers), give the rest.                  *)
(*                                                                         *)
(* That the list follows the bus (Watched) is a fact about the uevents of  *)
(* each port that are still to be read: the last one says what is plugged, *)
(* and where the list disagrees there is one that will change it.          *)
(***************************************************************************)
EXTENDS DeviceList, SequenceTheorems, FiniteSetTheorems, TLAPS

One(b)  == IF b THEN 1 ELSE 0
Once(s) == \A i, j \in 1..Len(s) : s[i] = s[j] => i = j

\* The devices that messages of a kind are about.
Of(kind, q) == {d \in Devs : \E i \in 1..Len(q) : q[i] = <<kind, d>>}

\* A device leaves once, and not while it is listed; one that arrived is listed or leaves later.
InOrder(q, listed) ==
    /\ \A i, j \in 1..Len(q) : q[i] = q[j] /\ q[i][1] = "left" => i = j
    /\ listed \cap Of("left", q) = {}
    /\ \A i \in 1..Len(q) : q[i][1] # "free" => q[i][2] \in Devs
    /\ \A i \in 1..Len(q) : q[i][1] = "arrived" =>
          q[i][2] \in listed \/ \E j \in (i + 1)..Len(q) : q[j] = <<"left", q[i][2]>>

Messages == {"arrived", "left", "free"} \X (0..MaxDevs)

------------------------------------------------------------------------------
(* Lists *)

\* What a list is made of.
LEMMA RangeFacts ==
    ASSUME NEW S, NEW s \in Seq(S)
    PROVE  /\ Len(s) \in Nat /\ DOMAIN s = 1..Len(s) /\ \A i \in 1..Len(s) : s[i] \in S
           /\ \A x : x \in Range(s) <=> \E i \in 1..Len(s) : s[i] = x
    BY LenProperties, ElementOfSeq DEF Range

\* A list without the element at place k.
Without(t, s, k) == /\ Len(s) = Len(t) + 1
                    /\ \A i \in 1..Len(t) : t[i] = IF i < k THEN s[i] ELSE s[i + 1]

\* A list without duplicates loses just that element.
LEMMA WithoutFacts ==
    ASSUME NEW S, NEW s \in Seq(S), NEW t \in Seq(S), NEW k \in 1..Len(s), Once(s), Without(t, s, k)
    PROVE  Once(t) /\ Range(t) = Range(s) \ {s[k]}
<1>1. Len(s) \in Nat /\ Len(t) \in Nat /\ k \in Nat /\ Len(s) = Len(t) + 1
    BY LenProperties DEF Without
<1>2. ASSUME NEW i \in 1..Len(t)
      PROVE  \E a \in 1..Len(s) : a # k /\ t[i] = s[a] /\ (IF i < k THEN a = i ELSE a = i + 1)
  <2>1. CASE i < k
      BY <1>1, <2>1 DEF Without
  <2>2. CASE ~(i < k)
      BY <1>1, <2>2 DEF Without
  <2>3. QED
      BY <2>1, <2>2
<1>3. Once(t)
  <2> SUFFICES ASSUME NEW i \in 1..Len(t), NEW j \in 1..Len(t), t[i] = t[j] PROVE i = j
      BY DEF Once
  <2>1. PICK a \in 1..Len(s) : t[i] = s[a] /\ (IF i < k THEN a = i ELSE a = i + 1)
      BY <1>2
  <2>2. PICK b \in 1..Len(s) : t[j] = s[b] /\ (IF j < k THEN b = j ELSE b = j + 1)
      BY <1>2
  <2>3. a = b
      BY <2>1, <2>2 DEF Once
  <2>4. QED
      BY <1>1, <2>1, <2>2, <2>3
<1>4. ASSUME NEW x, x \in Range(t) PROVE x \in Range(s) \ {s[k]}
  <2>1. PICK i \in 1..Len(t) : t[i] = x
      BY <1>4, RangeFacts
  <2>2. PICK a \in 1..Len(s) : a # k /\ t[i] = s[a]
      BY <1>2
  <2>3. x \in Range(s)
      BY <2>1, <2>2, RangeFacts
  <2>4. QED
      BY <2>1, <2>2, <2>3 DEF Once
<1>5. ASSUME NEW x, x \in Range(s) \ {s[k]} PROVE x \in Range(t)
  <2>1. PICK a \in 1..Len(s) : s[a] = x /\ a # k
      BY <1>5, RangeFacts
  <2>2. CASE a < k
    <3>1. a \in 1..Len(t) /\ t[a] = x
        BY <1>1, <2>1, <2>2 DEF Without
    <3>2. QED
        BY <3>1, RangeFacts
  <2>3. CASE ~(a < k)
    <3>1. a - 1 \in 1..Len(t) /\ ~(a - 1 < k) /\ (a - 1) + 1 = a
        BY <1>1, <2>1, <2>3
    <3>2. t[a - 1] = x
        BY <2>1, <3>1 DEF Without
    <3>3. QED
        BY <3>1, <3>2, RangeFacts
  <2>4. QED
      BY <2>2, <2>3
<1>6. QED
    BY <1>3, <1>4, <1>5

\* list_del.
LEMMA RemoveFacts ==
    ASSUME NEW S, NEW s \in Seq(S), NEW k \in 1..Len(s), Once(s)
    PROVE  /\ RemoveAt(s, k) \in Seq(S) /\ Once(RemoveAt(s, k))
           /\ Range(RemoveAt(s, k)) = Range(s) \ {s[k]}
<1> DEFINE a == SubSeq(s, 1, k - 1)
           b == SubSeq(s, k + 1, Len(s))
<1>1. Len(s) \in Nat /\ k \in Nat /\ \A i \in 1..Len(s) : s[i] \in S
    BY RangeFacts
<1>2. a \in Seq(S) /\ Len(a) = k - 1 /\ \A i \in 1..(k - 1) : a[i] = s[i]
    BY <1>1, SubSeqProperties
<1>3. b \in Seq(S) /\ Len(b) = Len(s) - k /\ \A i \in 1..(Len(s) - k) : b[i] = s[i + k]
    BY <1>1, SubSeqProperties
<1>4. RemoveAt(s, k) = a \o b
    BY DEF RemoveAt
<1> HIDE DEF a, b
<1>5. /\ a \o b \in Seq(S) /\ Len(a \o b) = Len(a) + Len(b)
      /\ \A i \in 1..(Len(a) + Len(b)) : (a \o b)[i] = IF i <= Len(a) THEN a[i] ELSE b[i - Len(a)]
    BY <1>2, <1>3, ConcatProperties
<1> DEFINE t == a \o b
<1>6. t \in Seq(S) /\ Without(t, s, k)
  <2>1. Len(t) = Len(s) - 1
      BY <1>1, <1>2, <1>3, <1>5
  <2>2. ASSUME NEW i \in 1..Len(t) PROVE t[i] = IF i < k THEN s[i] ELSE s[i + 1]
    <3>1. CASE i < k
        BY <1>1, <1>2, <1>3, <1>5, <2>1, <3>1
    <3>2. CASE ~(i < k)
      <4>1. t[i] = b[i - (k - 1)] /\ i - (k - 1) \in 1..(Len(s) - k) /\ (i - (k - 1)) + k = i + 1
          BY <1>1, <1>2, <1>3, <1>5, <2>1, <3>2
      <4>2. QED
          BY <1>3, <3>2, <4>1
    <3>3. QED
        BY <3>1, <3>2
  <2>3. QED
      BY <1>1, <1>5, <2>1, <2>2 DEF Without
<1> HIDE DEF t
<1>7. Once(t) /\ Range(t) = Range(s) \ {s[k]}
    BY <1>6, WithoutFacts
<1>8. QED
    BY <1>4, <1>6, <1>7 DEF t

\* Reading takes the first message.
LEMMA TailIsWithout ==
    ASSUME NEW S, NEW s \in Seq(S), s # <<>>
    PROVE  /\ Tail(s) \in Seq(S) /\ Head(s) = s[1] /\ 1 \in 1..Len(s) /\ Len(s) \in Nat
           /\ Len(Tail(s)) = Len(s) - 1 /\ \A i \in 1..Len(Tail(s)) : Tail(s)[i] = s[i + 1]
           /\ Without(Tail(s), s, 1)
<1>1. Tail(s) \in Seq(S) /\ Len(Tail(s)) = Len(s) - 1 /\ \A i \in 1..Len(Tail(s)) : Tail(s)[i] = s[i + 1]
    BY HeadTailProperties
<1>2. Len(s) \in Nat /\ Len(s) # 0 /\ Head(s) = s[1]
    BY LenProperties, EmptySeq
<1>3. QED
    BY <1>1, <1>2 DEF Without

\* list_add.
LEMMA PrependFacts ==
    ASSUME NEW S, NEW s \in Seq(S), NEW e \in S, e \notin Range(s), Once(s)
    PROVE  <<e>> \o s \in Seq(S) /\ Once(<<e>> \o s) /\ Range(<<e>> \o s) = Range(s) \cup {e}
<1> DEFINE a == <<e>>
           t == a \o s
<1>1. a \in Seq(S) /\ Len(a) = 1 /\ a[1] = e
    OBVIOUS
<1> HIDE DEF a
<1>2. t \in Seq(S) /\ Len(t) = 1 + Len(s) /\ \A i \in 1..Len(t) : t[i] = IF i <= 1 THEN a[i] ELSE s[i - 1]
  <2>1. /\ a \o s \in Seq(S) /\ Len(a \o s) = Len(a) + Len(s)
        /\ \A i \in 1..(Len(a) + Len(s)) : (a \o s)[i] = IF i <= Len(a) THEN a[i] ELSE s[i - Len(a)]
      BY <1>1, ConcatProperties
  <2>2. QED
      BY <1>1, <2>1
<1> HIDE DEF t
<1>3. Len(s) \in Nat
    BY LenProperties
<1>4. t[1] = e /\ 1 \in 1..Len(t)
    BY <1>1, <1>2, <1>3
<1>5. ASSUME NEW i \in 1..Len(t), i # 1
      PROVE  t[i] = s[i - 1] /\ i - 1 \in 1..Len(s) /\ t[i] # e
  <2>1. t[i] = s[i - 1] /\ i - 1 \in 1..Len(s)
      BY <1>2, <1>3, <1>5
  <2>2. s[i - 1] \in Range(s)
      BY <2>1, RangeFacts
  <2>3. QED
      BY <2>1, <2>2
<1>6. Once(t)
  <2> SUFFICES ASSUME NEW i \in 1..Len(t), NEW j \in 1..Len(t), t[i] = t[j] PROVE i = j
      BY DEF Once
  <2>1. CASE i = 1 \/ j = 1
      BY <1>4, <1>5, <2>1
  <2>2. CASE i # 1 /\ j # 1
    <3>1. i - 1 = j - 1
        BY <1>5, <2>2 DEF Once
    <3>2. QED
        BY <1>2, <1>3, <3>1
  <2>3. QED
      BY <2>1, <2>2
<1>7. ASSUME NEW x PROVE x \in Range(t) <=> x \in Range(s) \cup {e}
  <2>1. ASSUME x \in Range(t) PROVE x \in Range(s) \cup {e}
      BY <1>2, <1>4, <1>5, <2>1, RangeFacts
  <2>2. ASSUME x \in Range(s) PROVE x \in Range(t)
    <3>1. PICK i \in 1..Len(s) : s[i] = x
        BY <2>2, RangeFacts
    <3>2. i + 1 \in 1..Len(t) /\ i + 1 # 1 /\ (i + 1) - 1 = i
        BY <1>2, <1>3
    <3>3. t[i + 1] = x
        BY <1>5, <3>1, <3>2
    <3>4. QED
        BY <1>2, <3>2, <3>3, RangeFacts
  <2>3. e \in Range(t)
      BY <1>2, <1>4, RangeFacts
  <2>4. QED
      BY <2>1, <2>2, <2>3
<1>8. QED
    BY <1>2, <1>6, <1>7 DEF t, a

------------------------------------------------------------------------------
(* The hotplug pipe *)

\* t is q with m behind it.
Grown(t, q, m) == /\ Len(t) = Len(q) + 1 /\ t[Len(q) + 1] = m
                  /\ \A i \in 1..Len(q) : t[i] = q[i]

LEMMA AppendGrows ==
    ASSUME NEW S, NEW q \in Seq(S), NEW m \in S
    PROVE  Append(q, m) \in Seq(S) /\ Grown(Append(q, m), q, m) /\ Len(q) \in Nat
    BY AppendProperties, LenProperties DEF Grown

\* One more message is about one more device.
LEMMA OfGrown ==
    ASSUME NEW q, NEW t, NEW m, Grown(t, q, m), Len(q) \in Nat, NEW kind
    PROVE  Of(kind, t) = Of(kind, q) \cup {d \in Devs : m = <<kind, d>>}
<1>1. ASSUME NEW d \in Devs, NEW i \in 1..Len(t), t[i] = <<kind, d>>
      PROVE  d \in Of(kind, q) \/ m = <<kind, d>>
  <2>1. (i \in 1..Len(q) /\ t[i] = q[i]) \/ t[i] = m
      BY DEF Grown
  <2>2. QED
      BY <1>1, <2>1 DEF Of
<1>2. ASSUME NEW d \in Devs, NEW i \in 1..Len(q), q[i] = <<kind, d>>
      PROVE  d \in Of(kind, t)
  <2>1. i \in 1..Len(t) /\ t[i] = <<kind, d>>
      BY <1>2 DEF Grown
  <2>2. QED
      BY <2>1 DEF Of
<1>3. ASSUME NEW d \in Devs, m = <<kind, d>> PROVE d \in Of(kind, t)
  <2>1. Len(q) + 1 \in 1..Len(t) /\ t[Len(q) + 1] = <<kind, d>>
      BY <1>3 DEF Grown
  <2>2. QED
      BY <2>1 DEF Of
<1>4. QED
    BY <1>1, <1>2, <1>3 DEF Of

\* usbi_connect_device announces the device that it lists.
LEMMA Arrives ==
    ASSUME NEW q, NEW t, NEW d \in Devs, NEW listed, InOrder(q, listed), Len(q) \in Nat,
           Grown(t, q, <<"arrived", d>>), d \notin Of("left", q)
    PROVE  /\ InOrder(t, listed \cup {d}) /\ Of("left", t) = Of("left", q)
           /\ Of("arrived", t) = Of("arrived", q) \cup {d}
<1> DEFINE m == <<"arrived", d>>
<1>1. Of("left", t) = Of("left", q) /\ Of("arrived", t) = Of("arrived", q) \cup {d}
  <2>1. \A kind : Of(kind, t) = Of(kind, q) \cup {e \in Devs : m = <<kind, e>>}
      BY OfGrown
  <2>2. QED
      BY <2>1
<1>2. ASSUME NEW i \in 1..Len(t)
      PROVE  (i \in 1..Len(q) /\ t[i] = q[i]) \/ (i = Len(q) + 1 /\ t[i] = m)
    BY DEF Grown
<1>3. \A i, j \in 1..Len(t) : t[i] = t[j] /\ t[i][1] = "left" => i = j
  <2> SUFFICES ASSUME NEW i \in 1..Len(t), NEW j \in 1..Len(t), t[i] = t[j], t[i][1] = "left"
               PROVE  i = j
      OBVIOUS
  <2>1. i \in 1..Len(q) /\ t[i] = q[i]
      BY <1>2
  <2>2. j \in 1..Len(q) /\ t[j] = q[j]
      BY <1>2
  <2>3. QED
      BY <2>1, <2>2 DEF InOrder
<1>4. \A i \in 1..Len(t) : t[i][1] # "free" => t[i][2] \in Devs
    BY <1>2 DEF InOrder
<1>5. \A i \in 1..Len(t) : t[i][1] = "arrived" =>
          t[i][2] \in listed \cup {d} \/ \E j \in (i + 1)..Len(t) : t[j] = <<"left", t[i][2]>>
  <2> SUFFICES ASSUME NEW i \in 1..Len(t), t[i][1] = "arrived", t[i][2] \notin listed \cup {d}
               PROVE  \E j \in (i + 1)..Len(t) : t[j] = <<"left", t[i][2]>>
      OBVIOUS
  <2>1. i \in 1..Len(q) /\ t[i] = q[i]
      BY <1>2
  <2>2. PICK j \in (i + 1)..Len(q) : q[j] = <<"left", q[i][2]>>
      BY <2>1 DEF InOrder
  <2>3. j \in (i + 1)..Len(t) /\ j \in 1..Len(q)
      BY <2>1, <2>2 DEF Grown
  <2>4. QED
      BY <2>1, <2>2, <2>3 DEF Grown
<1>6. (listed \cup {d}) \cap Of("left", t) = {}
    BY <1>1 DEF InOrder
<1>7. QED
    BY <1>1, <1>3, <1>4, <1>5, <1>6 DEF InOrder

\* usbi_disconnect_device announces the device that it unlists.
LEMMA Leaves ==
    ASSUME NEW q, NEW t, NEW d \in Devs, NEW listed, InOrder(q, listed), Len(q) \in Nat,
           Grown(t, q, <<"left", d>>), d \in listed
    PROVE  /\ InOrder(t, listed \ {d}) /\ Of("left", t) = Of("left", q) \cup {d}
           /\ Of("arrived", t) = Of("arrived", q)
<1> DEFINE m == <<"left", d>>
<1>1. Of("left", t) = Of("left", q) \cup {d} /\ Of("arrived", t) = Of("arrived", q)
  <2>1. \A kind : Of(kind, t) = Of(kind, q) \cup {e \in Devs : m = <<kind, e>>}
      BY OfGrown
  <2>2. QED
      BY <2>1
<1>2. ASSUME NEW i \in 1..Len(t)
      PROVE  (i \in 1..Len(q) /\ t[i] = q[i]) \/ (i = Len(q) + 1 /\ t[i] = m)
    BY DEF Grown
<1>3. \A i \in 1..Len(q) : q[i] # m
    BY DEF InOrder, Of
<1>4. \A i, j \in 1..Len(t) : t[i] = t[j] /\ t[i][1] = "left" => i = j
  <2> SUFFICES ASSUME NEW i \in 1..Len(t), NEW j \in 1..Len(t), t[i] = t[j], t[i][1] = "left"
               PROVE  i = j
      OBVIOUS
  <2>1. CASE t[i] = m
      BY <1>2, <1>3, <2>1
  <2>2. CASE t[i] # m
    <3>1. i \in 1..Len(q) /\ t[i] = q[i] /\ j \in 1..Len(q) /\ t[j] = q[j]
        BY <1>2, <2>2
    <3>2. QED
        BY <3>1 DEF InOrder
  <2>3. QED
      BY <2>1, <2>2
<1>5. \A i \in 1..Len(t) : t[i][1] # "free" => t[i][2] \in Devs
    BY <1>2 DEF InOrder
<1>6. \A i \in 1..Len(t) : t[i][1] = "arrived" =>
          t[i][2] \in listed \ {d} \/ \E j \in (i + 1)..Len(t) : t[j] = <<"left", t[i][2]>>
  <2> SUFFICES ASSUME NEW i \in 1..Len(t), t[i][1] = "arrived", t[i][2] \notin listed \ {d}
               PROVE  \E j \in (i + 1)..Len(t) : t[j] = <<"left", t[i][2]>>
      OBVIOUS
  <2>1. i \in 1..Len(q) /\ t[i] = q[i]
      BY <1>2
  <2>2. CASE t[i][2] = d
    <3>1. Len(q) + 1 \in (i + 1)..Len(t) /\ t[Len(q) + 1] = m
        BY <2>1 DEF Grown
    <3>2. QED
        BY <2>2, <3>1
  <2>3. CASE t[i][2] # d
    <3>1. PICK j \in (i + 1)..Len(q) : q[j] = <<"left", q[i][2]>>
        BY <2>1, <2>3 DEF InOrder
    <3>2. j \in (i + 1)..Len(t) /\ j \in 1..Len(q)
        BY <2>1, <3>1 DEF Grown
    <3>3. QED
        BY <2>1, <3>1, <3>2 DEF Grown
  <2>4. QED
      BY <2>2, <2>3
<1>7. (listed \ {d}) \cap Of("left", t) = {}
    BY <1>1 DEF InOrder
<1>8. QED
    BY <1>1, <1>4, <1>5, <1>6, <1>7 DEF InOrder

\* libusb_hotplug_deregister_callback only wakes the reader.
LEMMA Wakes ==
    ASSUME NEW q, NEW t, NEW listed, InOrder(q, listed), Len(q) \in Nat,
           Grown(t, q, <<"free", 0>>)
    PROVE  /\ InOrder(t, listed) /\ Of("left", t) = Of("left", q)
           /\ Of("arrived", t) = Of("arrived", q)
<1> DEFINE m == <<"free", 0>>
<1>1. Of("left", t) = Of("left", q) /\ Of("arrived", t) = Of("arrived", q)
  <2>1. \A kind : Of(kind, t) = Of(kind, q) \cup {e \in Devs : m = <<kind, e>>}
      BY OfGrown
  <2>2. QED
      BY <2>1
<1>2. ASSUME NEW i \in 1..Len(t)
      PROVE  (i \in 1..Len(q) /\ t[i] = q[i]) \/ (i = Len(q) + 1 /\ t[i] = m)
    BY DEF Grown
<1>3. \A i, j \in 1..Len(t) : t[i] = t[j] /\ t[i][1] = "left" => i = j
  <2> SUFFICES ASSUME NEW i \in 1..Len(t), NEW j \in 1..Len(t), t[i] = t[j], t[i][1] = "left"
               PROVE  i = j
      OBVIOUS
  <2>1. i \in 1..Len(q) /\ t[i] = q[i] /\ j \in 1..Len(q) /\ t[j] = q[j]
      BY <1>2
  <2>2. QED
      BY <2>1 DEF InOrder
<1>4. \A i \in 1..Len(t) : t[i][1] # "free" => t[i][2] \in Devs
    BY <1>2 DEF InOrder
<1>5. \A i \in 1..Len(t) : t[i][1] = "arrived" =>
          t[i][2] \in listed \/ \E j \in (i + 1)..Len(t) : t[j] = <<"left", t[i][2]>>
  <2> SUFFICES ASSUME NEW i \in 1..Len(t), t[i][1] = "arrived", t[i][2] \notin listed
               PROVE  \E j \in (i + 1)..Len(t) : t[j] = <<"left", t[i][2]>>
      OBVIOUS
  <2>1. i \in 1..Len(q) /\ t[i] = q[i]
      BY <1>2
  <2>2. PICK j \in (i + 1)..Len(q) : q[j] = <<"left", q[i][2]>>
      BY <2>1 DEF InOrder
  <2>3. j \in (i + 1)..Len(t) /\ j \in 1..Len(q)
      BY <2>1, <2>2 DEF Grown
  <2>4. QED
      BY <2>1, <2>2, <2>3 DEF Grown
<1>6. QED
    BY <1>1, <1>3, <1>4, <1>5 DEF InOrder

\* The message at the head is read.
LEMMA Reads ==
    ASSUME NEW q \in Seq(Messages), q # <<>>, NEW listed, InOrder(q, listed)
    PROVE  /\ Tail(q) \in Seq(Messages) /\ InOrder(Tail(q), listed) /\ q[1] \in Messages
           /\ Of("left", Tail(q)) = Of("left", q) \ (IF q[1][1] = "left" THEN {q[1][2]} ELSE {})
           /\ Of("arrived", q) \subseteq Of("arrived", Tail(q))
                                        \cup (IF q[1][1] = "arrived" THEN {q[1][2]} ELSE {})
           /\ q[1][1] = "left" => q[1][2] \in Of("left", q)
           /\ q[1][1] # "free" => q[1][2] \in Devs
<1> DEFINE t == Tail(q)
<1>1. /\ t \in Seq(Messages) /\ 1 \in 1..Len(q) /\ Len(q) \in Nat /\ Len(t) = Len(q) - 1
      /\ \A i \in 1..Len(t) : t[i] = q[i + 1]
      /\ q[1] \in Messages
    BY TailIsWithout, ElementOfSeq
<1> HIDE DEF t
<1>2. ASSUME NEW i \in 1..Len(t) PROVE i + 1 \in 1..Len(q) /\ t[i] = q[i + 1] /\ i \in Nat
    BY <1>1
<1>3. ASSUME NEW i \in 1..Len(q), i # 1
      PROVE  i - 1 \in 1..Len(t) /\ q[i] = t[i - 1] /\ i \in Nat
    BY <1>1, <1>3
<1>4. \A i, j \in 1..Len(t) : t[i] = t[j] /\ t[i][1] = "left" => i = j
  <2> SUFFICES ASSUME NEW i \in 1..Len(t), NEW j \in 1..Len(t), t[i] = t[j], t[i][1] = "left"
               PROVE  i = j
      OBVIOUS
  <2>1. i + 1 = j + 1
      BY <1>2 DEF InOrder
  <2>2. QED
      BY <1>2, <2>1
<1>5. q[1] = <<q[1][1], q[1][2]>>
    BY <1>1 DEF Messages
<1>6. Of("left", t) = Of("left", q) \ (IF q[1][1] = "left" THEN {q[1][2]} ELSE {})
  <2>1. ASSUME NEW d \in Devs, NEW i \in 1..Len(t), t[i] = <<"left", d>>
        PROVE  d \in Of("left", q) /\ q[1] # <<"left", d>>
    <3>1. i + 1 \in 1..Len(q) /\ q[i + 1] = <<"left", d>> /\ i + 1 # 1
        BY <1>2, <2>1
    <3>2. d \in Of("left", q)
        BY <3>1 DEF Of
    <3>3. q[1] # <<"left", d>>
      <4>1. q[i + 1] = q[1] /\ q[i + 1][1] = "left" => i + 1 = 1
          BY <1>1, <3>1 DEF InOrder
      <4>2. QED
          BY <3>1, <4>1
    <3>4. QED
        BY <3>2, <3>3
  <2>2. ASSUME NEW d \in Devs, NEW i \in 1..Len(q), q[i] = <<"left", d>>, q[1] # <<"left", d>>
        PROVE  d \in Of("left", t)
    <3>1. i - 1 \in 1..Len(t) /\ t[i - 1] = <<"left", d>>
        BY <1>3, <2>2
    <3>2. QED
        BY <3>1 DEF Of
  <2>3. \A d : (q[1] = <<"left", d>>) <=> d \in (IF q[1][1] = "left" THEN {q[1][2]} ELSE {})
      BY <1>5
  <2>4. QED
      BY <2>1, <2>2, <2>3 DEF Of
<1>7. Of("arrived", q) \subseteq Of("arrived", t) \cup (IF q[1][1] = "arrived" THEN {q[1][2]} ELSE {})
  <2> SUFFICES ASSUME NEW d \in Devs, NEW i \in 1..Len(q), q[i] = <<"arrived", d>>,
                      q[1] # <<"arrived", d>>
               PROVE  d \in Of("arrived", t)
    <3>1. \A d : (q[1] = <<"arrived", d>>) => d \in (IF q[1][1] = "arrived" THEN {q[1][2]} ELSE {})
        BY <1>5
    <3>2. QED
        BY <3>1 DEF Of
  <2>1. i - 1 \in 1..Len(t) /\ t[i - 1] = <<"arrived", d>>
      BY <1>3
  <2>2. QED
      BY <2>1 DEF Of
<1>8. \A i \in 1..Len(t) : t[i][1] # "free" => t[i][2] \in Devs
    BY <1>2 DEF InOrder
<1>9. \A i \in 1..Len(t) : t[i][1] = "arrived" =>
          t[i][2] \in listed \/ \E j \in (i + 1)..Len(t) : t[j] = <<"left", t[i][2]>>
  <2> SUFFICES ASSUME NEW i \in 1..Len(t), t[i][1] = "arrived", t[i][2] \notin listed
               PROVE  \E j \in (i + 1)..Len(t) : t[j] = <<"left", t[i][2]>>
      OBVIOUS
  <2>1. i + 1 \in 1..Len(q) /\ t[i] = q[i + 1] /\ i \in Nat
      BY <1>2
  <2>2. PICK j \in ((i + 1) + 1)..Len(q) : q[j] = <<"left", q[i + 1][2]>>
      BY <2>1 DEF InOrder
  <2>3. j \in 1..Len(q) /\ j # 1 /\ j - 1 \in (i + 1)..Len(t)
      BY <1>1, <2>1, <2>2
  <2>4. t[j - 1] = <<"left", t[i][2]>>
      BY <1>3, <2>1, <2>2, <2>3
  <2>5. QED
      BY <2>3, <2>4
<1>10. listed \cap Of("left", t) = {}
    BY <1>6 DEF InOrder
<1>11. InOrder(t, listed)
    BY <1>4, <1>8, <1>9, <1>10 DEF InOrder
<1>12. q[1][1] = "left" => q[1][2] \in Of("left", q)
    BY <1>1, <1>5 DEF InOrder, Of
<1>13. q[1][1] # "free" => q[1][2] \in Devs
    BY <1>1 DEF InOrder
<1>14. QED
    BY <1>1, <1>6, <1>7, <1>11, <1>12, <1>13 DEF t

------------------------------------------------------------------------------
(* The inductive invariant *)

Departed == Of("left", hotplug_pipe)
Arriving == Of("arrived", hotplug_pipe)
Untold   == Range(registering.listing)

\* The references a device has: those of Owners, for lists without a device twice.
Users(d) == held[d] + handles[d] + One(opening.dev = d)
Refs(d)  == One(d \in Listed) + One(d \in Departed) + Users(d) + One(d \in Untold)

ObjectTypes ==
    /\ ctx \in {"none", "listed", "scanning", "scanned", "ready"}
    /\ born \in 0..MaxDevs /\ base \in 0..born /\ refcnt \in [Devs -> Nat]
    /\ attached \subseteq Devs /\ fd \subseteq Devs /\ port \in Seq(Ports)
    /\ usb_devs \in Seq(Devs) /\ hotplug_pipe \in Seq(Messages)
    /\ held \in [Devs -> Nat] /\ handles \in [Devs -> {0, 1}]
    /\ opening \in [dev : 0..MaxDevs, at : {"idle", "path", "gone"}]
    /\ cb \in {"none", "armed", "marked"}
    /\ registering \in [at : {"no", "added", "listed"}, listing : Seq(Devs)]
    /\ heard \subseteq Devs /\ strays \subseteq Devs
BusTypes ==
    /\ build \in {"android", "netlink"} /\ plugged \subseteq Ports /\ monitor \in BOOLEAN
    /\ uevents \in Seq({"add", "remove"} \X Ports) /\ refused \subseteq Ports
    /\ counts \in [inits : 0..MaxInits, uevents : 0..MaxUevents, defaults : 0..MaxInits,
                   users : 0..MaxInits]

\* No device is in a list twice, nor listed when a message says that it left.
Lists == Once(usb_devs) /\ Once(registering.listing) /\ InOrder(hotplug_pipe, Listed)

\* Devices are numbered from 1 on, those of this context from base + 1 on.
Numbers ==
    /\ Len(port) = born
    /\ Listed \subseteq (base + 1)..born /\ Departed \subseteq (base + 1)..born
    /\ Untold \subseteq 1..born /\ attached \subseteq 1..born /\ opening.dev <= born
    /\ \A d \in Devs : d > born => held[d] = 0 /\ handles[d] = 0
    /\ ctx # "none" => \A d \in (base + 1)..born : d \in attached <=> d \in Listed

\* What there is in each phase of the context.
Quiet ==
    /\ ctx # "ready" =>
          /\ hotplug_pipe = <<>> /\ opening = Idle /\ registering = Unregistering
          /\ cb = "none" /\ heard = {} /\ \A d \in Devs : handles[d] = 0
    /\ ctx = "none" => usb_devs = <<>>
Monitored ==
    /\ ctx = "none" => ~monitor /\ refused = {}
    /\ ctx = "listed" /\ ~monitor => usb_devs = <<>> /\ refused = {}
    /\ ctx \in {"scanning", "scanned", "ready"} => monitor = (build = "netlink")
    /\ monitor => build = "netlink"
    /\ ~monitor => uevents = <<>>

\* The calls in progress.
Calling ==
    /\ opening.dev = 0 <=> opening.at = "idle"
    /\ opening.dev # 0 => opening.dev > base /\ handles[opening.dev] = 0
    /\ registering.at \in {"no", "added"} => registering.listing = <<>>
    /\ registering.at # "no" => cb = "armed"
Counters == /\ counts.users + One(ctx \in {"listed", "scanning", "scanned"}) <= counts.defaults
            /\ counts.defaults <= counts.inits

\* Every reference is counted; what is counted beyond will never be dropped.
Counted == \A d \in Devs : refcnt[d] >= Refs(d) /\ (d \notin strays => refcnt[d] = Refs(d))

\* A callback is still to hear of the devices it does not know of.
Hears == cb = "armed" /\ registering.at # "added" => Listed \subseteq heard \cup Arriving \cup Untold

Core == ObjectTypes /\ Lists /\ Numbers /\ Quiet /\ Calling /\ Counted /\ Hears

LEMMA TypeParts == TypeOK <=> ObjectTypes /\ BusTypes
    BY DEF TypeOK, ObjectTypes, BusTypes, Messages

\* A device is made: it is listed, and so announced to a context that is ready.
LEMMA NewDeviceStep ==
    ASSUME Core, ctx # "none", NEW p \in Ports, NEW x \in {0, 1}, NEW withFd, NEW ok \in BOOLEAN,
           NewDevice(p, 1 + x, withFd, ok), held' = IF ok THEN [held EXCEPT ![born'] = x] ELSE held,
           UNCHANGED <<ctx, handles, opening, calls, strays>>
    PROVE  /\ Core' /\ (ok => Listed' = Listed \cup {born'}) /\ (~ok => usb_devs' = usb_devs)
           /\ born' \in Devs /\ born' = born + 1 /\ port'[born'] = p
           /\ \A d \in 1..born : port'[d] = port[d]
<1> USE DeviceListAssumption DEF DeviceListAssumption
<1>1. /\ born \in Nat /\ born < MaxDevs /\ born' = born + 1 /\ born' \in Devs /\ base' = base
      /\ base \in 0..born /\ base \in 0..born' /\ born' \in 0..MaxDevs
    BY DEF NewDevice, Core, ObjectTypes, Devs
<1>2. /\ born' \notin Listed /\ born' \notin Departed /\ born' \notin Untold /\ born' \notin attached
      /\ opening.dev # born' /\ held[born'] = 0 /\ handles[born'] = 0
    BY <1>1 DEF Core, Numbers, ObjectTypes
<1>3. /\ port' \in Seq(Ports) /\ Len(port') = born' /\ port'[born'] = p
      /\ \A d \in 1..born : port'[d] = port[d]
  <2>1. port \in Seq(Ports) /\ Len(port) = born /\ port' = Append(port, p)
      BY DEF NewDevice, Core, ObjectTypes, Numbers
  <2>2. QED
      BY <1>1, <2>1, AppendProperties
<1>4. CASE ok
  <2>1. usb_devs' \in Seq(Devs) /\ Once(usb_devs') /\ Listed' = Listed \cup {born'}
    <3>1. usb_devs \in Seq(Devs) /\ Once(usb_devs) /\ usb_devs' = <<born'>> \o usb_devs
        BY <1>4 DEF NewDevice, Core, ObjectTypes, Lists
    <3>2. QED
        BY <1>1, <1>2, <3>1, PrependFacts DEF Listed
  <2>2. /\ hotplug_pipe' \in Seq(Messages) /\ InOrder(hotplug_pipe', Listed')
        /\ Departed' = Departed /\ (ctx = "ready" => Arriving' = Arriving \cup {born'})
        /\ ctx # "ready" => hotplug_pipe' = hotplug_pipe
    <3>1. /\ hotplug_pipe \in Seq(Messages) /\ InOrder(hotplug_pipe, Listed)
          /\ hotplug_pipe' = Posted(<<"arrived", born'>>)
        BY <1>4 DEF NewDevice, Core, ObjectTypes, Lists
    <3>2. CASE ctx = "ready"
      <4>1. hotplug_pipe' = Append(hotplug_pipe, <<"arrived", born'>>) /\ <<"arrived", born'>> \in Messages
          BY <1>1, <3>1, <3>2 DEF Posted, Messages
      <4>2. /\ hotplug_pipe' \in Seq(Messages) /\ Len(hotplug_pipe) \in Nat
            /\ Grown(hotplug_pipe', hotplug_pipe, <<"arrived", born'>>)
          BY <3>1, <4>1, AppendGrows
      <4>3. /\ InOrder(hotplug_pipe', Listed \cup {born'})
            /\ Of("left", hotplug_pipe') = Of("left", hotplug_pipe)
            /\ Of("arrived", hotplug_pipe') = Of("arrived", hotplug_pipe) \cup {born'}
        <5>1. born' \notin Of("left", hotplug_pipe)
            BY <1>2 DEF Departed
        <5>2. born' \in Devs /\ InOrder(hotplug_pipe, Listed)
            BY <1>1, <3>1
        <5>3. QED
            BY <4>2, <5>1, <5>2, Arrives
      <4>4. QED
          BY <2>1, <3>2, <4>2, <4>3 DEF Departed, Arriving
    <3>3. CASE ctx # "ready"
      <4>1. hotplug_pipe' = hotplug_pipe /\ hotplug_pipe = <<>>
          BY <3>1, <3>3 DEF Posted, Core, Quiet
      <4>2. InOrder(<<>>, Listed')
          BY DEF InOrder, Of
      <4>3. QED
          BY <3>1, <3>3, <4>1, <4>2 DEF Departed
    <3>4. QED
        BY <3>2, <3>3
  <2>3. /\ UNCHANGED <<ctx, handles, opening, cb, registering, heard, strays>> /\ Untold' = Untold
        /\ refcnt' = [refcnt EXCEPT ![born'] = 1 + x] /\ held' = [held EXCEPT ![born'] = x]
        /\ attached' = attached \cup {born'} /\ fd' \in {fd, fd \cup {born'}}
      BY <1>4 DEF NewDevice, calls, Untold
  <2>4. ObjectTypes'
    <3>1. refcnt' \in [Devs -> Nat] /\ held' \in [Devs -> Nat]
        BY <1>1, <2>3 DEF Core, ObjectTypes
    <3>2. attached' \subseteq Devs /\ fd' \subseteq Devs
        BY <1>1, <2>3 DEF Core, ObjectTypes
    <3>3. QED
        BY <1>1, <1>3, <2>1, <2>2, <2>3, <3>1, <3>2 DEF Core, ObjectTypes
  <2>5. Lists'
      BY <2>1, <2>2, <2>3 DEF Core, Lists
  <2>6. Numbers'
    <3>1. \A d \in Devs : d > born' => held'[d] = 0 /\ handles'[d] = 0
      <4> SUFFICES ASSUME NEW d \in Devs, d > born' PROVE held'[d] = 0 /\ handles'[d] = 0
          OBVIOUS
      <4>1. d # born' /\ d > born /\ d \in Nat
          BY <1>1 DEF Devs
      <4>2. QED
          BY <2>3, <4>1 DEF Core, Numbers, ObjectTypes
    <3>2. \A d \in (base' + 1)..born' : d \in attached' <=> d \in Listed'
      <4> SUFFICES ASSUME NEW d \in (base + 1)..born', d # born'
                   PROVE  d \in attached <=> d \in Listed
          BY <1>1, <2>1, <2>3
      <4>1. d \in (base + 1)..born
          BY <1>1
      <4>2. QED
          BY <4>1 DEF Core, Numbers
    <3>3. Listed' \subseteq (base' + 1)..born' /\ Departed' \subseteq (base' + 1)..born'
        BY <1>1, <2>1, <2>2 DEF Core, Numbers
    <3>4. Untold' \subseteq 1..born' /\ attached' \subseteq 1..born' /\ opening.dev' <= born'
        BY <1>1, <2>3 DEF Core, Numbers, ObjectTypes
    <3>5. QED
        BY <1>3, <3>1, <3>2, <3>3, <3>4 DEF Numbers
  <2>7. Quiet' /\ Calling'
      BY <1>1, <1>2, <2>2, <2>3 DEF Core, Quiet, Calling
  <2>8. Counted'
    <3> SUFFICES ASSUME NEW d \in Devs
                 PROVE  refcnt'[d] >= Refs(d)' /\ (d \notin strays' => refcnt'[d] = Refs(d)')
        BY DEF Counted
    <3>1. refcnt[d] >= Refs(d) /\ (d \notin strays => refcnt[d] = Refs(d))
        BY DEF Core, Counted
    <3>2. CASE d = born'
        BY <1>1, <1>2, <2>1, <2>2, <2>3, <3>2 DEF Core, ObjectTypes, Refs, Users, One
    <3>3. CASE d # born'
        BY <1>1, <1>2, <2>1, <2>2, <2>3, <3>1, <3>3 DEF Core, ObjectTypes, Refs, Users, One
    <3>4. QED
        BY <3>2, <3>3
  <2>9. Hears'
      BY <2>1, <2>2, <2>3 DEF Core, Hears, Quiet
  <2>10. QED
      BY <1>1, <1>3, <1>4, <2>1, <2>4, <2>5, <2>6, <2>7, <2>8, <2>9 DEF Core
<1>5. CASE ~ok
  <2>1. /\ UNCHANGED <<ctx, handles, opening, cb, registering, heard, strays, usb_devs, hotplug_pipe,
                       held, attached, fd>>
        /\ refcnt' = [refcnt EXCEPT ![born'] = 0]
        /\ Untold' = Untold /\ Listed' = Listed /\ Departed' = Departed /\ Arriving' = Arriving
      BY <1>5 DEF NewDevice, calls, Untold, Listed, Departed, Arriving
  <2>2. ObjectTypes'
      BY <1>1, <1>3, <2>1 DEF Core, ObjectTypes
  <2>3. Lists' /\ Quiet' /\ Hears'
      BY <2>1 DEF Core, Lists, Quiet, Hears
  <2>4. Calling'
      BY <1>1, <2>1 DEF Core, Calling
  <2>5. Numbers'
    <3>1. /\ Listed \subseteq (base + 1)..born /\ Departed \subseteq (base + 1)..born
          /\ Untold \subseteq 1..born /\ attached \subseteq 1..born /\ opening.dev <= born
          /\ opening.dev \in Nat
        BY DEF Core, Numbers, ObjectTypes
    <3>2. \A d \in Devs : d > born' => held'[d] = 0 /\ handles'[d] = 0
        BY <1>1, <2>1 DEF Core, Numbers, Devs
    <3>3. ASSUME ctx # "none", NEW d \in (base + 1)..born' PROVE d \in attached <=> d \in Listed
        BY <1>1, <1>2, <3>3 DEF Core, Numbers
    <3>4. QED
        BY <1>1, <1>3, <2>1, <3>1, <3>2, <3>3 DEF Numbers
  <2>6. Counted'
    <3> SUFFICES ASSUME NEW d \in Devs
                 PROVE  refcnt'[d] >= Refs(d)' /\ (d \notin strays' => refcnt'[d] = Refs(d)')
        BY DEF Counted
    <3>1. refcnt[d] >= Refs(d) /\ (d \notin strays => refcnt[d] = Refs(d))
        BY DEF Core, Counted
    <3>2. CASE d = born'
        BY <1>1, <1>2, <2>1, <3>2 DEF Core, ObjectTypes, Refs, Users, One
    <3>3. CASE d # born'
        BY <1>1, <1>2, <2>1, <3>1, <3>3 DEF Core, ObjectTypes, Refs, Users, One
    <3>4. QED
        BY <3>2, <3>3
  <2>7. QED
      BY <1>1, <1>3, <1>5, <2>1, <2>2, <2>3, <2>4, <2>5, <2>6 DEF Core
<1>6. QED
    BY <1>4, <1>5

\* Only references come and go, with those who hold them.
LEMMA RefStep ==
    ASSUME Core, UNCHANGED <<ctx, born, base, attached, port, usb_devs, hotplug_pipe, calls>>,
           fd' \subseteq Devs, strays \subseteq strays', strays' \subseteq Devs,
           held' \in [Devs -> Nat], handles' \in [Devs -> {0, 1}], refcnt' \in [Devs -> Int],
           opening' \in [dev : 0..MaxDevs, at : {"idle", "path", "gone"}], opening'.dev <= born,
           \A d \in Devs : d > born => held'[d] = 0 /\ handles'[d] = 0,
           opening'.dev = 0 <=> opening'.at = "idle",
           opening'.dev # 0 => opening'.dev > base /\ handles'[opening'.dev] = 0,
           ctx # "ready" => opening' = Idle /\ handles' = handles,
           \A d \in Devs : /\ refcnt'[d] - Users(d)' >= refcnt[d] - Users(d)
                           /\ d \notin strays' => refcnt'[d] - Users(d)' = refcnt[d] - Users(d)
    PROVE  Core'
<1>1. /\ Listed' = Listed /\ Departed' = Departed /\ Arriving' = Arriving /\ Untold' = Untold
      /\ UNCHANGED <<ctx, born, base, attached, port, usb_devs, hotplug_pipe, cb, registering, heard>>
    BY DEF Listed, Departed, Arriving, Untold, calls
<1>2. ASSUME NEW d \in Devs
      PROVE  /\ refcnt'[d] \in Nat
             /\ refcnt'[d] >= Refs(d)' /\ (d \notin strays' => refcnt'[d] = Refs(d)')
  <2>1. refcnt[d] >= Refs(d) /\ (d \notin strays => refcnt[d] = Refs(d)) /\ refcnt[d] \in Nat
      BY DEF Core, Counted, ObjectTypes
  <2>2. Users(d) \in Nat /\ Users(d)' \in Nat /\ refcnt'[d] \in Int
    <3>1. held[d] \in Nat /\ handles[d] \in {0, 1}
        BY DEF Core, ObjectTypes
    <3>2. held'[d] \in Nat /\ handles'[d] \in {0, 1}
        OBVIOUS
    <3>3. One(opening.dev = d) \in Nat /\ One(opening'.dev = d) \in Nat
        BY DEF One
    <3>4. QED
        BY <3>1, <3>2, <3>3 DEF Users
  <2>3. \E a \in Nat : Refs(d) = a + Users(d) /\ Refs(d)' = a + Users(d)'
    <3> DEFINE a == One(d \in Listed) + One(d \in Departed) + One(d \in Untold)
    <3>1. a \in Nat /\ Refs(d) = a + Users(d) /\ Refs(d)' = a + Users(d)'
        BY <1>1, <2>2 DEF Refs, One
    <3>2. QED
        BY <3>1
  <2>4. PICK a \in Nat : Refs(d) = a + Users(d) /\ Refs(d)' = a + Users(d)'
      BY <2>3
  <2>5. /\ refcnt'[d] - Users(d)' >= refcnt[d] - Users(d)
        /\ d \notin strays' => refcnt'[d] - Users(d)' = refcnt[d] - Users(d) /\ d \notin strays
      OBVIOUS
  <2> HIDE DEF Refs, Users
  <2>6. QED
      BY <2>1, <2>2, <2>4, <2>5
<1>3. ObjectTypes'
  <2>1. refcnt' \in [Devs -> Nat]
      BY <1>2
  <2>2. QED
      BY <1>1, <2>1 DEF Core, ObjectTypes
<1>4. Lists' /\ Hears'
    BY <1>1 DEF Core, Lists, Hears
<1>5. Numbers'
    BY <1>1 DEF Core, Numbers
<1>6. Quiet' /\ Calling'
    BY <1>1 DEF Core, Quiet, Calling
<1>7. Counted'
    BY <1>2 DEF Counted
<1>8. QED
    BY <1>3, <1>4, <1>5, <1>6, <1>7 DEF Core

\* A device leaves: the reference of the list goes to the message, or is lost.
LEMMA DisconnectFacts ==
    ASSUME Core, NEW p, Known(p), Disconnected(p)
    PROVE  \E d \in Listed :
              /\ port[d] = p /\ attached' = attached \ {d} /\ Listed' = Listed \ {d}
              /\ usb_devs' \in Seq(Devs) /\ Once(usb_devs') /\ hotplug_pipe' \in Seq(Messages)
              /\ InOrder(hotplug_pipe', Listed') /\ Arriving' = Arriving
              /\ IF ctx = "ready" THEN Departed' = Departed \cup {d} /\ strays' = strays
                 ELSE hotplug_pipe' = hotplug_pipe /\ strays' = strays \cup {d}
<1>1. PICK i \in DOMAIN usb_devs : FoundAt(i, p) /\ Disconnect(i, usb_devs[i])
    BY DEF Disconnected
<1> DEFINE d == usb_devs[i]
<1>2. usb_devs \in Seq(Devs) /\ Once(usb_devs) /\ hotplug_pipe \in Seq(Messages)
      /\ InOrder(hotplug_pipe, Listed)
    BY DEF Core, ObjectTypes, Lists
<1>3. i \in 1..Len(usb_devs) /\ d \in Devs /\ d \in Listed
    BY <1>1, <1>2, RangeFacts DEF Listed
<1>4. usb_devs' \in Seq(Devs) /\ Once(usb_devs') /\ Listed' = Listed \ {d}
    BY <1>1, <1>2, <1>3, RemoveFacts DEF Disconnect, Listed
<1>5. port[d] = p /\ attached' = attached \ {d} /\ hotplug_pipe' = Posted(<<"left", d>>)
      /\ strays' = IF ctx = "ready" THEN strays ELSE strays \cup {d}
    BY <1>1 DEF FoundAt, Disconnect
<1> HIDE DEF d
<1>6. CASE ctx = "ready"
  <2>1. hotplug_pipe' = Append(hotplug_pipe, <<"left", d>>) /\ <<"left", d>> \in Messages
      BY <1>3, <1>5, <1>6, DeviceListAssumption DEF Posted, Messages, Devs, DeviceListAssumption
  <2>2. /\ hotplug_pipe' \in Seq(Messages) /\ Len(hotplug_pipe) \in Nat
        /\ Grown(hotplug_pipe', hotplug_pipe, <<"left", d>>)
      BY <1>2, <2>1, AppendGrows
  <2>3. /\ InOrder(hotplug_pipe', Listed \ {d})
        /\ Of("left", hotplug_pipe') = Of("left", hotplug_pipe) \cup {d}
        /\ Of("arrived", hotplug_pipe') = Of("arrived", hotplug_pipe)
      BY <1>2, <1>3, <2>2, Leaves
  <2>4. QED
      BY <1>3, <1>4, <1>5, <1>6, <2>2, <2>3 DEF Departed, Arriving
<1>7. CASE ctx # "ready"
  <2>1. hotplug_pipe' = hotplug_pipe /\ hotplug_pipe = <<>>
      BY <1>5, <1>7 DEF Posted, Core, Quiet
  <2>2. InOrder(<<>>, Listed')
      BY DEF InOrder, Of
  <2>3. hotplug_pipe' \in Seq(Messages) /\ InOrder(hotplug_pipe', Listed') /\ Arriving' = Arriving
      BY <1>2, <2>1, <2>2 DEF Arriving
  <2>4. QED
      BY <1>3, <1>4, <1>5, <1>7, <2>1, <2>3
<1>8. QED
    BY <1>6, <1>7

\* A device may leave, by itself or at the end of a libusb_open that found it gone.
LEMMA DisconnectStep ==
    ASSUME Core, NEW p, Disconnected(p), UNCHANGED <<ctx, held, handles, calls>>,
           \/ UNCHANGED <<refcnt, opening>>
           \/ /\ opening.at # "idle" /\ opening' = Idle
              /\ refcnt' = [refcnt EXCEPT ![opening.dev] = @ - 1]
    PROVE  /\ Core' /\ (~Known(p) => UNCHANGED <<usb_devs, attached, port>>)
           /\ Known(p) => \E d \in Listed : /\ port[d] = p /\ attached' = attached \ {d}
                                            /\ Listed' = Listed \ {d} /\ port' = port
<1>1. UNCHANGED <<ctx, held, handles, cb, registering, heard, born, base, port, fd>> /\ Untold' = Untold
  <2>1. CASE Known(p)
      BY <2>1 DEF Disconnected, Disconnect, calls, Untold
  <2>2. CASE ~Known(p)
      BY <2>2 DEF Disconnected, calls, Untold
  <2>3. QED
      BY <2>1, <2>2
<1>2. ASSUME NEW d \in Devs
      PROVE  /\ refcnt'[d] - Users(d)' = refcnt[d] - Users(d)
             /\ refcnt[d] \in Nat /\ refcnt'[d] \in Int /\ Users(d) \in Nat /\ Users(d)' \in Nat
  <2>1. /\ held[d] \in Nat /\ handles[d] \in Nat /\ d # 0
        /\ held' = held /\ handles' = handles /\ refcnt[d] \in Nat
      BY <1>1 DEF Core, ObjectTypes, Devs
  <2>2. CASE UNCHANGED <<refcnt, opening>>
      BY <2>1, <2>2 DEF Users, One
  <2>3. CASE /\ opening.at # "idle" /\ opening' = Idle
             /\ refcnt' = [refcnt EXCEPT ![opening.dev] = @ - 1]
    <3>1. refcnt \in [Devs -> Nat] /\ opening'.dev # d
        BY <2>1, <2>3 DEF Core, ObjectTypes, Idle
    <3>2. refcnt'[d] = refcnt[d] - One(opening.dev = d)
        BY <2>3, <3>1 DEF One
    <3>3. QED
        BY <2>1, <3>1, <3>2 DEF Users, One
  <2>4. QED
      BY <2>2, <2>3
<1>3. /\ opening' \in [dev : 0..MaxDevs, at : {"idle", "path", "gone"}] /\ opening'.dev <= born
      /\ opening'.dev = 0 <=> opening'.at = "idle"
      /\ opening'.dev # 0 => opening'.dev > base /\ handles'[opening'.dev] = 0
      /\ ctx # "ready" => opening' = Idle
      /\ \A d \in Devs : opening'.dev = d => opening.dev = d
  <2>1. DeviceListAssumption /\ born \in Nat /\ Idle.dev = 0 /\ Idle.at = "idle"
      BY DeviceListAssumption DEF Core, ObjectTypes, Idle
  <2>2. CASE opening' = Idle
    <3>1. Idle \in [dev : 0..MaxDevs, at : {"idle", "path", "gone"}] /\ Idle.dev <= born
        BY <2>1 DEF Idle, DeviceListAssumption
    <3>2. \A d \in Devs : opening'.dev # d
        BY <2>1, <2>2 DEF Devs
    <3>3. QED
        BY <2>1, <2>2, <3>1, <3>2
  <2>3. CASE opening' = opening
      BY <1>1, <2>3 DEF Core, ObjectTypes, Numbers, Calling, Quiet
  <2>4. QED
      BY <2>2, <2>3
<1>4. refcnt' \in [Devs -> Int]
    BY DEF Core, ObjectTypes
<1>5. CASE Known(p)
  <2>1. PICK d \in Listed :
              /\ port[d] = p /\ attached' = attached \ {d} /\ Listed' = Listed \ {d}
              /\ usb_devs' \in Seq(Devs) /\ Once(usb_devs') /\ hotplug_pipe' \in Seq(Messages)
              /\ InOrder(hotplug_pipe', Listed') /\ Arriving' = Arriving
              /\ IF ctx = "ready" THEN Departed' = Departed \cup {d} /\ strays' = strays
                 ELSE hotplug_pipe' = hotplug_pipe /\ strays' = strays \cup {d}
      BY <1>5, DisconnectFacts
  <2>2. d \in Devs /\ d \in (base + 1)..born /\ d \notin Departed
      BY RangeFacts DEF Core, ObjectTypes, Listed, Numbers, Lists, InOrder, Departed
  <2>3. /\ Departed' = IF ctx = "ready" THEN Departed \cup {d} ELSE Departed
        /\ strays' = IF ctx = "ready" THEN strays ELSE strays \cup {d}
      BY <2>1 DEF Departed
  <2>4. ASSUME NEW e \in Devs
        PROVE  refcnt'[e] >= Refs(e)' /\ (e \notin strays' => refcnt'[e] = Refs(e)')
    <3> DEFINE a == One(e \in Listed) + One(e \in Departed)
               b == One(e \in Listed') + One(e \in Departed')
    <3>1. a \in Nat /\ b \in Nat /\ b <= a /\ (e \notin strays' => a = b)
        BY <2>1, <2>2, <2>3 DEF One
    <3>2. /\ refcnt[e] >= Refs(e) /\ (e \notin strays => refcnt[e] = Refs(e))
          /\ e \notin strays' => e \notin strays
        BY <2>3 DEF Core, Counted
    <3>3. One(e \in Untold) \in Nat /\ Refs(e) = a + Users(e) + One(e \in Untold)
          /\ Refs(e)' = b + Users(e)' + One(e \in Untold)
        BY <1>1 DEF Refs, One
    <3> HIDE DEF a, b
    <3>4. QED
        BY <1>2, <3>1, <3>2, <3>3
  <2>5. ObjectTypes'
    <3>1. refcnt' \in [Devs -> Nat]
      <4>1. \A e \in Devs : Refs(e)' \in Nat
          BY <1>2 DEF Refs, One
      <4>2. \A e \in Devs : refcnt'[e] \in Nat
          BY <1>2, <2>4, <4>1
      <4>3. QED
          BY <1>4, <4>2
    <3>2. attached' \subseteq Devs /\ strays' \subseteq Devs
        BY <2>1, <2>2, <2>3 DEF Core, ObjectTypes
    <3>3. QED
        BY <1>1, <1>3, <2>1, <3>1, <3>2 DEF Core, ObjectTypes
  <2>6. Lists' /\ Hears'
      BY <1>1, <2>1 DEF Core, Lists, Hears
  <2>7. Numbers'
    <3>1. Listed' \subseteq (base' + 1)..born' /\ Departed' \subseteq (base' + 1)..born'
        BY <1>1, <2>1, <2>2, <2>3 DEF Core, Numbers
    <3>2. Untold' \subseteq 1..born' /\ attached' \subseteq 1..born' /\ Len(port') = born'
        BY <1>1, <2>1 DEF Core, Numbers
    <3>3. ctx' # "none" => \A e \in (base' + 1)..born' : e \in attached' <=> e \in Listed'
        BY <1>1, <2>1 DEF Core, Numbers
    <3>4. \A e \in Devs : e > born' => held'[e] = 0 /\ handles'[e] = 0
        BY <1>1 DEF Core, Numbers
    <3>5. QED
        BY <1>1, <1>3, <3>1, <3>2, <3>3, <3>4 DEF Numbers
  <2>8. Quiet' /\ Calling'
    <3>1. ctx # "none"
        BY <2>1, RangeFacts DEF Core, Quiet, ObjectTypes, Listed
    <3>2. QED
        BY <1>1, <1>3, <2>1, <3>1 DEF Core, Quiet, Calling
  <2>9. Counted'
      BY <2>4 DEF Counted
  <2>10. Core'
      BY <2>5, <2>6, <2>7, <2>8, <2>9 DEF Core
  <2>11. QED
      BY <1>1, <1>5, <2>1, <2>10
<1>6. CASE ~Known(p)
  <2>1. UNCHANGED <<attached, usb_devs, hotplug_pipe, strays>>
      BY <1>6 DEF Disconnected
  <2>2. /\ fd' \subseteq Devs /\ strays \subseteq strays' /\ strays' \subseteq Devs
        /\ held' \in [Devs -> Nat] /\ handles' \in [Devs -> {0, 1}]
        /\ \A d \in Devs : d > born => held'[d] = 0 /\ handles'[d] = 0
      BY <1>1, <2>1 DEF Core, ObjectTypes, Numbers
  <2>3. Core'
      BY <1>1, <1>2, <1>3, <1>4, <2>1, <2>2, RefStep DEF calls
  <2>4. QED
      BY <1>1, <1>6, <2>1, <2>3
<1>7. QED
    BY <1>5, <1>6

\* How many there are of what is there at most once.
LEMMA AtMostOne ==
    ASSUME NEW S, \A i, j \in S : i = j PROVE Cardinality(S) = One(S # {})
<1>1. CASE S = {}
    BY <1>1, FS_EmptySet DEF One
<1>2. CASE S # {}
  <2>1. PICK i \in S : S = {i}
      BY <1>2
  <2>2. QED
      BY <1>2, <2>1, FS_Singleton DEF One
<1>3. QED
    BY <1>1, <1>2

\* What is in a list once is counted once.
LEMMA CountedOnce ==
    ASSUME NEW s, Len(s) \in Nat, NEW x,
           \A i, j \in 1..Len(s) : s[i] = x /\ s[j] = x => i = j
    PROVE  Cardinality({i \in 1..Len(s) : s[i] = x}) = One(\E i \in 1..Len(s) : s[i] = x)
<1> DEFINE S == {i \in 1..Len(s) : s[i] = x}
<1>1. (\A i, j \in S : i = j) /\ (S # {} <=> \E i \in 1..Len(s) : s[i] = x)
    OBVIOUS
<1> HIDE DEF S
<1>2. Cardinality(S) = One(S # {})
    BY <1>1, AtMostOne
<1>3. QED
    BY <1>1, <1>2 DEF S, One

\* The references of messages are counted like the others.
LEMMA LeftOnce ==
    ASSUME Core, NEW d \in Devs PROVE LeftMessages(d) = One(d \in Departed)
<1>1. Len(hotplug_pipe) \in Nat
    BY LenProperties DEF Core, ObjectTypes
<1>2. \A i, j \in 1..Len(hotplug_pipe) :
          hotplug_pipe[i] = <<"left", d>> /\ hotplug_pipe[j] = <<"left", d>> => i = j
    BY DEF Core, Lists, InOrder
<1>3. LeftMessages(d) = One(\E i \in 1..Len(hotplug_pipe) : hotplug_pipe[i] = <<"left", d>>)
    BY <1>1, <1>2, CountedOnce DEF LeftMessages
<1>4. d \in Departed <=> \E i \in 1..Len(hotplug_pipe) : hotplug_pipe[i] = <<"left", d>>
    BY DEF Departed, Of
<1>5. QED
    BY <1>3, <1>4 DEF One

LEMMA NothingListed ==
    /\ Range(<<>>) = {} /\ Once(<<>>) /\ \A kind : Of(kind, <<>>) = {}
    /\ \A listed : InOrder(<<>>, listed)
    BY DEF Range, Once, Of, InOrder

\* The context ends.
LEMMA EndContextStep ==
    ASSUME Core, NEW drained \in BOOLEAN, EndContext(drained), opening = Idle,
           registering = Unregistering, handles' = [d \in Devs |-> 0],
           strays \subseteq strays', strays' \subseteq Devs,
           drained => \A d \in Devs : handles[d] = 0,
           ~drained => \A d \in Devs : handles[d] + LeftMessages(d) > 0 => d \in strays'
    PROVE  Core'
<1>1. /\ ctx' = "none" /\ usb_devs' = <<>> /\ hotplug_pipe' = <<>> /\ cb' = "none" /\ heard' = {}
      /\ UNCHANGED <<born, base, attached, port, fd, held, opening, registering>>
    BY DEF EndContext
<1>2. /\ Listed' = {} /\ Departed' = {} /\ Arriving' = {} /\ Untold' = {} /\ Untold = {}
      /\ Once(usb_devs') /\ Once(registering'.listing) /\ InOrder(hotplug_pipe', Listed')
  <2>1. registering.listing = <<>> /\ registering'.listing = <<>>
      BY <1>1 DEF Unregistering
  <2>2. QED
      BY <1>1, <2>1, NothingListed DEF Listed, Departed, Arriving, Untold
<1>3. ASSUME NEW d \in Devs
      PROVE  /\ refcnt'[d] \in Nat /\ refcnt'[d] >= Refs(d)'
             /\ d \notin strays' => refcnt'[d] = Refs(d)'
  <2>1. refcnt[d] \in Nat /\ held[d] \in Nat /\ handles[d] \in {0, 1} /\ d # 0
      BY DEF Core, ObjectTypes, Devs
  <2>2. refcnt'[d] = refcnt[d] - One(d \in Listed) - (IF drained THEN One(d \in Departed) ELSE 0)
      BY LeftOnce DEF EndContext, One
  <2>3. Refs(d)' = held[d]
      BY <1>1, <1>2, <2>1 DEF Refs, Users, One, Idle
  <2>4. Refs(d) = One(d \in Listed) + One(d \in Departed) + held[d] + handles[d]
      BY <1>2, <2>1 DEF Refs, Users, One, Idle
  <2>5. refcnt[d] >= Refs(d) /\ (d \notin strays' => refcnt[d] = Refs(d))
      BY DEF Core, Counted
  <2>6. drained => handles[d] = 0
      OBVIOUS
  <2>7. ~drained /\ d \notin strays' => One(d \in Departed) = 0 /\ handles[d] = 0
      BY <2>1, LeftOnce DEF One
  <2>8. One(d \in Listed) \in {0, 1} /\ One(d \in Departed) \in {0, 1}
      BY DEF One
  <2>9. QED
      BY <2>1, <2>2, <2>3, <2>4, <2>5, <2>6, <2>7, <2>8
<1>4. ObjectTypes'
  <2>1. refcnt' \in [Devs -> Nat]
      BY <1>3 DEF EndContext
  <2>2. usb_devs' \in Seq(Devs) /\ hotplug_pipe' \in Seq(Messages) /\ handles' \in [Devs -> {0, 1}]
      BY <1>1
  <2>3. QED
      BY <1>1, <2>1, <2>2 DEF Core, ObjectTypes
<1>5. Lists' /\ Hears'
    BY <1>1, <1>2 DEF Lists, Hears
<1>6. Numbers'
    BY <1>1, <1>2 DEF Core, Numbers
<1>7. Quiet'
    BY <1>1 DEF Quiet
<1>8. Calling'
    BY <1>1 DEF Core, Calling, Idle, Unregistering
<1>9. Counted'
    BY <1>3 DEF Counted
<1>10. QED
    BY <1>4, <1>5, <1>6, <1>7, <1>8, <1>9 DEF Core

LEMMA InitFailsStep == ASSUME Core, InitFails PROVE Core'
<1>1. /\ EndContext(TRUE) /\ opening = Idle /\ registering = Unregistering
      /\ strays' = strays /\ strays \subseteq Devs /\ handles' = handles
      /\ \A d \in Devs : handles[d] = 0
    BY DEF InitFails, Core, Quiet, ObjectTypes
<1>2. handles' = [d \in Devs |-> 0]
    BY <1>1 DEF Core, ObjectTypes
<1>3. QED
    BY <1>1, <1>2, EndContextStep

LEMMA ExitStep == ASSUME Core, Exit, ctx' # ctx PROVE Core'
<1>1. /\ EndContext(ReadsPipe) /\ opening = Idle /\ registering = Unregistering
      /\ handles' = [d \in Devs |-> 0]
      /\ strays' = IF ReadsPipe THEN strays
                   ELSE strays \cup {d \in Devs : handles[d] + LeftMessages(d) > 0}
    BY DEF Exit, ReadsPipe
<1>2. ReadsPipe \in BOOLEAN /\ (ReadsPipe => \A d \in Devs : handles[d] = 0) /\ strays \subseteq Devs
    BY DEF ReadsPipe, Core, ObjectTypes
<1>3. strays \subseteq strays' /\ strays' \subseteq Devs
      /\ (~ReadsPipe => \A d \in Devs : handles[d] + LeftMessages(d) > 0 => d \in strays')
    BY <1>1, <1>2
<1> HIDE DEF ReadsPipe
<1>4. QED
    BY <1>1, <1>2, <1>3, EndContextStep

\* The references of a device stay counted when a message or a registration drops its own.
LEMMA Settled ==
    ASSUME Core, NEW d \in Devs, refcnt'[d] \in Int, Listed' = Listed,
           UNCHANGED <<held, handles, opening, strays>>,
           refcnt'[d] - One(d \in Departed)' - One(d \in Untold)'
               = refcnt[d] - One(d \in Departed) - One(d \in Untold)
    PROVE  /\ refcnt'[d] \in Nat
           /\ refcnt'[d] >= Refs(d)' /\ (d \notin strays' => refcnt'[d] = Refs(d)')
<1> DEFINE l == One(d \in Listed)
           v == One(d \in Departed)
           w == One(d \in Untold)
           x == One(d \in Departed)'
           y == One(d \in Untold)'
           u == Users(d)
<1>1. l \in Nat /\ v \in Nat /\ w \in Nat /\ x \in Nat /\ y \in Nat
    BY DEF One
<1>2. u \in Nat
  <2>1. held[d] \in Nat /\ handles[d] \in {0, 1}
      BY DEF Core, ObjectTypes
  <2>2. One(opening.dev = d) \in Nat
      BY DEF One
  <2>3. QED
      BY <2>1, <2>2 DEF Users
<1>3. Refs(d) = l + v + u + w
    BY DEF Refs
<1>4. Refs(d)' = l + x + u + y
  <2>1. Users(d)' = u /\ One(d \in Listed)' = l
      BY DEF Users, One
  <2>2. QED
      BY <2>1 DEF Refs
<1>5. refcnt[d] >= Refs(d) /\ (d \notin strays => refcnt[d] = Refs(d)) /\ refcnt[d] \in Nat
    BY DEF Core, Counted, ObjectTypes
<1>6. refcnt'[d] - x - y = refcnt[d] - v - w /\ refcnt'[d] \in Int /\ strays' = strays
    OBVIOUS
<1> HIDE DEF l, v, w, x, y, u
<1>7. refcnt'[d] >= l + x + u + y /\ refcnt'[d] \in Nat
    BY <1>1, <1>2, <1>3, <1>5, <1>6
<1>8. d \notin strays => refcnt'[d] = l + x + u + y
    BY <1>1, <1>2, <1>3, <1>5, <1>6
<1>9. QED
    BY <1>4, <1>6, <1>7, <1>8

\* Only the calls in progress, the pipe and who knows of a device change.
LEMMA CallStep ==
    ASSUME Core, ctx = "ready",
           UNCHANGED <<ctx, born, base, attached, port, fd, usb_devs, held, handles, opening, strays>>,
           hotplug_pipe' \in Seq(Messages), InOrder(hotplug_pipe', Listed),
           Departed' \subseteq Departed,
           cb' \in {"none", "armed", "marked"}, heard' \subseteq Devs,
           registering' \in [at : {"no", "added", "listed"}, listing : Seq(Devs)],
           Once(registering'.listing), Untold' \subseteq 1..born,
           registering'.at \in {"no", "added"} => registering'.listing = <<>>,
           registering'.at # "no" => cb' = "armed",
           Hears', refcnt' \in [Devs -> Int],
           \A d \in Devs : refcnt'[d] - One(d \in Departed)' - One(d \in Untold)'
                               = refcnt[d] - One(d \in Departed) - One(d \in Untold)
    PROVE  Core'
<1>1. Listed' = Listed
    BY DEF Listed
<1>2. ASSUME NEW d \in Devs
      PROVE  /\ refcnt'[d] \in Nat
             /\ refcnt'[d] >= Refs(d)' /\ (d \notin strays' => refcnt'[d] = Refs(d)')
    BY <1>1, Settled
<1>3. ObjectTypes'
  <2>1. refcnt' \in [Devs -> Nat]
      BY <1>2
  <2>2. QED
      BY <2>1 DEF Core, ObjectTypes
<1>4. Lists'
    BY <1>1 DEF Core, Lists
<1>5. Numbers'
    BY <1>1 DEF Core, Numbers
<1>6. Quiet' /\ Calling'
    BY DEF Core, Quiet, Calling
<1>7. Counted'
    BY <1>2 DEF Counted
<1>8. QED
    BY <1>3, <1>4, <1>5, <1>6, <1>7 DEF Core

LEMMA HandleMessageStep ==
    ASSUME Core, NEW done \in BOOLEAN, HandleMessage(done) PROVE Core'
<1> DEFINE event == hotplug_pipe[1][1]
           d     == hotplug_pipe[1][2]
<1>1. hotplug_pipe \in Seq(Messages) /\ hotplug_pipe # <<>> /\ InOrder(hotplug_pipe, Listed)
    BY DEF HandleMessage, Core, ObjectTypes, Lists
<1>2. /\ Tail(hotplug_pipe) \in Seq(Messages) /\ InOrder(Tail(hotplug_pipe), Listed)
      /\ hotplug_pipe[1] \in Messages
      /\ Of("left", Tail(hotplug_pipe)) = Of("left", hotplug_pipe) \ (IF event = "left" THEN {d} ELSE {})
      /\ Of("arrived", hotplug_pipe) \subseteq Of("arrived", Tail(hotplug_pipe))
                                               \cup (IF event = "arrived" THEN {d} ELSE {})
      /\ event = "left" => d \in Of("left", hotplug_pipe)
      /\ event # "free" => d \in Devs
    BY <1>1, Reads
<1>3. Head(hotplug_pipe) = hotplug_pipe[1]
    BY <1>1, TailIsWithout
<1> HIDE DEF event, d
<1>4. /\ ctx = "ready" /\ hotplug_pipe' = Tail(hotplug_pipe)
      /\ done => cb = "armed" /\ registering = Unregistering
      /\ cb' = IF cb = "marked" \/ done THEN "none" ELSE cb
      /\ heard' = CASE cb = "armed" /\ event = "arrived" -> heard \cup {d}
                    [] cb = "armed" /\ event = "left"    -> heard \ {d}
                    [] OTHER                             -> heard
      /\ refcnt' = IF event = "left" THEN [refcnt EXCEPT ![d] = @ - 1] ELSE refcnt
      /\ UNCHANGED <<ctx, born, base, attached, port, fd, usb_devs, held, handles, opening, strays,
                     registering>>
    BY <1>3 DEF HandleMessage, users, event, d
<1>5. /\ Departed' = Departed \ (IF event = "left" THEN {d} ELSE {})
      /\ Arriving \subseteq Arriving' \cup (IF event = "arrived" THEN {d} ELSE {})
      /\ event = "left" => d \in Departed
      /\ Listed' = Listed /\ Untold' = Untold
      /\ hotplug_pipe' \in Seq(Messages) /\ InOrder(hotplug_pipe', Listed)
    BY <1>2, <1>4 DEF Departed, Arriving, Listed, Untold
<1>6. cb' \in {"none", "armed", "marked"} /\ (cb' = "armed" => cb = "armed")
      /\ (registering'.at # "no" => cb' = "armed")
    BY <1>4 DEF Core, ObjectTypes, Calling, Unregistering
<1>7. heard' \subseteq Devs
    BY <1>2, <1>4 DEF Core, ObjectTypes
<1>8. Hears'
  <2> SUFFICES ASSUME cb' = "armed", registering.at # "added", NEW e \in Listed
               PROVE  e \in heard' \cup Arriving' \cup Untold'
      BY <1>4, <1>5 DEF Hears
  <2>1. cb = "armed" /\ e \in heard \cup Arriving \cup Untold
      BY <1>6 DEF Core, Hears
  <2>2. event = "left" => e # d
      BY <1>5 DEF Core, Lists, InOrder, Departed
  <2>3. QED
      BY <1>4, <1>5, <2>1, <2>2
<1>9. /\ registering' \in [at : {"no", "added", "listed"}, listing : Seq(Devs)]
      /\ Once(registering'.listing) /\ Untold' \subseteq 1..born
      /\ registering'.at \in {"no", "added"} => registering'.listing = <<>>
    BY <1>4, <1>5 DEF Core, ObjectTypes, Lists, Numbers, Calling
<1>10. /\ refcnt' \in [Devs -> Int]
       /\ \A e \in Devs : refcnt'[e] - One(e \in Departed)' - One(e \in Untold)'
                               = refcnt[e] - One(e \in Departed) - One(e \in Untold)
    BY <1>2, <1>4, <1>5 DEF Core, ObjectTypes, One
<1>11. QED
    BY <1>4, <1>5, <1>6, <1>7, <1>8, <1>9, <1>10, CallStep

LEMMA DeregisterStep == ASSUME Core, Deregister PROVE Core'
<1>1. hotplug_pipe \in Seq(Messages) /\ InOrder(hotplug_pipe, Listed)
    BY DEF Core, ObjectTypes, Lists
<1>2. /\ ctx = "ready" /\ cb' = "marked" /\ hotplug_pipe' = Append(hotplug_pipe, <<"free", 0>>)
      /\ registering = Unregistering
      /\ UNCHANGED <<ctx, born, base, attached, port, fd, usb_devs, held, handles, opening, strays,
                     registering, heard, refcnt>>
    BY DEF Deregister, AppIdle, Posted, users
<1>3. <<"free", 0>> \in Messages
    BY DeviceListAssumption DEF DeviceListAssumption, Messages
<1>4. /\ hotplug_pipe' \in Seq(Messages) /\ Len(hotplug_pipe) \in Nat
      /\ Grown(hotplug_pipe', hotplug_pipe, <<"free", 0>>)
    BY <1>1, <1>2, <1>3, AppendGrows
<1>5. InOrder(hotplug_pipe', Listed) /\ Departed' = Departed
    BY <1>1, <1>4, Wakes DEF Departed
<1>6. /\ registering' \in [at : {"no", "added", "listed"}, listing : Seq(Devs)]
      /\ Once(registering'.listing) /\ Untold' \subseteq 1..born /\ Untold' = Untold
      /\ registering'.at = "no" /\ registering'.listing = <<>>
      /\ heard' \subseteq Devs /\ refcnt' \in [Devs -> Int]
    BY <1>2 DEF Core, ObjectTypes, Lists, Numbers, Untold, Unregistering
<1>7. Hears'
    BY <1>2 DEF Hears
<1>8. \A e \in Devs : refcnt'[e] - One(e \in Departed)' - One(e \in Untold)'
                               = refcnt[e] - One(e \in Departed) - One(e \in Untold)
    BY <1>2, <1>5, <1>6 DEF One
<1>9. QED
    BY <1>2, <1>4, <1>5, <1>6, <1>7, <1>8, CallStep

LEMMA RegisterStep == ASSUME Core, Register PROVE Core'
<1>1. /\ ctx = "ready" /\ cb' = "armed" /\ heard' = {} /\ registering = Unregistering
      /\ registering' = [at |-> "added", listing |-> <<>>]
      /\ UNCHANGED <<ctx, born, base, attached, port, fd, usb_devs, held, handles, opening, strays,
                     hotplug_pipe, refcnt>>
    BY DEF Register, AppIdle, users, objects, ArmedFirst
<1>2. /\ Untold' = {} /\ Untold = {} /\ Once(registering'.listing) /\ Departed' = Departed
      /\ registering' \in [at : {"no", "added", "listed"}, listing : Seq(Devs)]
  <2>1. registering'.listing = <<>> /\ registering.listing = <<>>
      BY <1>1 DEF Unregistering
  <2>2. QED
      BY <1>1, <2>1, NothingListed DEF Untold, Departed
<1>3. /\ hotplug_pipe' \in Seq(Messages) /\ InOrder(hotplug_pipe', Listed)
      /\ refcnt' \in [Devs -> Int]
    BY <1>1 DEF Core, ObjectTypes, Lists
<1>4. Hears'
    BY <1>1 DEF Hears
<1>5. \A e \in Devs : refcnt'[e] - One(e \in Departed)' - One(e \in Untold)'
                               = refcnt[e] - One(e \in Departed) - One(e \in Untold)
    BY <1>1, <1>2 DEF One
<1>6. QED
    BY <1>1, <1>2, <1>3, <1>4, <1>5, CallStep

LEMMA ListForCallbackStep == ASSUME Core, ListForCallback PROVE Core'
<1>1. /\ registering.at = "added" /\ registering' = [at |-> "listed", listing |-> usb_devs]
      /\ refcnt' = [d \in Devs |-> refcnt[d] + (IF d \in Listed THEN 1 ELSE 0)]
      /\ UNCHANGED <<ctx, born, base, attached, port, fd, usb_devs, held, handles, opening, strays,
                     hotplug_pipe, cb, heard>>
    BY DEF ListForCallback, users
<1>2. ctx = "ready" /\ cb' = "armed" /\ registering.listing = <<>>
    BY <1>1 DEF Core, Quiet, Calling, Unregistering
<1>3. Untold' = Listed /\ Untold = {} /\ Departed' = Departed /\ Listed' = Listed
    BY <1>1, <1>2, NothingListed DEF Untold, Listed, Departed
<1>4. /\ registering' \in [at : {"no", "added", "listed"}, listing : Seq(Devs)]
      /\ Once(registering'.listing) /\ Untold' \subseteq 1..born /\ cb' \in {"none", "armed", "marked"}
      /\ heard' \subseteq Devs /\ hotplug_pipe' \in Seq(Messages) /\ InOrder(hotplug_pipe', Listed)
      /\ refcnt' \in [Devs -> Int]
    BY <1>1, <1>2, <1>3 DEF Core, ObjectTypes, Lists, Numbers
<1>5. Hears'
    BY <1>3 DEF Hears
<1>6. \A e \in Devs : refcnt'[e] - One(e \in Departed)' - One(e \in Untold)'
                               = refcnt[e] - One(e \in Departed) - One(e \in Untold)
    BY <1>1, <1>3 DEF One, Core, ObjectTypes
<1>7. registering'.at = "listed"
    BY <1>1
<1>8. QED
    BY <1>1, <1>2, <1>3, <1>4, <1>5, <1>6, <1>7, CallStep

LEMMA TellListedStep == ASSUME Core, TellListed PROVE Core'
<1> DEFINE s == registering.listing
           d == Head(s)
<1>1. /\ registering.at = "listed" /\ s # <<>> /\ heard' = heard \cup {d}
      /\ registering' = [registering EXCEPT !.listing = Tail(s)]
      /\ refcnt' = [refcnt EXCEPT ![d] = @ - 1]
      /\ UNCHANGED <<ctx, born, base, attached, port, fd, usb_devs, held, handles, opening, strays,
                     hotplug_pipe, cb>>
    BY DEF TellListed, users
<1>2. ctx = "ready" /\ cb' = "armed" /\ s \in Seq(Devs) /\ Once(s)
    BY <1>1 DEF Core, Quiet, Calling, Unregistering, ObjectTypes, Lists
<1>3. Tail(s) \in Seq(Devs) /\ d = s[1] /\ 1 \in 1..Len(s) /\ Without(Tail(s), s, 1)
    BY <1>1, <1>2, TailIsWithout
<1>4. Once(Tail(s)) /\ Range(Tail(s)) = Range(s) \ {d} /\ d \in Range(s) /\ d \in Devs
  <2>1. d \in Range(s) /\ d \in Devs
      BY <1>2, <1>3, RangeFacts
  <2> HIDE DEF s
  <2>2. Once(Tail(s)) /\ Range(Tail(s)) = Range(s) \ {s[1]}
      BY <1>2, <1>3, WithoutFacts
  <2>3. QED
      BY <1>3, <2>1, <2>2
<1>5. registering'.at = "listed" /\ registering'.listing = Tail(s)
      /\ registering' \in [at : {"no", "added", "listed"}, listing : Seq(Devs)]
    BY <1>1, <1>3 DEF Core, ObjectTypes
<1>6. Untold' = Untold \ {d} /\ d \in Untold /\ Departed' = Departed /\ Listed' = Listed
      /\ Arriving' = Arriving
    BY <1>1, <1>4, <1>5 DEF Untold, Listed, Departed, Arriving
<1> HIDE DEF d
<1>7. /\ Once(registering'.listing) /\ Untold' \subseteq 1..born /\ cb' \in {"none", "armed", "marked"}
      /\ heard' \subseteq Devs /\ hotplug_pipe' \in Seq(Messages) /\ InOrder(hotplug_pipe', Listed)
      /\ refcnt' \in [Devs -> Int]
  <2>1. Once(registering'.listing) /\ cb' \in {"none", "armed", "marked"}
      BY <1>2, <1>4, <1>5
  <2>2. Untold' \subseteq 1..born
      BY <1>6 DEF Core, Numbers
  <2>3. heard \subseteq Devs /\ hotplug_pipe \in Seq(Messages) /\ refcnt \in [Devs -> Nat]
      BY DEF Core, ObjectTypes
  <2>4. hotplug_pipe' \in Seq(Messages) /\ InOrder(hotplug_pipe', Listed)
      BY <1>1, <2>3 DEF Core, Lists
  <2>5. heard' \subseteq Devs /\ refcnt' \in [Devs -> Int]
      BY <1>1, <1>4, <2>3
  <2>6. QED
      BY <2>1, <2>2, <2>4, <2>5
<1>8. Hears'
    BY <1>1, <1>6 DEF Core, Hears, Calling
<1>9. \A e \in Devs : refcnt'[e] - One(e \in Departed)' - One(e \in Untold)'
                               = refcnt[e] - One(e \in Departed) - One(e \in Untold)
  <2> SUFFICES ASSUME NEW e \in Devs
               PROVE  refcnt'[e] - One(e \in Departed)' - One(e \in Untold)'
                          = refcnt[e] - One(e \in Departed) - One(e \in Untold)
      OBVIOUS
  <2>1. One(e \in Departed)' = One(e \in Departed) /\ One(e \in Departed) \in Int
      BY <1>6 DEF One
  <2>2. refcnt \in [Devs -> Nat] /\ refcnt[e] \in Int
      BY DEF Core, ObjectTypes
  <2>3. CASE e = d
    <3>1. One(e \in Untold)' = 0 /\ One(e \in Untold) = 1
        BY <1>6, <2>3 DEF One
    <3>2. refcnt'[e] = refcnt[e] - 1
        BY <1>1, <1>4, <2>2, <2>3
    <3>3. QED
        BY <2>1, <2>2, <3>1, <3>2
  <2>4. CASE e # d
    <3>1. One(e \in Untold)' = One(e \in Untold) /\ One(e \in Untold) \in Int
        BY <1>6, <2>4 DEF One
    <3>2. refcnt'[e] = refcnt[e]
        BY <1>1, <2>2, <2>4
    <3>3. QED
        BY <2>1, <2>2, <3>1, <3>2
  <2>5. QED
      BY <2>3, <2>4
<1>10. QED
    BY <1>1, <1>2, <1>5, <1>6, <1>7, <1>8, <1>9, CallStep

LEMMA RegisteredStep == ASSUME Core, Registered PROVE Core'
<1>1. /\ registering.at = "listed" /\ registering.listing = <<>> /\ registering' = Unregistering
      /\ cb' = "armed"
      /\ UNCHANGED <<ctx, born, base, attached, port, fd, usb_devs, held, handles, opening, strays,
                     hotplug_pipe, heard, refcnt>>
    BY DEF Registered, users, objects
<1>2. ctx = "ready" /\ cb = "armed"
    BY <1>1 DEF Core, Quiet, Calling, Unregistering
<1>3. registering'.at = "no" /\ registering'.listing = <<>>
      /\ registering' \in [at : {"no", "added", "listed"}, listing : Seq(Devs)]
    BY <1>1 DEF Unregistering
<1>4. Untold' = {} /\ Untold = {} /\ Departed' = Departed /\ Listed' = Listed /\ Arriving' = Arriving
      /\ Once(registering'.listing)
    BY <1>1, <1>3, NothingListed DEF Untold, Listed, Departed, Arriving
<1>5. /\ heard' \subseteq Devs /\ hotplug_pipe' \in Seq(Messages) /\ InOrder(hotplug_pipe', Listed)
      /\ refcnt' \in [Devs -> Int]
    BY <1>1 DEF Core, ObjectTypes, Lists
<1>6. Hears'
    BY <1>1, <1>2, <1>4 DEF Core, Hears
<1>7. \A e \in Devs : refcnt'[e] - One(e \in Departed)' - One(e \in Untold)'
                               = refcnt[e] - One(e \in Departed) - One(e \in Untold)
    BY <1>1, <1>4 DEF One
<1>8. QED
    BY <1>1, <1>2, <1>3, <1>4, <1>5, <1>6, <1>7, CallStep

\* The application takes and drops references.
LEMMA HeldStep ==
    ASSUME Core, UNCHANGED <<ctx, born, base, attached, port, usb_devs, hotplug_pipe, calls, handles,
                             opening>>,
           fd' \subseteq Devs, strays \subseteq strays', strays' \subseteq Devs,
           held' \in [Devs -> Nat], refcnt' \in [Devs -> Int],
           \A d \in Devs : /\ d > born => held'[d] = 0
                           /\ refcnt'[d] - held'[d] >= refcnt[d] - held[d]
                           /\ d \notin strays' => refcnt'[d] - held'[d] = refcnt[d] - held[d]
    PROVE  Core'
<1>1. /\ handles' \in [Devs -> {0, 1}]
      /\ opening' \in [dev : 0..MaxDevs, at : {"idle", "path", "gone"}] /\ opening'.dev <= born
      /\ \A d \in Devs : d > born => held'[d] = 0 /\ handles'[d] = 0
      /\ opening'.dev = 0 <=> opening'.at = "idle"
      /\ opening'.dev # 0 => opening'.dev > base /\ handles'[opening'.dev] = 0
      /\ ctx # "ready" => opening' = Idle /\ handles' = handles
    BY DEF Core, ObjectTypes, Numbers, Calling, Quiet
<1>2. ASSUME NEW d \in Devs
      PROVE  /\ refcnt'[d] - Users(d)' >= refcnt[d] - Users(d)
             /\ d \notin strays' => refcnt'[d] - Users(d)' = refcnt[d] - Users(d)
  <2>1. /\ held[d] \in Nat /\ handles[d] \in {0, 1} /\ refcnt[d] \in Nat /\ held'[d] \in Nat
        /\ refcnt'[d] \in Int /\ One(opening.dev = d) \in Nat
      BY DEF Core, ObjectTypes, One
  <2>2. \E a \in Nat : Users(d) = held[d] + a /\ Users(d)' = held'[d] + a
    <3>1. /\ handles[d] + One(opening.dev = d) \in Nat
          /\ Users(d) = held[d] + (handles[d] + One(opening.dev = d))
          /\ Users(d)' = held'[d] + (handles[d] + One(opening.dev = d))
        BY <2>1 DEF Users
    <3>2. QED
        BY <3>1
  <2>3. QED
      BY <2>1, <2>2
<1>3. QED
    BY <1>1, <1>2, RefStep

LEMMA HeldSteps ==
    ASSUME Core, \/ TakeList
                 \/ \E d \in 1..born : FindDevice(d) \/ FindDevice2(d) \/ UnrefDevice(d)
    PROVE  Core'
<1> USE DeviceListAssumption DEF DeviceListAssumption
<1>1. /\ refcnt \in [Devs -> Nat] /\ held \in [Devs -> Nat] /\ fd \subseteq Devs /\ strays \subseteq Devs
      /\ born \in 0..MaxDevs /\ 1..born \subseteq Devs /\ Listed \subseteq 1..born
      /\ \A d \in Devs : d > born => held[d] = 0
  <2>1. /\ refcnt \in [Devs -> Nat] /\ held \in [Devs -> Nat] /\ fd \subseteq Devs /\ strays \subseteq Devs
        /\ born \in 0..MaxDevs /\ base \in 0..born
      BY DEF Core, ObjectTypes
  <2>2. Listed \subseteq (base + 1)..born /\ \A d \in Devs : d > born => held[d] = 0
      BY DEF Core, Numbers
  <2>3. 1..born \subseteq Devs /\ (base + 1)..born \subseteq 1..born
      BY <2>1 DEF Devs
  <2>4. QED
      BY <2>1, <2>2, <2>3
<1>2. CASE TakeList
  <2>1. /\ UNCHANGED <<ctx, born, base, attached, port, usb_devs, hotplug_pipe, calls, handles, opening>>
        /\ fd' = fd /\ strays' = strays
      BY <1>2 DEF TakeList
  <2>2. /\ held' \in [Devs -> Nat] /\ refcnt' \in [Devs -> Int]
        /\ \A d \in Devs : /\ d > born => held'[d] = 0
                           /\ refcnt'[d] - held'[d] = refcnt[d] - held[d]
                           /\ refcnt'[d] \in Int /\ held'[d] \in Int /\ refcnt[d] \in Int /\ held[d] \in Int
    <3>1. /\ refcnt' = [d \in Devs |-> refcnt[d] + (IF d \in Listed THEN 1 ELSE 0)]
          /\ held' = [d \in Devs |-> held[d] + (IF d \in Listed THEN 1 ELSE 0)]
        BY <1>2 DEF TakeList
    <3>2. ASSUME NEW d \in Devs
          PROVE  /\ d > born => held'[d] = 0
                 /\ refcnt'[d] - held'[d] = refcnt[d] - held[d]
                 /\ refcnt'[d] \in Int /\ held'[d] \in Nat /\ refcnt[d] \in Int /\ held[d] \in Int
      <4> DEFINE x == IF d \in Listed THEN 1 ELSE 0
      <4>1. refcnt'[d] = refcnt[d] + x /\ held'[d] = held[d] + x /\ x \in Nat
          BY <3>1
      <4>2. d > born => x = 0
        <5>1. d \in Listed => d \in 1..born
            BY <1>1
        <5>2. d \in 1..born => ~(d > born)
            BY <1>1
        <5>3. QED
            BY <5>1, <5>2
      <4> HIDE DEF x
      <4>3. refcnt[d] \in Nat /\ held[d] \in Nat /\ (d > born => held[d] = 0)
          BY <1>1
      <4>4. refcnt'[d] \in Int /\ held'[d] \in Nat
          BY <4>1, <4>3
      <4>5. refcnt'[d] - held'[d] = refcnt[d] - held[d]
          BY <4>1, <4>3
      <4>6. d > born => held'[d] = 0
          BY <4>1, <4>2, <4>3
      <4>7. QED
          BY <4>3, <4>4, <4>5, <4>6
    <3>3. QED
        BY <3>1, <3>2
  <2>3. QED
      BY <1>1, <2>1, <2>2, HeldStep
<1>3. ASSUME NEW d \in 1..born, FindDevice(d) \/ UnrefDevice(d)
      PROVE  Core'
  <2>1. /\ UNCHANGED <<ctx, born, base, attached, port, usb_devs, hotplug_pipe, calls, handles, opening>>
        /\ fd' = fd /\ strays' = strays
      BY <1>3 DEF FindDevice, UnrefDevice, Keeps
  <2>2. PICK n \in {-1, 1} : /\ refcnt' = [refcnt EXCEPT ![d] = @ + n]
                             /\ held' = [held EXCEPT ![d] = @ + n] /\ (n = -1 => held[d] > 0)
      BY <1>3 DEF FindDevice, UnrefDevice, Keeps
  <2>3. /\ held' \in [Devs -> Nat] /\ refcnt' \in [Devs -> Int]
        /\ \A e \in Devs : /\ e > born => held'[e] = 0
                           /\ refcnt'[e] - held'[e] = refcnt[e] - held[e]
                           /\ refcnt'[e] \in Int /\ held'[e] \in Int /\ refcnt[e] \in Int /\ held[e] \in Int
    <3>1. d \in Devs /\ ~(d > born) /\ n \in Int
        BY <1>1
    <3>2. refcnt[d] \in Nat /\ held[d] \in Nat /\ held[d] + n \in Nat
        BY <1>1, <2>2, <3>1
    <3>3. refcnt'[d] = refcnt[d] + n /\ held'[d] = held[d] + n
        BY <1>1, <2>2, <3>1
    <3>4. ASSUME NEW e \in Devs, e # d
          PROVE  refcnt'[e] = refcnt[e] /\ held'[e] = held[e] /\ refcnt[e] \in Nat /\ held[e] \in Nat
        BY <1>1, <2>2, <3>4
    <3>5. held' \in [Devs -> Nat] /\ refcnt' \in [Devs -> Int]
        BY <1>1, <2>2, <3>1, <3>2
    <3>6. ASSUME NEW e \in Devs
          PROVE  /\ e > born => held'[e] = 0
                 /\ refcnt'[e] - held'[e] = refcnt[e] - held[e]
                 /\ refcnt'[e] \in Int /\ held'[e] \in Int /\ refcnt[e] \in Int /\ held[e] \in Int
      <4>1. CASE e = d
          BY <3>1, <3>2, <3>3, <4>1
      <4>2. CASE e # d
          BY <1>1, <3>4, <4>2
      <4>3. QED
          BY <4>1, <4>2
    <3>7. QED
        BY <3>5, <3>6
  <2>4. QED
      BY <1>1, <2>1, <2>3, HeldStep
<1>4. ASSUME NEW d \in 1..born, FindDevice2(d)
      PROVE  Core'
  <2>1. /\ UNCHANGED <<ctx, born, base, attached, port, usb_devs, hotplug_pipe, calls, handles, opening>>
        /\ fd' = fd \cup {d} /\ strays' = strays \cup {d}
        /\ refcnt' = [refcnt EXCEPT ![d] = @ + 2] /\ held' = [held EXCEPT ![d] = @ + 1]
      BY <1>4 DEF FindDevice2
  <2>2. /\ held' \in [Devs -> Nat] /\ refcnt' \in [Devs -> Int]
        /\ \A e \in Devs : /\ e > born => held'[e] = 0
                           /\ refcnt'[e] - held'[e] >= refcnt[e] - held[e]
                           /\ e \notin strays' => refcnt'[e] - held'[e] = refcnt[e] - held[e]
    <3>1. d \in Devs /\ ~(d > born)
        BY <1>1
    <3>2. ASSUME NEW e \in Devs, e # d
          PROVE  refcnt'[e] = refcnt[e] /\ held'[e] = held[e] /\ refcnt[e] \in Nat /\ held[e] \in Nat
        BY <1>1, <2>1, <3>2
    <3>3. refcnt'[d] = refcnt[d] + 2 /\ held'[d] = held[d] + 1 /\ refcnt[d] \in Nat /\ held[d] \in Nat
        BY <1>1, <2>1, <3>1
    <3>4. ASSUME NEW e \in Devs
          PROVE  /\ e > born => held'[e] = 0
                 /\ refcnt'[e] - held'[e] >= refcnt[e] - held[e]
                 /\ e \notin strays' => refcnt'[e] - held'[e] = refcnt[e] - held[e]
      <4>1. CASE e = d
          BY <2>1, <3>1, <3>3, <4>1
      <4>2. CASE e # d
          BY <1>1, <3>2, <4>2
      <4>3. QED
          BY <4>1, <4>2
    <3>5. held' \in [Devs -> Nat] /\ refcnt' \in [Devs -> Int]
        BY <1>1, <2>1, <3>1
    <3>6. QED
        BY <3>4, <3>5
  <2>3. QED
      BY <1>1, <2>1, <2>2, HeldStep
<1>5. QED
    BY <1>2, <1>3, <1>4

\* Devices are opened and closed.
LEMMA HandleSteps ==
    ASSUME Core, \/ Opened \/ OpenRefused \/ NoSuchFile
                 \/ \E d \in 1..born : Open(d) \/ Close(d)
                 \/ OpenGone /\ ~StillAttached(opening.dev)
    PROVE  Core'
<1> USE DeviceListAssumption DEF DeviceListAssumption
<1>1. /\ refcnt \in [Devs -> Nat] /\ held \in [Devs -> Nat] /\ fd \subseteq Devs /\ strays \subseteq Devs
      /\ handles \in [Devs -> {0, 1}]
      /\ opening \in [dev : 0..MaxDevs, at : {"idle", "path", "gone"}]
      /\ born \in 0..MaxDevs /\ 1..born \subseteq Devs /\ opening.dev <= born
      /\ \A d \in Devs : d > born => held[d] = 0 /\ handles[d] = 0
      /\ opening.dev = 0 <=> opening.at = "idle"
      /\ opening.dev # 0 => opening.dev > base /\ handles[opening.dev] = 0
      /\ ctx # "ready" => opening = Idle
  <2>1. ObjectTypes /\ Numbers /\ Calling /\ Quiet
      BY DEF Core
  <2>2. /\ refcnt \in [Devs -> Nat] /\ held \in [Devs -> Nat] /\ fd \subseteq Devs /\ strays \subseteq Devs
        /\ handles \in [Devs -> {0, 1}]
        /\ opening \in [dev : 0..MaxDevs, at : {"idle", "path", "gone"}]
        /\ born \in 0..MaxDevs /\ 1..born \subseteq Devs
    <3>1. /\ refcnt \in [Devs -> Nat] /\ held \in [Devs -> Nat] /\ fd \subseteq Devs
          /\ strays \subseteq Devs /\ handles \in [Devs -> {0, 1}]
          /\ opening \in [dev : 0..MaxDevs, at : {"idle", "path", "gone"}] /\ born \in 0..MaxDevs
        BY <2>1 DEF ObjectTypes
    <3>2. 1..born \subseteq Devs
        BY <3>1 DEF Devs
    <3>3. QED
        BY <3>1, <3>2
  <2>3. opening.dev <= born /\ \A d \in Devs : d > born => held[d] = 0 /\ handles[d] = 0
      BY <2>1 DEF Numbers
  <2>4. /\ opening.dev = 0 <=> opening.at = "idle"
        /\ opening.dev # 0 => opening.dev > base /\ handles[opening.dev] = 0
        /\ ctx # "ready" => opening = Idle
      BY <2>1 DEF Calling, Quiet
  <2>5. QED
      BY <2>2, <2>3, <2>4
<1>2. /\ Idle \in [dev : 0..MaxDevs, at : {"idle", "path", "gone"}] /\ Idle.dev = 0 /\ Idle.at = "idle"
      /\ \A d \in Devs : d # 0 /\ d \in Int
    BY DEF Idle, Devs
<1>3. ASSUME NEW d \in 1..born, ctx = "ready",
             UNCHANGED <<ctx, born, base, attached, port, usb_devs, hotplug_pipe, calls, held>>,
             fd' = fd, strays' = strays, refcnt' \in [Devs -> Int],
             opening' = opening \/ opening' = Idle \/ opening'.dev = d,
             handles' \in [Devs -> {0, 1}],
             opening' \in [dev : 0..MaxDevs, at : {"idle", "path", "gone"}],
             opening'.dev = 0 <=> opening'.at = "idle",
             opening'.dev # 0 => opening'.dev > base /\ handles'[opening'.dev] = 0,
             \A e \in Devs : e # d => refcnt'[e] = refcnt[e] /\ handles'[e] = handles[e]
                                      /\ (opening'.dev = e <=> opening.dev = e),
             refcnt'[d] - handles'[d] - One(opening'.dev = d) = refcnt[d] - handles[d] - One(opening.dev = d)
      PROVE  Core'
  <2>1. opening'.dev <= born /\ d \in Devs
      BY <1>1, <1>2, <1>3
  <2>2. \A e \in Devs : e > born => held'[e] = 0 /\ handles'[e] = 0
      BY <1>1, <1>2, <1>3
  <2>3. ASSUME NEW e \in Devs
        PROVE  refcnt'[e] - Users(e)' = refcnt[e] - Users(e) /\ refcnt'[e] \in Int /\ refcnt[e] \in Int
               /\ Users(e) \in Int /\ Users(e)' \in Int
    <3>1. /\ held[e] \in Int /\ handles[e] \in Int /\ handles'[e] \in Int /\ held' = held
          /\ refcnt[e] \in Int /\ refcnt'[e] \in Int
        BY <1>1, <1>3
    <3>2. One(opening.dev = e) \in Int /\ One(opening'.dev = e) \in Int
        BY DEF One
    <3>3. refcnt'[e] - handles'[e] - One(opening'.dev = e) = refcnt[e] - handles[e] - One(opening.dev = e)
      <4>1. CASE e = d
          BY <1>3, <4>1
      <4>2. CASE e # d
          BY <1>3, <4>2 DEF One
      <4>3. QED
          BY <4>1, <4>2
    <3> DEFINE a == One(opening.dev = e)
               b == One(opening'.dev = e)
    <3>4. Users(e) = held[e] + handles[e] + a /\ Users(e)' = held[e] + handles'[e] + b
        BY <3>1 DEF Users
    <3> HIDE DEF a, b
    <3>5. QED
        BY <3>1, <3>2, <3>3, <3>4 DEF a, b
  <2>4. QED
      BY <1>1, <1>3, <2>1, <2>2, <2>3, RefStep
<1>4. ASSUME opening.at # "idle" PROVE opening.dev \in 1..born /\ opening.dev \in Devs /\ ctx = "ready"
    BY <1>1, <1>2, <1>4
<1>5. CASE Opened
  <2> DEFINE d == opening.dev
  <2>1. /\ UNCHANGED <<ctx, born, base, attached, port, usb_devs, hotplug_pipe, calls, held>>
        /\ fd' = fd /\ strays' = strays /\ refcnt' = refcnt /\ opening' = Idle /\ opening.at = "path"
        /\ handles' = [handles EXCEPT ![d] = @ + 1]
      BY <1>5 DEF Opened, objects
  <2>2. d \in 1..born /\ d \in Devs /\ ctx = "ready" /\ handles[d] = 0
      BY <1>1, <1>2, <1>4, <2>1
  <2>3. handles' \in [Devs -> {0, 1}] /\ handles'[d] = 1
        /\ \A e \in Devs : e # d => handles'[e] = handles[e]
      BY <1>1, <2>1, <2>2
  <2>4. One(opening'.dev = d) = 0 /\ One(opening.dev = d) = 1 /\ opening'.dev = 0
      BY <1>2, <2>1, <2>2 DEF One
  <2>5. \A e \in Devs : e # d => (opening'.dev = e <=> opening.dev = e)
      BY <1>2, <2>1
  <2>6. refcnt'[d] - handles'[d] - One(opening'.dev = d) = refcnt[d] - handles[d] - One(opening.dev = d)
      BY <1>1, <2>1, <2>2, <2>3, <2>4
  <2> HIDE DEF d
  <2>7. QED
      BY <1>1, <1>2, <1>3, <2>1, <2>2, <2>3, <2>4, <2>5, <2>6
<1>6. CASE OpenRefused \/ (OpenGone /\ ~StillAttached(opening.dev))
  <2> DEFINE d == opening.dev
  <2>1. /\ UNCHANGED <<ctx, born, base, attached, port, usb_devs, hotplug_pipe, calls>>
        /\ fd' = fd /\ strays' = strays /\ opening' = Idle /\ opening.at \in {"path", "gone"}
        /\ handles' = handles /\ held' \in {held, [held EXCEPT ![d] = @ + 0]}
        /\ refcnt' \in {[refcnt EXCEPT ![d] = @ + -1], [refcnt EXCEPT ![d] = @ - 1]}
      BY <1>6 DEF OpenRefused, OpenGone, Keeps
  <2>2. d \in 1..born /\ d \in Devs /\ ctx = "ready" /\ handles[d] = 0
      BY <1>1, <1>2, <1>4, <2>1
  <2>3. /\ refcnt' \in [Devs -> Int] /\ refcnt'[d] = refcnt[d] - 1 /\ held' = held
        /\ \A e \in Devs : e # d => refcnt'[e] = refcnt[e]
      BY <1>1, <2>1, <2>2
  <2>4. One(opening'.dev = d) = 0 /\ One(opening.dev = d) = 1 /\ opening'.dev = 0
      BY <1>2, <2>1, <2>2 DEF One
  <2>5. \A e \in Devs : e # d => (opening'.dev = e <=> opening.dev = e)
      BY <1>2, <2>1
  <2>6. refcnt'[d] - handles'[d] - One(opening'.dev = d) = refcnt[d] - handles[d] - One(opening.dev = d)
      BY <1>1, <2>1, <2>2, <2>3, <2>4
  <2> HIDE DEF d
  <2>7. QED
      BY <1>1, <1>2, <1>3, <2>1, <2>2, <2>3, <2>4, <2>5, <2>6
<1>7. CASE NoSuchFile
  <2> DEFINE d == opening.dev
  <2>1. /\ UNCHANGED <<ctx, born, base, attached, port, usb_devs, hotplug_pipe, calls, held>>
        /\ fd' = fd /\ strays' = strays /\ refcnt' = refcnt /\ opening.at = "path"
        /\ opening' = [opening EXCEPT !.at = "gone"] /\ handles' = handles
      BY <1>7 DEF NoSuchFile, objects
  <2>2. d \in 1..born /\ d \in Devs /\ ctx = "ready"
      BY <1>1, <1>2, <1>4, <2>1
  <2>3. opening'.dev = d /\ opening'.at = "gone"
        /\ opening' \in [dev : 0..MaxDevs, at : {"idle", "path", "gone"}]
      BY <1>1, <2>1
  <2>4. /\ refcnt' \in [Devs -> Int] /\ handles' \in [Devs -> {0, 1}] /\ d # 0
        /\ One(opening'.dev = d) = One(opening.dev = d)
      BY <1>1, <1>2, <2>1, <2>2, <2>3
  <2>5. opening'.dev # 0 => opening'.dev > base /\ handles'[opening'.dev] = 0
      BY <1>1, <2>1, <2>3
  <2> HIDE DEF d
  <2>6. QED
      BY <1>1, <1>2, <1>3, <2>1, <2>2, <2>3, <2>4, <2>5 DEF d
<1>8. ASSUME NEW d \in 1..born, Open(d) PROVE Core'
  <2>1. /\ UNCHANGED <<ctx, born, base, attached, port, usb_devs, hotplug_pipe, calls, handles>>
        /\ fd' = fd /\ strays' = strays /\ opening = Idle /\ ctx = "ready" /\ d > base /\ handles[d] = 0
        /\ opening' = [dev |-> d, at |-> "path"]
        /\ held' = [held EXCEPT ![d] = @ + 0] /\ refcnt' = [refcnt EXCEPT ![d] = @ + 1]
      BY <1>8 DEF Open, Keeps, AppIdle, HandleRef
  <2>2. d \in Devs
      BY <1>1
  <2>3. /\ refcnt' \in [Devs -> Int] /\ refcnt'[d] = refcnt[d] + 1 /\ held' = held
        /\ \A e \in Devs : e # d => refcnt'[e] = refcnt[e]
      BY <1>1, <2>1, <2>2
  <2>4. opening'.dev = d /\ opening'.at = "path" /\ d # 0
        /\ opening' \in [dev : 0..MaxDevs, at : {"idle", "path", "gone"}]
      BY <1>2, <2>1, <2>2 DEF Devs
  <2>5. One(opening'.dev = d) = 1 /\ One(opening.dev = d) = 0
      BY <1>2, <2>1, <2>2, <2>4 DEF One
  <2>6. \A e \in Devs : e # d => (opening'.dev = e <=> opening.dev = e)
      BY <1>2, <2>1, <2>4
  <2>7. refcnt'[d] - handles'[d] - One(opening'.dev = d) = refcnt[d] - handles[d] - One(opening.dev = d)
      BY <1>1, <2>1, <2>2, <2>3, <2>5
  <2>8. QED
      BY <1>1, <1>3, <2>1, <2>3, <2>4, <2>6, <2>7
<1>9. ASSUME NEW d \in 1..born, Close(d) PROVE Core'
  <2>1. /\ UNCHANGED <<ctx, born, base, attached, port, usb_devs, hotplug_pipe, calls, held>>
        /\ fd' = fd /\ strays' = strays /\ opening = Idle /\ opening' = opening /\ ctx = "ready"
        /\ handles[d] > 0 /\ handles' = [handles EXCEPT ![d] = @ - 1]
        /\ refcnt' = [refcnt EXCEPT ![d] = @ - 1]
      BY <1>9 DEF Close, AppIdle
  <2>2. d \in Devs /\ handles[d] = 1
      BY <1>1, <2>1
  <2>3. /\ refcnt' \in [Devs -> Int] /\ refcnt'[d] = refcnt[d] - 1 /\ handles' \in [Devs -> {0, 1}]
        /\ handles'[d] = 0
        /\ \A e \in Devs : e # d => refcnt'[e] = refcnt[e] /\ handles'[e] = handles[e]
      BY <1>1, <2>1, <2>2
  <2>4. One(opening'.dev = d) = 0 /\ One(opening.dev = d) = 0
      BY <1>2, <2>1, <2>2 DEF One
  <2>5. refcnt'[d] - handles'[d] - One(opening'.dev = d) = refcnt[d] - handles[d] - One(opening.dev = d)
      BY <1>1, <2>1, <2>2, <2>3, <2>4
  <2>6. QED
      BY <1>1, <1>2, <1>3, <2>1, <2>3, <2>5
<1>10. QED
    BY <1>5, <1>6, <1>7, <1>8, <1>9

------------------------------------------------------------------------------
(* Every step keeps the counts of references *)

\* A context goes from one phase to the next.
LEMMA PhaseStep ==
    ASSUME Core, UNCHANGED <<objects, users, calls, strays>>,
           ctx' = ctx \/ (ctx \notin {"none", "ready"} /\ ctx' \in {"scanning", "scanned", "ready"})
    PROVE  Core'
<1>1. /\ UNCHANGED <<born, base, refcnt, attached, port, fd, usb_devs, hotplug_pipe, held, handles,
                     opening, cb, registering, heard, strays>>
      /\ Listed' = Listed /\ Departed' = Departed /\ Arriving' = Arriving /\ Untold' = Untold
    BY DEF objects, users, calls, Listed, Departed, Arriving, Untold
<1>2. ObjectTypes'
    BY <1>1 DEF Core, ObjectTypes
<1>3. Lists' /\ Calling' /\ Hears'
    BY <1>1 DEF Core, Lists, Calling, Hears
<1>4. Numbers'
    BY <1>1 DEF Core, Numbers
<1>5. Quiet'
    BY <1>1 DEF Core, Quiet
<1>6. Counted'
  <2>1. \A d \in Devs : Refs(d)' = Refs(d)
      BY <1>1 DEF Refs, Users
  <2>2. QED
      BY <1>1, <2>1 DEF Core, Counted
<1>7. QED
    BY <1>2, <1>3, <1>4, <1>5, <1>6 DEF Core

LEMMA InitBeginStep == ASSUME Core, InitBegin PROVE Core'
<1>1. /\ ctx = "none" /\ ctx' = "listed" /\ base' = born
      /\ UNCHANGED <<born, refcnt, attached, port, fd, usb_devs, hotplug_pipe, held, handles,
                     opening, cb, registering, heard, strays>>
    BY DEF InitBegin, users, calls
<1>2. /\ Listed' = Listed /\ Departed' = Departed /\ Arriving' = Arriving /\ Untold' = Untold
      /\ Listed = {} /\ Departed = {} /\ opening = Idle /\ born \in Nat
    BY <1>1, NothingListed DEF Listed, Departed, Arriving, Untold, Core, Quiet, ObjectTypes
<1>3. ObjectTypes'
    BY <1>1, <1>2 DEF Core, ObjectTypes
<1>4. Lists' /\ Hears'
    BY <1>1, <1>2 DEF Core, Lists, Hears
<1>5. Calling'
    BY <1>1, <1>2 DEF Core, Calling, Idle
<1>6. Numbers'
  <2>1. (base' + 1)..born' = {}
      BY <1>1, <1>2
  <2>2. QED
      BY <1>1, <1>2, <2>1 DEF Core, Numbers
<1>7. Quiet'
    BY <1>1 DEF Core, Quiet
<1>8. Counted'
  <2>1. \A d \in Devs : Refs(d)' = Refs(d)
      BY <1>1, <1>2 DEF Refs, Users
  <2>2. QED
      BY <1>1, <2>1 DEF Core, Counted
<1>9. QED
    BY <1>3, <1>4, <1>5, <1>6, <1>7, <1>8 DEF Core

\* A camera is found by the first scan or announced by a uevent.
LEMMA EnumerateStep ==
    ASSUME Core, ctx # "none", NEW p \in Ports, NEW ok \in BOOLEAN, Enumerate(p, ok),
           UNCHANGED <<ctx, users, calls, strays>>
    PROVE  /\ Core'
           /\ Known(p) \/ ~ok => UNCHANGED usb_devs
           /\ ~Known(p) /\ ok => Listed' = Listed \cup {born'} /\ port'[born'] = p
           /\ ~Known(p) => born' \notin 1..born
           /\ \A d \in 1..born : port'[d] = port[d]
<1>1. UNCHANGED <<ctx, held, handles, opening, calls, strays>>
    BY DEF users
<1>2. CASE Known(p)
  <2>1. UNCHANGED objects
      BY <1>2 DEF Enumerate
  <2>2. Core'
      BY <2>1, PhaseStep
  <2>3. QED
      BY <1>2, <2>1, <2>2 DEF objects
<1>3. CASE ~Known(p)
  <2>1. NewDevice(p, 1, FALSE, ok)
      BY <1>3 DEF Enumerate
  <2> DEFINE x == 0
  <2>2. x \in {0, 1} /\ 1 + x = 1
      OBVIOUS
  <2>3. /\ born' \in Devs /\ held \in [Devs -> Nat] /\ held[born'] = 0 /\ born \in Nat /\ born' = born + 1
    <3>1. born \in 0..MaxDevs /\ held \in [Devs -> Nat] /\ \A d \in Devs : d > born => held[d] = 0
        BY DEF Core, ObjectTypes, Numbers
    <3>2. born < MaxDevs /\ born' = born + 1 /\ MaxDevs \in Nat
        BY <2>1, DeviceListAssumption DEF NewDevice, DeviceListAssumption
    <3>3. born' \in Devs /\ born' > born /\ born \in Nat
        BY <3>1, <3>2 DEF Devs
    <3>4. QED
        BY <3>1, <3>2, <3>3
  <2>4. held' = IF ok THEN [held EXCEPT ![born'] = 0] ELSE held
      BY <1>1, <2>3
  <2>5. held' = IF ok THEN [held EXCEPT ![born'] = x] ELSE held
      BY <2>4
  <2> HIDE DEF x
  <2>6. NewDevice(p, 1 + x, FALSE, ok)
      BY <2>1, <2>2
  <2>7. /\ Core' /\ (ok => Listed' = Listed \cup {born'}) /\ (~ok => usb_devs' = usb_devs)
        /\ port'[born'] = p /\ \A d \in 1..born : port'[d] = port[d]
      BY <1>1, <2>2, <2>5, <2>6, NewDeviceStep
  <2>8. born' \notin 1..born
      BY <2>3
  <2>9. QED
      BY <1>3, <2>7, <2>8
<1>4. QED
    BY <1>2, <1>3

LEMMA GetWithFdStep ==
    ASSUME Core, NEW p \in Ports, NEW ok \in BOOLEAN, GetWithFd(p, ok) PROVE Core'
<1> DEFINE x == 1
<1>1. /\ NewDevice(p, 2, TRUE, ok) /\ held' = IF ok THEN [held EXCEPT ![born'] = x] ELSE held
      /\ UNCHANGED <<ctx, handles, opening, calls, strays>> /\ ctx # "none"
    BY DEF GetWithFd
<1>2. x \in {0, 1} /\ 1 + x = 2
    OBVIOUS
<1> HIDE DEF x
<1>3. NewDevice(p, 1 + x, TRUE, ok)
    BY <1>1, <1>2
<1>4. QED
    BY <1>1, <1>2, <1>3, NewDeviceStep

\* A uevent is read; nobody reads before there is a monitor, or without a context.
LEMMA ReadUeventStep ==
    ASSUME Core, BusTypes, Monitored, NEW ok \in BOOLEAN, ReadUevent(ok) PROVE Core'
<1>1. /\ uevents # <<>> /\ uevents \in Seq({"add", "remove"} \X Ports)
      /\ UNCHANGED <<ctx, users, calls>>
    BY DEF ReadUevent, BusTypes
<1>2. ctx # "none"
    BY <1>1 DEF Monitored
<1> DEFINE p == Head(uevents)[2]
<1>3. p \in Ports
  <2>1. Head(uevents) \in {"add", "remove"} \X Ports
      BY <1>1, HeadTailProperties
  <2>2. QED
      BY <2>1
<1>4. CASE Enumerate(p, ok) /\ UNCHANGED strays
  <2> HIDE DEF p
  <2>1. QED
      BY <1>1, <1>2, <1>3, <1>4, EnumerateStep
<1>5. CASE Disconnected(p) /\ UNCHANGED refcnt
  <2>1. UNCHANGED <<ctx, held, handles, calls>> /\ UNCHANGED <<refcnt, opening>>
      BY <1>1, <1>5 DEF users
  <2> HIDE DEF p
  <2>2. QED
      BY <1>5, <2>1, DisconnectStep
<1>6. (Enumerate(p, ok) /\ UNCHANGED strays) \/ (Disconnected(p) /\ UNCHANGED refcnt)
    BY DEF ReadUevent
<1>7. QED
    BY <1>4, <1>5, <1>6

LEMMA OpenGoneStep == ASSUME Core, OpenGone PROVE Core'
<1>1. CASE StillAttached(opening.dev)
  <2>1. /\ Disconnected(port[opening.dev]) /\ UNCHANGED <<ctx, held, handles, calls>>
        /\ opening.at # "idle" /\ opening' = Idle
        /\ refcnt' = [refcnt EXCEPT ![opening.dev] = @ - 1]
      BY <1>1 DEF OpenGone
  <2>2. QED
      BY <2>1, DisconnectStep
<1>2. CASE ~StillAttached(opening.dev)
    BY <1>2, HandleSteps
<1>3. QED
    BY <1>1, <1>2

LEMMA CoreNext ==
    ASSUME Core, BusTypes, Monitored, Next PROVE Core'
<1>1. ASSUME NEW p \in Ports, Plug(p) \/ Unplug(p) \/ Change(p) PROVE Core'
    BY <1>1, PhaseStep DEF Plug, Unplug, Change, Bus
<1>2. CASE InitReuse \/ StartMonitor \/ ScanBegins \/ ScanEnds \/ InitDone
    BY <1>2, PhaseStep DEF InitReuse, StartMonitor, ScanBegins, ScanEnds, InitDone
<1>3. ASSUME NEW p \in Ports, NEW ok \in BOOLEAN, ScanOne(p, ok) PROVE Core'
  <2>1. ctx # "none" /\ Enumerate(p, ok) /\ UNCHANGED <<ctx, users, calls, strays>>
      BY <1>3 DEF ScanOne
  <2>2. QED
      BY <2>1, EnumerateStep
<1>4. CASE Exit
  <2>1. CASE ctx' # ctx
      BY <1>4, <2>1, ExitStep
  <2>2. CASE ctx' = ctx
    <3>1. UNCHANGED <<objects, users, calls, strays>>
      <4>1. ctx = "ready" /\ (counts.defaults - 1 > 0 \/ EndContext(ReadsPipe))
          BY <1>4 DEF Exit
      <4>2. counts.defaults - 1 > 0
          BY <2>2, <4>1 DEF EndContext
      <4>3. QED
          BY <1>4, <4>2 DEF Exit
    <3>2. QED
        BY <2>2, <3>1, PhaseStep
  <2>3. QED
      BY <2>1, <2>2
<1>5. CASE BusStep
    BY <1>1, <1>5, ReadUeventStep DEF BusStep
<1>6. CASE ContextStep
    BY <1>2, <1>3, <1>4, <1>6, InitBeginStep, InitFailsStep DEF ContextStep
<1>7. CASE AppStep
    BY <1>7, GetWithFdStep, HeldSteps, HandleSteps, OpenGoneStep, RegisterStep, ListForCallbackStep,
       TellListedStep, RegisteredStep, DeregisterStep DEF AppStep
<1>8. QED
    BY <1>5, <1>6, <1>7, HandleMessageStep DEF Next

------------------------------------------------------------------------------
(* The bus, the monitor and the users of the context *)

Around == BusTypes /\ Monitored /\ Counters /\ UsersHaveContext

\* The application and the event thread leave the bus alone.
LEMMA AppIsApart ==
    ASSUME Core, AppStep \/ \E done \in BOOLEAN : HandleMessage(done)
    PROVE  UNCHANGED <<build, bus, ctx, counts, refused>> /\ (ctx = "ready" \/ usb_devs' = usb_devs)
<1>1. ASSUME NEW p \in Ports, NEW ok \in BOOLEAN, GetWithFd(p, ok)
      PROVE  UNCHANGED <<build, bus, ctx, counts, refused>> /\ ctx = "ready"
    BY <1>1 DEF GetWithFd
<1>2. ASSUME NEW d, FindDevice(d) \/ FindDevice2(d) \/ UnrefDevice(d) \/ Open(d) \/ Close(d)
      PROVE  UNCHANGED <<build, bus, ctx, counts, refused, usb_devs>>
    BY <1>2 DEF FindDevice, FindDevice2, UnrefDevice, Open, Close, Keeps
<1>3. CASE TakeList \/ Opened \/ OpenRefused \/ NoSuchFile
    BY <1>3 DEF TakeList, Opened, OpenRefused, NoSuchFile, Keeps, objects
<1>4. CASE OpenGone
    BY <1>4 DEF OpenGone, Core, Quiet, Idle
<1>5. CASE Register \/ ListForCallback \/ TellListed \/ Registered \/ Deregister
    BY <1>5 DEF Register, ListForCallback, TellListed, Registered, Deregister, objects
<1>6. ASSUME NEW done, HandleMessage(done)
      PROVE  UNCHANGED <<build, bus, ctx, counts, refused, usb_devs>>
    BY <1>6 DEF HandleMessage
<1>7. QED
    BY <1>1, <1>2, <1>3, <1>4, <1>5, <1>6 DEF AppStep

LEMMA AroundKept ==
    ASSUME Around, UNCHANGED <<build, bus, ctx, counts, refused>>, ctx = "ready" \/ usb_devs' = usb_devs
    PROVE  Around'
<1>1. UNCHANGED <<build, plugged, uevents, monitor, ctx, counts, refused>>
    BY DEF bus
<1>2. QED
    BY <1>1 DEF Around, BusTypes, Monitored, Counters, UsersHaveContext

Counting == [inits : 0..MaxInits, uevents : 0..MaxUevents, defaults : 0..MaxInits, users : 0..MaxInits]

LEMMA AroundNext ==
    ASSUME Core, Around, Next PROVE Around'
<1> USE DeviceListAssumption DEF DeviceListAssumption
<1>1. /\ build \in {"android", "netlink"} /\ plugged \subseteq Ports /\ monitor \in BOOLEAN
      /\ uevents \in Seq({"add", "remove"} \X Ports) /\ refused \subseteq Ports
      /\ counts \in Counting
      /\ counts.inits \in 0..MaxInits /\ counts.uevents \in 0..MaxUevents
      /\ counts.defaults \in 0..MaxInits /\ counts.users \in 0..MaxInits
      /\ ctx \in {"none", "listed", "scanning", "scanned", "ready"}
  <2>1. counts \in Counting
      BY DEF Around, BusTypes, Counting
  <2>2. /\ counts.inits \in 0..MaxInits /\ counts.uevents \in 0..MaxUevents
        /\ counts.defaults \in 0..MaxInits /\ counts.users \in 0..MaxInits
      BY <2>1 DEF Counting
  <2>3. QED
      BY <2>1, <2>2 DEF Around, BusTypes, Core, ObjectTypes
<1>2. /\ counts.users + One(ctx \in {"listed", "scanning", "scanned"}) <= counts.defaults
      /\ counts.defaults <= counts.inits
      /\ counts.users > 0 => ctx = "ready"
      /\ counts.users <= counts.defaults /\ counts \in Counting
  <2>1. /\ counts.users + One(ctx \in {"listed", "scanning", "scanned"}) <= counts.defaults
        /\ counts.defaults <= counts.inits
        /\ counts.users > 0 => ctx = "ready"
      BY DEF Around, Counters, UsersHaveContext
  <2>2. One(ctx \in {"listed", "scanning", "scanned"}) \in Nat
      BY DEF One
  <2>3. QED
      BY <1>1, <2>1, <2>2
<1>3. ASSUME NEW p \in Ports, Plug(p) \/ Unplug(p) \/ Change(p) PROVE Around'
  <2>1. PICK kind \in {"add", "remove"} : Bus(kind, p)
      BY <1>3 DEF Plug, Unplug, Change
  <2>2. plugged' \subseteq Ports
      BY <1>1, <1>3 DEF Plug, Unplug, Change
  <2>3. /\ counts.uevents < MaxUevents /\ counts' = [counts EXCEPT !.uevents = @ + 1]
        /\ uevents' = IF monitor THEN Append(uevents, <<kind, p>>) ELSE uevents
        /\ UNCHANGED <<build, monitor, ctx, usb_devs, refused>>
      BY <2>1 DEF Bus, objects
  <2>4. uevents' \in Seq({"add", "remove"} \X Ports)
      BY <1>1, <2>3, AppendProperties
  <2> DEFINE n == counts.uevents + 1
  <2>5. counts' \in Counting /\ counts'.users = counts.users /\ counts'.defaults = counts.defaults
        /\ counts'.inits = counts.inits
    <3>1. n \in 0..MaxUevents /\ counts' = [counts EXCEPT !.uevents = n]
      <4>1. counts.uevents \in 0..MaxUevents
          BY <1>1
      <4>2. QED
          BY <2>3, <4>1
    <3>2. counts \in Counting
        BY <1>1
    <3> HIDE DEF n
    <3>3. QED
        BY <3>1, <3>2 DEF Counting
  <2>6. BusTypes'
      BY <1>1, <2>2, <2>3, <2>4, <2>5 DEF BusTypes, Counting
  <2>7. Monitored'
      BY <2>3 DEF Around, Monitored
  <2>8. Counters' /\ UsersHaveContext'
      BY <2>3, <2>5 DEF Around, Counters, UsersHaveContext
  <2>9. QED
      BY <2>6, <2>7, <2>8 DEF Around
<1>4. ASSUME NEW ok \in BOOLEAN, ReadUevent(ok) PROVE Around'
  <2>1. /\ uevents # <<>> /\ uevents' = Tail(uevents) /\ ctx # "scanning"
        /\ UNCHANGED <<build, plugged, monitor, ctx, counts>>
      BY <1>4 DEF ReadUevent
  <2>2. /\ uevents' \in Seq({"add", "remove"} \X Ports) /\ Head(uevents) \in {"add", "remove"} \X Ports
      BY <1>1, <2>1, HeadTailProperties
  <2>3. refused' \subseteq Ports
      BY <1>1, <1>4, <2>2 DEF ReadUevent, Enumerate
  <2>4. monitor
      BY <2>1 DEF Around, Monitored
  <2>5. BusTypes'
      BY <1>1, <2>1, <2>2, <2>3 DEF BusTypes, Counting
  <2>6. Monitored'
      BY <2>1, <2>4 DEF Around, Monitored
  <2>7. Counters' /\ UsersHaveContext'
      BY <2>1 DEF Around, Counters, UsersHaveContext
  <2>8. QED
      BY <2>5, <2>6, <2>7 DEF Around
<1>5. CASE InitReuse
  <2>1. /\ ctx = "ready" /\ counts.inits < MaxInits
        /\ counts' = [counts EXCEPT !.inits = @ + 1, !.users = @ + 1, !.defaults = @ + 1]
        /\ UNCHANGED <<build, plugged, uevents, monitor, ctx, usb_devs, refused>>
      BY <1>5 DEF InitReuse, bus, objects, Shared
  <2> DEFINE i == counts.inits + 1
             u == counts.users + 1
             d == counts.defaults + 1
  <2>2. /\ i \in 0..MaxInits /\ u \in 0..MaxInits /\ d \in 0..MaxInits
        /\ counts' = [counts EXCEPT !.inits = i, !.users = u, !.defaults = d]
    <3>1. counts.inits + 1 <= MaxInits /\ counts.users <= counts.inits /\ counts.defaults <= counts.inits
        BY <1>1, <1>2, <2>1
    <3>2. /\ counts.inits \in Nat /\ counts.users \in Nat /\ counts.defaults \in Nat
          /\ counts' = [counts EXCEPT !.inits = i, !.users = u, !.defaults = d]
        BY <1>1, <2>1
    <3>3. QED
        BY <3>1, <3>2
  <2> HIDE DEF i, u, d
  <2>3. counts'.inits = i /\ counts'.users = u /\ counts'.defaults = d /\ counts' \in Counting
    <3>1. counts \in Counting
        BY <1>2
    <3>2. QED
        BY <2>2, <3>1 DEF Counting
  <2> USE DEF i, u, d
  <2>4. Counters' /\ UsersHaveContext'
    <3>1. One(ctx' \in {"listed", "scanning", "scanned"}) = 0 /\ ctx' = "ready"
        BY <2>1 DEF One
    <3>2. counts'.users <= counts'.defaults /\ counts'.defaults <= counts'.inits /\ counts'.users \in Int
        BY <1>1, <1>2, <2>3
    <3>3. QED
        BY <3>1, <3>2 DEF Counters, UsersHaveContext
  <2>5. BusTypes' /\ Monitored'
      BY <1>1, <2>1, <2>3 DEF BusTypes, Counting, Around, Monitored
  <2>6. QED
      BY <2>4, <2>5 DEF Around
<1>6. CASE InitBegin
  <2>1. /\ ctx = "none" /\ ctx' = "listed" /\ counts.inits < MaxInits
        /\ counts' = [counts EXCEPT !.inits = @ + 1, !.defaults = @ + 1]
        /\ UNCHANGED <<build, plugged, uevents, monitor, usb_devs, refused>>
      BY <1>6 DEF InitBegin, bus
  <2> DEFINE i == counts.inits + 1
             u == counts.users
             d == counts.defaults + 1
  <2>2. /\ i \in 0..MaxInits /\ u \in 0..MaxInits /\ d \in 0..MaxInits /\ u = counts.users
        /\ counts' = [counts EXCEPT !.inits = i, !.defaults = d]
      BY <1>1, <1>2, <2>1
  <2> HIDE DEF i, u, d
  <2>3. counts'.inits = i /\ counts'.users = u /\ counts'.defaults = d /\ counts' \in Counting
    <3>1. counts \in Counting
        BY <1>2
    <3>2. QED
        BY <2>2, <3>1 DEF Counting
  <2> USE DEF i, u, d
  <2>4. Counters' /\ UsersHaveContext'
      BY <1>1, <1>2, <2>1, <2>3 DEF Counters, UsersHaveContext, One
  <2>5. usb_devs = <<>>
      BY <2>1 DEF Core, Quiet
  <2>6. BusTypes' /\ Monitored'
      BY <1>1, <2>1, <2>3, <2>5 DEF BusTypes, Counting, Around, Monitored
  <2>7. QED
      BY <2>4, <2>6 DEF Around
<1>7. CASE StartMonitor
  <2>1. /\ ctx = "listed" /\ ~monitor /\ build = "netlink" /\ monitor' = TRUE
        /\ UNCHANGED <<build, plugged, uevents, ctx, counts, refused>>
      BY <1>7 DEF StartMonitor
  <2>2. BusTypes' /\ Monitored' /\ Counters' /\ UsersHaveContext'
      BY <2>1 DEF Around, BusTypes, Monitored, Counters, UsersHaveContext
  <2>3. QED
      BY <2>2 DEF Around
<1>8. CASE ScanBegins \/ ScanEnds
  <2>1. /\ ctx \in {"listed", "scanning"} /\ ctx' \in {"scanning", "scanned"}
        /\ ctx = "listed" => monitor = (build = "netlink")
        /\ UNCHANGED <<build, plugged, uevents, monitor, counts, refused>>
      BY <1>8 DEF ScanBegins, ScanEnds, bus
  <2>2. BusTypes' /\ Monitored'
      BY <2>1 DEF Around, BusTypes, Monitored
  <2>3. Counters' /\ UsersHaveContext'
      BY <1>1, <1>2, <2>1 DEF Counters, UsersHaveContext, One
  <2>4. QED
      BY <2>2, <2>3 DEF Around
<1>9. ASSUME NEW p \in Ports, NEW ok \in BOOLEAN, ScanOne(p, ok) PROVE Around'
  <2>1. /\ ctx = "scanning" /\ refused' \in {refused \cup {p}, refused \ {p}}
        /\ UNCHANGED <<build, plugged, uevents, monitor, ctx, counts>>
      BY <1>9 DEF ScanOne, Enumerate, bus
  <2>2. BusTypes' /\ Monitored' /\ Counters' /\ UsersHaveContext'
      BY <2>1 DEF Around, BusTypes, Monitored, Counters, UsersHaveContext
  <2>3. QED
      BY <2>2 DEF Around
<1>10. CASE InitDone
  <2>1. /\ ctx = "scanned" /\ ctx' = "ready" /\ counts' = [counts EXCEPT !.users = @ + 1]
        /\ UNCHANGED <<build, plugged, uevents, monitor, usb_devs, refused>>
      BY <1>10 DEF InitDone, bus, objects
  <2>2. counts.users + 1 <= counts.defaults
      BY <1>1, <1>2, <2>1 DEF One
  <2> DEFINE i == counts.inits
             u == counts.users + 1
             d == counts.defaults
  <2>3. /\ i \in 0..MaxInits /\ u \in 0..MaxInits /\ d \in 0..MaxInits
        /\ i = counts.inits /\ d = counts.defaults /\ counts' = [counts EXCEPT !.users = u]
      BY <1>1, <2>1, <2>2
  <2> HIDE DEF i, u, d
  <2>4. counts'.inits = i /\ counts'.users = u /\ counts'.defaults = d /\ counts' \in Counting
    <3>1. counts \in Counting
        BY <1>2
    <3>2. QED
        BY <2>3, <3>1 DEF Counting
  <2> USE DEF i, u, d
  <2>5. Counters' /\ UsersHaveContext'
      BY <1>1, <1>2, <2>1, <2>4 DEF Counters, UsersHaveContext, One
  <2>6. BusTypes' /\ Monitored'
      BY <1>1, <2>1, <2>4 DEF BusTypes, Counting, Around, Monitored
  <2>7. QED
      BY <2>5, <2>6 DEF Around
<1>11. CASE InitFails
  <2>1. /\ ctx \in {"scanning", "scanned"} /\ ctx' = "none" /\ refused' = {} /\ monitor' = FALSE
        /\ uevents' = <<>> /\ UNCHANGED <<build, plugged, counts>>
      BY <1>11 DEF InitFails, EndContext, StopMonitor
  <2>2. uevents' \in Seq({"add", "remove"} \X Ports)
      BY <2>1
  <2>3. BusTypes'
      BY <1>1, <2>1, <2>2 DEF BusTypes, Counting
  <2>4. Monitored'
      BY <2>1 DEF Monitored
  <2>5. Counters' /\ UsersHaveContext'
      BY <1>1, <1>2, <2>1 DEF Counters, UsersHaveContext, One
  <2>6. QED
      BY <2>3, <2>4, <2>5 DEF Around
<1>12. CASE Exit
  <2>1. /\ ctx = "ready" /\ counts.users > 0
        /\ counts' = [counts EXCEPT !.users = @ - 1, !.defaults = @ - 1]
      BY <1>12 DEF Exit
  <2> DEFINE i == counts.inits
             u == counts.users - 1
             d == counts.defaults - 1
  <2>2. counts.users <= counts.defaults
      BY <1>2
  <2>3. /\ i \in 0..MaxInits /\ u \in 0..MaxInits /\ d \in 0..MaxInits /\ i = counts.inits
        /\ counts' = [counts EXCEPT !.users = u, !.defaults = d]
    <3>1. /\ counts.users \in 0..MaxInits /\ counts.defaults \in 0..MaxInits /\ counts.users > 0
          /\ counts.defaults > 0 /\ counts.inits \in 0..MaxInits
        BY <1>1, <2>1, <2>2
    <3>2. QED
        BY <2>1, <3>1
  <2> HIDE DEF i, u, d
  <2>4. counts'.inits = i /\ counts'.users = u /\ counts'.defaults = d /\ counts' \in Counting
    <3>1. counts \in Counting
        BY <1>2
    <3>2. QED
        BY <2>3, <3>1 DEF Counting
  <2> USE DEF i, u, d
  <2>5. CASE counts.defaults - 1 > 0
    <3>1. UNCHANGED <<build, plugged, uevents, monitor, ctx, usb_devs, refused>>
        BY <1>12, <2>5 DEF Exit, bus, objects
    <3>2. Counters' /\ UsersHaveContext'
        BY <1>1, <1>2, <2>1, <2>4, <3>1 DEF Counters, UsersHaveContext, One
    <3>3. BusTypes' /\ Monitored'
        BY <1>1, <2>4, <3>1 DEF BusTypes, Counting, Around, Monitored
    <3>4. QED
        BY <3>2, <3>3 DEF Around
  <2>6. CASE ~(counts.defaults - 1 > 0)
    <3>1. EndContext(ReadsPipe)
        BY <1>12, <2>6 DEF Exit
    <3>2. /\ ctx' = "none" /\ refused' = {} /\ monitor' = FALSE /\ uevents' = <<>>
          /\ UNCHANGED <<build, plugged>>
        BY <3>1 DEF EndContext, StopMonitor
    <3>3. Counters' /\ UsersHaveContext'
      <4>1. counts'.users <= counts'.defaults /\ counts'.defaults <= counts'.inits
            /\ counts'.users <= 0 /\ counts'.users \in Int
          BY <1>1, <1>2, <2>1, <2>2, <2>4, <2>6
      <4>2. One(ctx' \in {"listed", "scanning", "scanned"}) = 0
          BY <3>2 DEF One
      <4>3. QED
          BY <4>1, <4>2 DEF Counters, UsersHaveContext
    <3>4. uevents' \in Seq({"add", "remove"} \X Ports)
        BY <3>2
    <3>5. BusTypes'
        BY <1>1, <2>4, <3>2, <3>4 DEF BusTypes, Counting
    <3>6. Monitored'
        BY <3>2 DEF Monitored
    <3>7. QED
        BY <3>3, <3>5, <3>6 DEF Around
  <2>7. QED
      BY <2>5, <2>6
<1>13. CASE BusStep
    BY <1>3, <1>4, <1>13 DEF BusStep
<1>14. CASE ContextStep
    BY <1>5, <1>6, <1>7, <1>8, <1>9, <1>10, <1>11, <1>12, <1>14 DEF ContextStep
<1>15. CASE AppStep \/ \E done \in BOOLEAN : HandleMessage(done)
    BY <1>15, AppIsApart, AroundKept
<1>16. QED
    BY <1>13, <1>14, <1>15 DEF Next

LEMMA InitCore == Init => Core /\ Around
<1> SUFFICES ASSUME Init PROVE Core /\ Around
    OBVIOUS
<1> USE DeviceListAssumption DEF DeviceListAssumption
<1>1. /\ Listed = {} /\ Departed = {} /\ Arriving = {} /\ Untold = {}
      /\ registering.listing = <<>> /\ registering.at = "no"
  <2>1. registering.listing = <<>> /\ registering.at = "no" /\ usb_devs = <<>> /\ hotplug_pipe = <<>>
      BY DEF Init, Unregistering
  <2>2. QED
      BY <2>1, NothingListed DEF Listed, Departed, Arriving, Untold
<1>2. ObjectTypes
  <2>1. /\ opening \in [dev : 0..MaxDevs, at : {"idle", "path", "gone"}]
        /\ registering \in [at : {"no", "added", "listed"}, listing : Seq(Devs)]
    <3>1. opening = [dev |-> 0, at |-> "idle"] /\ registering = [at |-> "no", listing |-> <<>>]
        BY DEF Init, Idle, Unregistering
    <3>2. 0 \in 0..MaxDevs /\ <<>> \in Seq(Devs)
        OBVIOUS
    <3>3. QED
        BY <3>1, <3>2
  <2>2. /\ refcnt \in [Devs -> Nat] /\ held \in [Devs -> Nat] /\ handles \in [Devs -> {0, 1}]
        /\ born \in 0..MaxDevs /\ base \in 0..born
        /\ port \in Seq(Ports) /\ usb_devs \in Seq(Devs) /\ hotplug_pipe \in Seq(Messages)
      BY DEF Init
  <2>3. QED
      BY <2>1, <2>2 DEF Init, ObjectTypes
<1>3. Lists
    BY <1>1, NothingListed DEF Init, Lists
<1>4. Numbers
    BY <1>1 DEF Init, Numbers, Idle
<1>5. Quiet /\ Calling /\ Hears
    BY <1>1 DEF Init, Quiet, Calling, Hears, Idle
<1>6. Counted
  <2>1. \A d \in Devs : Refs(d) = 0 /\ refcnt[d] = 0
      BY <1>1 DEF Init, Refs, Users, One, Idle, Devs
  <2>2. QED
      BY <2>1 DEF Counted
<1>7. Around
  <2>1. BusTypes /\ Monitored
    <3>1. counts \in [inits : 0..MaxInits, uevents : 0..MaxUevents, defaults : 0..MaxInits,
                      users : 0..MaxInits]
        BY DEF Init
    <3>2. uevents \in Seq({"add", "remove"} \X Ports)
        BY DEF Init
    <3>3. Monitored
        BY DEF Init, Monitored
    <3>4. QED
        BY <3>1, <3>2, <3>3 DEF Init, BusTypes
  <2>2. Counters /\ UsersHaveContext
      BY DEF Init, Counters, UsersHaveContext, One
  <2>3. QED
      BY <2>1, <2>2 DEF Around
<1>8. QED
    BY <1>2, <1>3, <1>4, <1>5, <1>6, <1>7 DEF Core

LEMMA StutterCore == Core /\ Around /\ UNCHANGED vars => Core' /\ Around'
<1> SUFFICES ASSUME Core, Around, UNCHANGED vars PROVE Core' /\ Around'
    OBVIOUS
<1>1. UNCHANGED <<objects, users, calls, strays, ctx>> /\ UNCHANGED <<build, bus, ctx, counts, refused>>
      /\ usb_devs' = usb_devs
    BY DEF vars, objects
<1>2. QED
    BY <1>1, PhaseStep, AroundKept

LEMMA AlwaysCore == Spec => [](Core /\ Around)
<1>1. Core /\ Around /\ [Next]_vars => (Core /\ Around)'
  <2>1. Around => BusTypes /\ Monitored
      BY DEF Around
  <2>2. QED
      BY <2>1, CoreNext, AroundNext, StutterCore
<1>2. QED
    BY InitCore, <1>1, PTL DEF Spec

\* Every field has its type, above all: a reference count never sinks below zero
\* (libusb_unref_device), and no device has two handles.
THEOREM TypeCorrect == Spec => []TypeOK
<1>1. Core /\ Around => TypeOK
    BY TypeParts DEF Core, Around
<1>2. QED
    BY AlwaysCore, <1>1, PTL

\* Who has a device in hand has a reference to it: the list, the application, an open handle, an
\* open in progress, a registration, a message of a departure; a message of an arrival is read
\* while somebody has one (libusb_ref_device, libusb_unref_device, usbi_connect_device).
THEOREM NobodyHasFreedDevice == Spec => []NothingDangles
<1>1. Core => NothingDangles
  <2> SUFFICES ASSUME Core PROVE NothingDangles
      OBVIOUS
  <2>1. /\ usb_devs \in Seq(Devs) /\ Once(usb_devs) /\ registering.listing \in Seq(Devs)
        /\ Once(registering.listing) /\ InOrder(hotplug_pipe, Listed) /\ born \in 0..MaxDevs
        /\ hotplug_pipe \in Seq(Messages)
      BY DEF Core, ObjectTypes, Lists
  <2>2. Len(usb_devs) \in Nat /\ Len(registering.listing) \in Nat /\ Len(hotplug_pipe) \in Nat
      BY <2>1, LenProperties
  <2>3. ASSUME NEW d \in 1..born PROVE refcnt[d] >= Owners(d)
    <3>1. d \in Devs
        BY <2>1, DeviceListAssumption DEF Devs, DeviceListAssumption
    <3>2. Cardinality({i \in 1..Len(usb_devs) : usb_devs[i] = d}) = One(d \in Listed)
      <4>1. Cardinality({i \in 1..Len(usb_devs) : usb_devs[i] = d})
                = One(\E i \in 1..Len(usb_devs) : usb_devs[i] = d)
        <5>1. \A i, j \in 1..Len(usb_devs) : usb_devs[i] = d /\ usb_devs[j] = d => i = j
            BY <2>1 DEF Once
        <5>2. QED
            BY <2>2, <5>1, CountedOnce
      <4>2. d \in Listed <=> \E i \in 1..Len(usb_devs) : usb_devs[i] = d
          BY <2>1, RangeFacts DEF Listed
      <4>3. QED
          BY <4>1, <4>2 DEF One
    <3>3. Cardinality({i \in 1..Len(registering.listing) : registering.listing[i] = d}) = One(d \in Untold)
      <4> DEFINE s == registering.listing
      <4>1. Cardinality({i \in 1..Len(s) : s[i] = d}) = One(\E i \in 1..Len(s) : s[i] = d)
        <5>1. Len(s) \in Nat /\ \A i, j \in 1..Len(s) : s[i] = d /\ s[j] = d => i = j
            BY <2>1, <2>2 DEF Once
        <5> HIDE DEF s
        <5>2. QED
            BY <5>1, CountedOnce
      <4>2. d \in Untold <=> \E i \in 1..Len(s) : s[i] = d
          BY <2>1, RangeFacts DEF Untold
      <4>3. QED
          BY <4>1, <4>2 DEF One
    <3>4. LeftMessages(d) = One(d \in Departed)
        BY <3>1, LeftOnce
    <3>5. held[d] \in Nat /\ handles[d] \in {0, 1}
        BY <3>1 DEF Core, ObjectTypes
    <3>6. Owners(d) = Refs(d)
      <4> DEFINE a == One(d \in Listed)
                 b == One(d \in Departed)
                 c == One(opening.dev = d)
                 e == One(d \in Untold)
      <4>1. a \in Nat /\ b \in Nat /\ c \in Nat /\ e \in Nat
          BY DEF One
      <4>2. Refs(d) = a + b + (held[d] + handles[d] + c) + e
          BY DEF Refs, Users
      <4>3. Owners(d) = a + b + held[d] + handles[d] + c + e
          BY <3>2, <3>3, <3>4 DEF Owners, One
      <4> HIDE DEF a, b, c, e
      <4>4. QED
          BY <3>5, <4>1, <4>2, <4>3
    <3>7. QED
        BY <3>1, <3>6 DEF Core, Counted
  <2>4. ASSUME NEW i \in 1..Len(hotplug_pipe), hotplug_pipe[i][1] = "arrived"
        PROVE  refcnt[hotplug_pipe[i][2]] > 0
    <3> DEFINE d == hotplug_pipe[i][2]
    <3>1. d \in Devs
        BY <2>1, <2>4 DEF InOrder
    <3>2. d \in Listed \/ d \in Departed
      <4>1. d \in Listed \/ \E j \in (i + 1)..Len(hotplug_pipe) : hotplug_pipe[j] = <<"left", d>>
          BY <2>1, <2>4 DEF InOrder
      <4>2. \A j \in (i + 1)..Len(hotplug_pipe) : j \in 1..Len(hotplug_pipe)
          BY <2>2
      <4>3. QED
          BY <3>1, <4>1, <4>2 DEF Departed, Of
    <3>3. held[d] \in Nat /\ handles[d] \in {0, 1} /\ refcnt[d] \in Nat
        BY <3>1 DEF Core, ObjectTypes
    <3>4. refcnt[d] >= Refs(d)
        BY <3>1 DEF Core, Counted
    <3> HIDE DEF d
    <3>5. Refs(d) > 0 /\ Refs(d) \in Int
      <4> DEFINE x == One(d \in Listed)
                 y == One(d \in Departed)
                 z == One(d \in Untold)
                 u == One(opening.dev = d)
      <4>1. x \in Nat /\ y \in Nat /\ z \in Nat /\ u \in Nat /\ x + y > 0
          BY <3>2 DEF One
      <4>2. Refs(d) = x + y + (held[d] + handles[d] + u) + z
          BY DEF Refs, Users
      <4> HIDE DEF x, y, z, u
      <4>3. QED
          BY <3>3, <4>1, <4>2
    <3>6. refcnt[d] > 0
        BY <3>3, <3>4, <3>5
    <3>7. QED
        BY <3>6 DEF d
  <2>5. QED
      BY <2>3, <2>4 DEF NothingDangles
<1>2. QED
    BY AlwaysCore, <1>1, PTL

\* After the last libusb_exit, which lets go of the list and of the messages in the pipe, a device
\* lives only for who did not give it back.
THEOREM NothingIsLeaked == Spec => []NoLeak
<1>1. Core => NoLeak
  <2> SUFFICES ASSUME Core, ctx = "none", NEW d \in Live, d \notin strays PROVE held[d] > 0
      BY DEF NoLeak
  <2>1. d \in Devs /\ refcnt[d] > 0 /\ d # 0
      BY DeviceListAssumption DEF Live, Core, ObjectTypes, Devs, DeviceListAssumption
  <2>2. /\ hotplug_pipe = <<>> /\ usb_devs = <<>> /\ opening = Idle /\ registering = Unregistering
        /\ handles[d] = 0
      BY <2>1 DEF Core, Quiet
  <2>3. registering.listing = <<>> /\ opening.dev = 0
      BY <2>2 DEF Unregistering, Idle
  <2>4. Listed = {} /\ Departed = {} /\ Untold = {}
      BY <2>2, <2>3, NothingListed DEF Listed, Departed, Untold
  <2>5. Refs(d) = held[d]
      BY <2>1, <2>2, <2>3, <2>4 DEF Refs, Users, One, Core, ObjectTypes
  <2>6. QED
      BY <2>1, <2>5 DEF Core, Counted
<1>2. QED
    BY AlwaysCore, <1>1, PTL

\* A hotplug callback hears of each device in the list, in the pipe or from the enumeration of
\* libusb_hotplug_register_callback, whenever the device arrived.
THEOREM CallbackHearsAll == Spec => []NoDeviceMissed
<1>1. Core => NoDeviceMissed
  <2> SUFFICES ASSUME Core, cb = "armed", registering = Unregistering, hotplug_pipe = <<>>
               PROVE  Listed \subseteq heard
      BY DEF NoDeviceMissed
  <2>1. registering.listing = <<>> /\ registering.at = "no"
      BY DEF Unregistering
  <2>2. Arriving = {} /\ Untold = {}
      BY <2>1, NothingListed DEF Arriving, Untold
  <2>3. QED
      BY <2>1, <2>2 DEF Core, Hears
<1>2. QED
    BY AlwaysCore, <1>1, PTL

\* default_context_refcnt keeps the default context while an init is not undone (libusb_init2,
\* libusb_exit).
THEOREM UsersKeepContext == Spec => []UsersHaveContext
<1>1. Around => UsersHaveContext
    BY DEF Around
<1>2. QED
    BY AlwaysCore, <1>1, PTL

------------------------------------------------------------------------------
(* The list and the bus *)

Has(q, kind, p)           == \E i \in 1..Len(q) : q[i] = <<kind, p>>
Follows(q, kind, next, p) == \A i \in 1..Len(q) : q[i] = <<kind, p>> =>
                                 \E j \in (i + 1)..Len(q) : q[j] = <<next, p>>

\* One device for a port that is not refused, and none that an open found gone unless a uevent
\* is going to say so.
OnePerPort ==
    /\ \A d, e \in Listed : port[d] = port[e] => d = e
    /\ \A d \in Listed : port[d] \notin refused
    /\ opening.at = "gone" /\ opening.dev \in attached => Has(uevents, "remove", port[opening.dev])

\* The last uevent about a port says what is plugged there, and one that changes the list is
\* still to be read where the list is not right.
Told(p) ==
    /\ p \in plugged => Follows(uevents, "remove", "add", p)
    /\ p \notin plugged => Follows(uevents, "add", "remove", p)
    /\ Known(p) /\ p \notin plugged => Has(uevents, "remove", p)
    /\ ctx \in {"scanned", "ready"} /\ p \in plugged \ refused /\ ~Known(p) => Has(uevents, "add", p)

Watched == build = "netlink" => OnePerPort /\ \A p \in Ports : Told(p)

LEMMA NothingToRead == \A kind, next, p : ~Has(<<>>, kind, p) /\ Follows(<<>>, kind, next, p)
    BY DEF Has, Follows

\* A uevent comes: it is the last one about its port.
LEMMA UeventComes ==
    ASSUME NEW q, NEW t, NEW kind, NEW p, Grown(t, q, <<kind, p>>), Len(q) \in Nat
    PROVE  /\ Has(t, kind, p)
           /\ \A k, r : Has(q, k, r) => Has(t, k, r)
           /\ \A k, n, r : r # p /\ Follows(q, k, n, r) => Follows(t, k, n, r)
           /\ \A k : k # kind => Follows(t, k, kind, p)
<1> DEFINE m == <<kind, p>>
<1>1. /\ Len(t) = Len(q) + 1 /\ t[Len(q) + 1] = m /\ \A i \in 1..Len(q) : t[i] = q[i]
      /\ Len(q) + 1 \in 1..Len(t) /\ \A i \in 1..Len(q) : i \in 1..Len(t)
    BY DEF Grown
<1>2. ASSUME NEW i \in 1..Len(t)
      PROVE  (i \in 1..Len(q) /\ t[i] = q[i]) \/ (i = Len(q) + 1 /\ t[i] = m)
    BY <1>1
<1>3. Has(t, kind, p)
    BY <1>1 DEF Has
<1>4. \A k, r : Has(q, k, r) => Has(t, k, r)
    BY <1>1 DEF Has
<1>5. ASSUME NEW k, NEW n, NEW r, r # p, Follows(q, k, n, r) PROVE Follows(t, k, n, r)
  <2> SUFFICES ASSUME NEW i \in 1..Len(t), t[i] = <<k, r>>
               PROVE  \E j \in (i + 1)..Len(t) : t[j] = <<n, r>>
      BY DEF Follows
  <2>1. i \in 1..Len(q) /\ q[i] = <<k, r>>
      BY <1>2, <1>5
  <2>2. PICK j \in (i + 1)..Len(q) : q[j] = <<n, r>>
      BY <1>5, <2>1 DEF Follows
  <2>3. j \in 1..Len(q) /\ j \in (i + 1)..Len(t)
      BY <1>1, <2>1, <2>2
  <2>4. QED
      BY <1>1, <2>2, <2>3
<1>6. ASSUME NEW k, k # kind PROVE Follows(t, k, kind, p)
  <2> SUFFICES ASSUME NEW i \in 1..Len(t), t[i] = <<k, p>>
               PROVE  \E j \in (i + 1)..Len(t) : t[j] = m
      BY DEF Follows
  <2>1. i \in 1..Len(q)
      BY <1>2, <1>6
  <2>2. Len(q) + 1 \in (i + 1)..Len(t)
      BY <1>1, <2>1
  <2>3. QED
      BY <1>1, <2>2
<1>7. QED
    BY <1>3, <1>4, <1>5, <1>6

\* A uevent is read: the others stay in their order.
LEMMA UeventRead ==
    ASSUME NEW S, NEW q \in Seq(S), q # <<>>
    PROVE  /\ \A k, r : Has(q, k, r) => Has(Tail(q), k, r) \/ Head(q) = <<k, r>>
           /\ \A k, n, r : Follows(q, k, n, r) => /\ Follows(Tail(q), k, n, r)
                                                  /\ Head(q) = <<k, r>> => Has(Tail(q), n, r)
           /\ \A k, n, r : Follows(q, k, n, r) /\ Has(q, k, r) => Has(q, n, r)
<1> DEFINE t == Tail(q)
<1>1. /\ 1 \in 1..Len(q) /\ Len(q) \in Nat /\ Len(t) = Len(q) - 1 /\ Head(q) = q[1]
      /\ \A i \in 1..Len(t) : t[i] = q[i + 1]
    BY TailIsWithout
<1> HIDE DEF t
<1>2. ASSUME NEW i \in 1..Len(t) PROVE i + 1 \in 1..Len(q) /\ t[i] = q[i + 1] /\ i \in Nat
    BY <1>1
<1>3. ASSUME NEW i \in 1..Len(q), i # 1
      PROVE  i - 1 \in 1..Len(t) /\ q[i] = t[i - 1] /\ i \in Nat
    BY <1>1, <1>3
<1>4. ASSUME NEW k, NEW r, Has(q, k, r) PROVE Has(t, k, r) \/ q[1] = <<k, r>>
  <2>1. PICK i \in 1..Len(q) : q[i] = <<k, r>>
      BY <1>4 DEF Has
  <2>2. CASE i # 1
      BY <1>3, <2>1, <2>2 DEF Has
  <2>3. QED
      BY <2>1, <2>2
<1>5. ASSUME NEW k, NEW n, NEW r, Follows(q, k, n, r)
      PROVE  Follows(t, k, n, r) /\ (q[1] = <<k, r>> => Has(t, n, r))
  <2>1. ASSUME NEW i \in 1..Len(t), t[i] = <<k, r>> PROVE \E j \in (i + 1)..Len(t) : t[j] = <<n, r>>
    <3>1. i + 1 \in 1..Len(q) /\ q[i + 1] = <<k, r>> /\ i \in Nat
        BY <1>2, <2>1
    <3>2. PICK j \in ((i + 1) + 1)..Len(q) : q[j] = <<n, r>>
        BY <1>5, <3>1 DEF Follows
    <3>3. j \in 1..Len(q) /\ j # 1 /\ j - 1 \in (i + 1)..Len(t)
        BY <1>1, <3>1, <3>2
    <3>4. QED
        BY <1>3, <3>2, <3>3
  <2>2. ASSUME q[1] = <<k, r>> PROVE Has(t, n, r)
    <3>1. PICK j \in (1 + 1)..Len(q) : q[j] = <<n, r>>
        BY <1>1, <1>5, <2>2 DEF Follows
    <3>2. j \in 1..Len(q) /\ j # 1
        BY <1>1, <3>1
    <3>3. QED
        BY <1>3, <3>1, <3>2 DEF Has
  <2>3. QED
      BY <2>1, <2>2 DEF Follows
<1>6. ASSUME NEW k, NEW n, NEW r, Follows(q, k, n, r), Has(q, k, r) PROVE Has(q, n, r)
  <2>1. PICK i \in 1..Len(q) : q[i] = <<k, r>>
      BY <1>6 DEF Has
  <2>2. PICK j \in (i + 1)..Len(q) : q[j] = <<n, r>>
      BY <1>6, <2>1 DEF Follows
  <2>3. j \in 1..Len(q)
      BY <1>1, <2>1, <2>2
  <2>4. QED
      BY <2>2, <2>3 DEF Has
<1>7. QED
    BY <1>1, <1>4, <1>5, <1>6 DEF t

\* Without a monitor there is nothing to keep.
LEMMA NotWatched ==
    ASSUME Core', Monitored', ~monitor' PROVE Watched'
<1> SUFFICES ASSUME build' = "netlink" PROVE OnePerPort' /\ \A p \in Ports : Told(p)'
    BY DEF Watched
<1>1. ctx' \in {"none", "listed"} /\ uevents' = <<>>
    BY DEF Monitored, Core, ObjectTypes
<1>2. usb_devs' = <<>> /\ opening' = Idle
    BY <1>1 DEF Monitored, Core, Quiet
<1>3. Listed' = {}
    BY <1>2, NothingListed DEF Listed
<1>4. opening'.at # "gone"
    BY <1>2 DEF Idle
<1>5. OnePerPort'
    BY <1>3, <1>4 DEF OnePerPort
<1>6. ASSUME NEW p \in Ports PROVE Told(p)'
  <2>1. ~Known(p)' /\ ctx' \notin {"scanned", "ready"}
      BY <1>1, <1>3 DEF Known
  <2>2. Follows(uevents', "remove", "add", p) /\ Follows(uevents', "add", "remove", p)
      BY <1>1, NothingToRead
  <2>3. QED
      BY <2>1, <2>2 DEF Told
<1>7. QED
    BY <1>5, <1>6

\* What is listed stays, and so does what is plugged.
LEMMA WatchedKept ==
    ASSUME Watched, UNCHANGED <<build, plugged, uevents, usb_devs, attached, port, refused>>,
           \/ opening' = opening \/ opening'.at # "gone"
           \/ opening'.dev \in attached => Has(uevents, "remove", port[opening'.dev]),
           \/ ctx' = ctx \/ ctx' \notin {"scanned", "ready"} \/ ctx \in {"scanned", "ready"}
           \/ \A p \in plugged : Known(p) \/ p \in refused \/ Has(uevents, "add", p)
    PROVE  Watched'
<1> SUFFICES ASSUME build = "netlink" PROVE OnePerPort' /\ \A p \in Ports : Told(p)'
    BY DEF Watched
<1>1. OnePerPort /\ \A p \in Ports : Told(p)
    BY DEF Watched
<1>2. Listed' = Listed /\ \A p : Known(p)' = Known(p)
    BY DEF Listed, Known
<1>3. OnePerPort'
    BY <1>1, <1>2 DEF OnePerPort
<1>4. ASSUME NEW p \in Ports PROVE Told(p)'
  <2>1. Told(p)
      BY <1>1
  <2>2. ctx' \in {"scanned", "ready"} /\ p \in plugged \ refused /\ ~Known(p) => Has(uevents, "add", p)
      BY <2>1 DEF Told
  <2>3. QED
      BY <1>2, <2>1, <2>2 DEF Told
<1>5. QED
    BY <1>3, <1>4

LEMMA WatchedBus ==
    ASSUME Core, Around, Watched, monitor, NEW p \in Ports, Plug(p) \/ Unplug(p) \/ Change(p)
    PROVE  Watched'
<1> SUFFICES ASSUME build = "netlink" PROVE OnePerPort' /\ \A r \in Ports : Told(r)'
    BY DEF Watched, Plug, Unplug, Change, Bus
<1>1. OnePerPort /\ \A r \in Ports : Told(r)
    BY DEF Watched
<1>2. PICK kind \in {"add", "remove"} :
          /\ Bus(kind, p)
          /\ IF kind = "add" THEN plugged' = plugged \cup {p} ELSE plugged' = plugged \ {p}
    BY DEF Plug, Unplug, Change
<1>3. /\ uevents' = Append(uevents, <<kind, p>>)
      /\ UNCHANGED <<ctx, usb_devs, attached, port, refused, opening>>
    BY <1>2 DEF Bus, objects, users
<1>4. /\ uevents \in Seq({"add", "remove"} \X Ports) /\ <<kind, p>> \in {"add", "remove"} \X Ports
    BY DEF Around, BusTypes
<1>5. Grown(uevents', uevents, <<kind, p>>) /\ Len(uevents) \in Nat
    BY <1>3, <1>4, AppendGrows
<1>6. /\ Has(uevents', kind, p)
      /\ \A k, r : Has(uevents, k, r) => Has(uevents', k, r)
      /\ \A k, n, r : r # p /\ Follows(uevents, k, n, r) => Follows(uevents', k, n, r)
      /\ \A k : k # kind => Follows(uevents', k, kind, p)
  <2>1. Grown(uevents', uevents, <<kind, p>>) /\ Len(uevents) \in Nat
      BY <1>5
  <2>2. Has(uevents', kind, p)
      BY <2>1, UeventComes, Zenon
  <2>3. \A k, r : Has(uevents, k, r) => Has(uevents', k, r)
      BY <2>1, UeventComes, Zenon
  <2>4. \A k, n, r : r # p /\ Follows(uevents, k, n, r) => Follows(uevents', k, n, r)
      BY <2>1, UeventComes, Zenon
  <2>5. \A k : k # kind => Follows(uevents', k, kind, p)
      BY <2>1, UeventComes, Zenon
  <2>6. QED
      BY <2>2, <2>3, <2>4, <2>5
<1>7. Listed' = Listed /\ \A r : Known(r)' = Known(r)
    BY <1>3 DEF Listed, Known
<1>8. OnePerPort'
    BY <1>1, <1>3, <1>6, <1>7 DEF OnePerPort
<1>9. ASSUME NEW r \in Ports PROVE Told(r)'
  <2>1. Told(r)
      BY <1>1
  <2>2. CASE r = p
      BY <1>2, <1>3, <1>6, <1>7, <2>1, <2>2 DEF Told
  <2>3. CASE r # p
    <3>1. r \in plugged' <=> r \in plugged
        BY <1>2, <2>3
    <3>2. QED
        BY <1>3, <1>6, <1>7, <2>1, <2>3, <3>1 DEF Told
  <2>4. QED
      BY <2>2, <2>3
<1>10. QED
    BY <1>8, <1>9

\* A port is looked at: by the scan, where a camera is plugged, or at a uevent.
LEMMA WatchedEnumerate ==
    ASSUME Core, Watched, ctx # "none", NEW p \in Ports, NEW ok \in BOOLEAN, Enumerate(p, ok),
           UNCHANGED <<build, plugged, ctx, users, calls, strays>>,
           \/ uevents' = uevents /\ p \in plugged
           \/ uevents \in Seq({"add", "remove"} \X Ports) /\ uevents # <<>>
              /\ uevents' = Tail(uevents) /\ Head(uevents) = <<"add", p>>
    PROVE  Watched'
<1> SUFFICES ASSUME build = "netlink" PROVE OnePerPort' /\ \A r \in Ports : Told(r)'
    BY DEF Watched
<1>1. OnePerPort /\ \A r \in Ports : Told(r) /\ opening' = opening
    BY DEF Watched, users
<1>2. /\ Known(p) \/ ~ok => UNCHANGED usb_devs
      /\ ~Known(p) /\ ok => Listed' = Listed \cup {born'} /\ port'[born'] = p
      /\ ~Known(p) => born' \notin 1..born
      /\ \A d \in 1..born : port'[d] = port[d]
    BY EnumerateStep
<1>3. Listed \subseteq 1..born /\ opening.dev <= born /\ opening.dev \in Nat /\ born \in Nat
    BY DEF Core, Numbers, ObjectTypes
<1>4. /\ Known(p) => attached' = attached
      /\ ~Known(p) => attached' \subseteq attached \cup {born'}
      /\ refused' = IF Known(p) \/ ok THEN refused \ {p} ELSE refused \cup {p}
    BY DEF Enumerate, NewDevice, objects
<1>5. /\ \A k, r : Has(uevents, k, r) => Has(uevents', k, r) \/ <<"add", p>> = <<k, r>>
      /\ \A k, n, r : Follows(uevents, k, n, r) => Follows(uevents', k, n, r)
      /\ p \in plugged \/ Has(uevents', "remove", p)
  <2>1. CASE uevents' = uevents /\ p \in plugged
      BY <2>1
  <2>2. CASE uevents # <<>> /\ uevents' = Tail(uevents) /\ Head(uevents) = <<"add", p>>
             /\ uevents \in Seq({"add", "remove"} \X Ports)
    <3>1. /\ \A k, r : Has(uevents, k, r) => Has(uevents', k, r) \/ Head(uevents) = <<k, r>>
          /\ \A k, n, r : Follows(uevents, k, n, r) =>
                /\ Follows(uevents', k, n, r)
                /\ Head(uevents) = <<k, r>> => Has(uevents', n, r)
        BY <2>2, UeventRead
    <3>2. p \notin plugged => Follows(uevents, "add", "remove", p)
        BY <1>1 DEF Told
    <3>3. QED
        BY <2>2, <3>1, <3>2
  <2>3. QED
      BY <2>1, <2>2
<1>6. ASSUME NEW d \in Listed'
      PROVE  \/ d \in Listed /\ port'[d] = port[d]
             \/ ~Known(p) /\ ok /\ d = born' /\ port'[d] = p
  <2>1. d \in Listed \/ (~Known(p) /\ ok /\ d = born')
      BY <1>2 DEF Listed
  <2>2. QED
      BY <1>2, <1>3, <2>1
<1>7. Listed \subseteq Listed' /\ \A d \in Listed : port'[d] = port[d]
    BY <1>2, <1>3 DEF Listed
<1>8. /\ \A r : r # p => (Known(r)' <=> Known(r))
      /\ Known(p)' \/ p \in refused'
      /\ \A r : r # p => (r \in refused' <=> r \in refused)
  <2>1. ASSUME NEW r, r # p PROVE Known(r)' <=> Known(r)
    <3>1. Known(r)' <=> \E d \in Listed' : port'[d] = r
        BY DEF Known
    <3>2. Known(r) <=> \E d \in Listed : port[d] = r
        BY DEF Known
    <3>3. QED
        BY <1>6, <1>7, <2>1, <3>1, <3>2
  <2>2. Known(p)' \/ p \in refused'
    <3>1. CASE Known(p)
        BY <1>7, <3>1 DEF Known
    <3>2. CASE ~Known(p) /\ ok
        BY <1>2, <3>2 DEF Known
    <3>3. CASE ~Known(p) /\ ~ok
        BY <1>4, <3>3
    <3>4. QED
        BY <3>1, <3>2, <3>3
  <2>3. QED
      BY <1>4, <2>1, <2>2
<1>9. OnePerPort'
  <2>1. ASSUME NEW d \in Listed', NEW e \in Listed', port'[d] = port'[e] PROVE d = e
    <3>1. ~Known(p) => \A c \in Listed : port[c] # p
        BY DEF Known
    <3>2. QED
        BY <1>1, <1>6, <2>1, <3>1 DEF OnePerPort
  <2>2. ASSUME NEW d \in Listed' PROVE port'[d] \notin refused'
    <3>1. ~Known(p) => \A c \in Listed : port[c] # p
        BY DEF Known
    <3>2. QED
        BY <1>1, <1>4, <1>6, <3>1 DEF OnePerPort
  <2>3. opening'.at = "gone" /\ opening'.dev \in attached' => Has(uevents', "remove", port'[opening'.dev])
    <3> SUFFICES ASSUME opening.at = "gone", opening.dev \in attached'
                 PROVE  Has(uevents', "remove", port'[opening.dev])
        BY <1>1
    <3>1. opening.dev \in 1..born
      <4>1. opening.dev # 0
          BY DEF Core, Calling
      <4>2. QED
          BY <1>3, <4>1
    <3>2. opening.dev \in attached
        BY <1>2, <1>4, <3>1
    <3>3. Has(uevents, "remove", port[opening.dev])
        BY <1>1, <3>2 DEF OnePerPort
    <3>4. QED
        BY <1>2, <1>5, <3>1, <3>3
  <2>4. QED
      BY <2>1, <2>2, <2>3 DEF OnePerPort
<1>10. ASSUME NEW r \in Ports PROVE Told(r)'
  <2>1. Told(r)
      BY <1>1
  <2>2. CASE r = p
      BY <1>5, <1>8, <2>1, <2>2 DEF Told
  <2>3. CASE r # p
      BY <1>5, <1>8, <2>1, <2>3 DEF Told
  <2>4. QED
      BY <2>2, <2>3
<1>11. QED
    BY <1>9, <1>10

\* A device leaves the list: its uevent was read, or an open found it gone.
LEMMA WatchedDisconnect ==
    ASSUME Core, Watched, NEW p \in Ports, Disconnected(p), UNCHANGED <<build, plugged, ctx, refused>>,
           \/ UNCHANGED <<held, handles, calls, refcnt, opening>>
           \/ /\ opening.at # "idle" /\ opening' = Idle /\ UNCHANGED <<held, handles, calls>>
              /\ refcnt' = [refcnt EXCEPT ![opening.dev] = @ - 1],
           \/ uevents' = uevents /\ Has(uevents, "remove", p) /\ opening' = Idle
           \/ uevents \in Seq({"add", "remove"} \X Ports) /\ uevents # <<>>
              /\ uevents' = Tail(uevents) /\ Head(uevents) = <<"remove", p>> /\ opening' = opening
    PROVE  Watched'
<1> SUFFICES ASSUME build = "netlink" PROVE OnePerPort' /\ \A r \in Ports : Told(r)'
    BY DEF Watched
<1>1. OnePerPort /\ \A r \in Ports : Told(r)
    BY DEF Watched
<1>2. /\ ~Known(p) => UNCHANGED <<usb_devs, attached, port>>
      /\ Known(p) => \E d \in Listed : /\ port[d] = p /\ attached' = attached \ {d}
                                       /\ Listed' = Listed \ {d} /\ port' = port
    BY DisconnectStep
<1>3. /\ Listed' \subseteq Listed /\ port' = port /\ attached' \subseteq attached
      /\ \A d \in Listed' : port[d] # p
      /\ \A d \in Listed : port[d] # p => d \in Listed'
      /\ \A d \in Listed : port[d] = p => d \notin attached'
  <2>1. CASE Known(p)
    <3>1. PICK d \in Listed : /\ port[d] = p /\ attached' = attached \ {d}
                              /\ Listed' = Listed \ {d} /\ port' = port
        BY <1>2, <2>1
    <3>2. \A e \in Listed : port[e] = p => e = d
        BY <1>1, <3>1 DEF OnePerPort
    <3>3. QED
        BY <3>1, <3>2
  <2>2. CASE ~Known(p)
    <3>1. Listed' = Listed /\ \A d \in Listed : port[d] # p
        BY <1>2, <2>2 DEF Listed, Known
    <3>2. QED
        BY <1>2, <2>2, <3>1
  <2>3. QED
      BY <2>1, <2>2
<1>4. ~Known(p)' /\ \A r : r # p => (Known(r)' <=> Known(r))
    BY <1>3 DEF Known
<1>5. /\ \A k, r : Has(uevents, k, r) => Has(uevents', k, r) \/ <<"remove", p>> = <<k, r>>
      /\ \A k, n, r : Follows(uevents, k, n, r) => Follows(uevents', k, n, r)
      /\ p \in plugged => Has(uevents', "add", p)
      /\ opening' \in {Idle, opening}
  <2>1. p \in plugged => Follows(uevents, "remove", "add", p)
      BY <1>1 DEF Told
  <2>2. CASE uevents' = uevents /\ Has(uevents, "remove", p) /\ opening' = Idle
    <3>1. p \in plugged => Has(uevents, "add", p)
      <4>1. ASSUME NEW i \in 1..Len(uevents), uevents[i] = <<"remove", p>>, p \in plugged
            PROVE  Has(uevents, "add", p)
        <5>1. PICK j \in (i + 1)..Len(uevents) : uevents[j] = <<"add", p>>
            BY <2>1, <4>1 DEF Follows
        <5>2. j \in 1..Len(uevents)
            BY <5>1
        <5>3. QED
            BY <5>1, <5>2 DEF Has
      <4>2. QED
          BY <2>2, <4>1 DEF Has
    <3>2. QED
        BY <2>2, <3>1
  <2>3. CASE uevents # <<>> /\ uevents' = Tail(uevents) /\ Head(uevents) = <<"remove", p>>
             /\ uevents \in Seq({"add", "remove"} \X Ports) /\ opening' = opening
    <3>1. /\ \A k, r : Has(uevents, k, r) => Has(uevents', k, r) \/ Head(uevents) = <<k, r>>
          /\ \A k, n, r : Follows(uevents, k, n, r) =>
                /\ Follows(uevents', k, n, r)
                /\ Head(uevents) = <<k, r>> => Has(uevents', n, r)
        BY <2>3, UeventRead
    <3>2. QED
        BY <2>1, <2>3, <3>1
  <2>4. QED
      BY <2>2, <2>3
<1>6. OnePerPort'
  <2>1. opening'.at = "gone" /\ opening'.dev \in attached' => Has(uevents', "remove", port'[opening'.dev])
    <3> SUFFICES ASSUME opening'.at = "gone", opening'.dev \in attached'
                 PROVE  Has(uevents', "remove", port'[opening'.dev])
        OBVIOUS
    <3>1. opening' = opening
        BY <1>5 DEF Idle
    <3>2. opening.dev \in attached /\ Has(uevents, "remove", port[opening.dev])
        BY <1>1, <1>3, <3>1 DEF OnePerPort
    <3>3. opening.dev \in Listed
      <4>1. opening.dev # 0 /\ opening.dev > base /\ opening.dev <= born /\ opening.dev \in Nat
            /\ base \in Nat /\ born \in Nat /\ ctx # "none"
          BY <3>1 DEF Core, Calling, Numbers, ObjectTypes, Quiet, Idle
      <4>2. opening.dev \in (base + 1)..born
          BY <4>1
      <4>3. QED
          BY <3>2, <4>1, <4>2 DEF Core, Numbers
    <3>4. port[opening.dev] # p
        BY <1>3, <3>1, <3>3
    <3>5. QED
        BY <1>3, <1>5, <3>1, <3>2, <3>4
  <2>2. QED
      BY <1>1, <1>3, <2>1 DEF OnePerPort
<1>7. ASSUME NEW r \in Ports PROVE Told(r)'
  <2>1. Told(r)
      BY <1>1
  <2>2. CASE r = p
      BY <1>4, <1>5, <2>1, <2>2 DEF Told
  <2>3. CASE r # p
      BY <1>4, <1>5, <2>1, <2>3 DEF Told
  <2>4. QED
      BY <2>2, <2>3
<1>8. QED
    BY <1>6, <1>7

LEMMA WatchedReadUevent ==
    ASSUME Core, Around, Watched, NEW ok \in BOOLEAN, ReadUevent(ok) PROVE Watched'
<1>1. /\ uevents # <<>> /\ uevents \in Seq({"add", "remove"} \X Ports) /\ uevents' = Tail(uevents)
      /\ UNCHANGED <<build, plugged, ctx, held, handles, opening, calls>> /\ UNCHANGED users
    BY DEF ReadUevent, Around, BusTypes, users
<1>2. ctx # "none"
    BY <1>1 DEF Around, Monitored
<1> DEFINE p == Head(uevents)[2]
<1>3. p \in Ports /\ Head(uevents) = <<Head(uevents)[1], p>>
  <2>1. Head(uevents) \in {"add", "remove"} \X Ports
      BY <1>1, HeadTailProperties
  <2>2. QED
      BY <2>1
<1>4. \/ Head(uevents) = <<"add", p>> /\ Enumerate(p, ok) /\ UNCHANGED strays
      \/ Head(uevents) = <<"remove", p>> /\ Disconnected(p) /\ UNCHANGED <<refused, refcnt>>
    BY <1>3 DEF ReadUevent
<1> HIDE DEF p
<1>5. CASE Head(uevents) = <<"add", p>> /\ Enumerate(p, ok) /\ UNCHANGED strays
  <2>1. UNCHANGED <<build, plugged, ctx, users, calls, strays>>
      BY <1>1, <1>5
  <2>2. QED
      BY <1>1, <1>2, <1>3, <1>5, <2>1, WatchedEnumerate
<1>6. CASE Head(uevents) = <<"remove", p>> /\ Disconnected(p) /\ UNCHANGED <<refused, refcnt>>
  <2>1. UNCHANGED <<build, plugged, ctx, refused>> /\ UNCHANGED <<held, handles, calls, refcnt, opening>>
      BY <1>1, <1>6
  <2>2. QED
      BY <1>1, <1>3, <1>6, <2>1, WatchedDisconnect
<1>7. QED
    BY <1>4, <1>5, <1>6

LEMMA WatchedOpenGone ==
    ASSUME Core, Watched, OpenGone PROVE Watched'
<1> DEFINE p == port[opening.dev]
<1>1. /\ opening.at = "gone" /\ opening' = Idle /\ UNCHANGED <<build, plugged, uevents, ctx, refused>>
      /\ UNCHANGED <<held, handles, calls>> /\ refcnt' = [refcnt EXCEPT ![opening.dev] = @ - 1]
    BY DEF OpenGone, bus
<1>2. CASE StillAttached(opening.dev)
  <2>1. Disconnected(p)
      BY <1>2 DEF OpenGone
  <2>2. p \in Ports
    <3>1. /\ opening.dev # 0 /\ opening.dev <= born /\ opening.dev \in Nat /\ Len(port) = born
          /\ port \in Seq(Ports) /\ born \in Nat
        BY <1>1 DEF Core, Calling, Numbers, ObjectTypes
    <3>2. opening.dev \in 1..Len(port)
        BY <3>1
    <3>3. QED
        BY <3>1, <3>2, ElementOfSeq
  <2>3. CASE build = "netlink"
    <3>1. Has(uevents, "remove", p)
        BY <1>1, <1>2, <2>3 DEF Watched, OnePerPort, StillAttached
    <3>2. opening.at # "idle"
        BY <1>1
    <3> HIDE DEF p
    <3>3. QED
        BY <1>1, <2>1, <2>2, <3>1, <3>2, WatchedDisconnect
  <2>4. CASE build # "netlink"
      BY <1>1, <2>4 DEF Watched
  <2>5. QED
      BY <2>3, <2>4
<1>3. CASE ~StillAttached(opening.dev)
  <2>1. UNCHANGED <<build, plugged, uevents, usb_devs, attached, port, refused, ctx>>
      BY <1>1, <1>3 DEF OpenGone
  <2>2. opening'.at # "gone"
      BY <1>1 DEF Idle
  <2>3. QED
      BY <2>1, <2>2, WatchedKept
<1>4. QED
    BY <1>2, <1>3

LEMMA WatchedNoSuchFile ==
    ASSUME Core, Watched, NoSuchFile PROVE Watched'
<1>1. /\ opening.at = "path" /\ port[opening.dev] \notin plugged
      /\ opening' = [opening EXCEPT !.at = "gone"]
      /\ UNCHANGED <<build, plugged, uevents, usb_devs, attached, port, refused, ctx>>
    BY DEF NoSuchFile, objects, bus
<1>2. opening'.dev = opening.dev
    BY <1>1 DEF Core, ObjectTypes
<1>3. CASE build # "netlink"
    BY <1>1, <1>3 DEF Watched
<1>4. CASE build = "netlink"
  <2>1. ASSUME opening.dev \in attached PROVE Has(uevents, "remove", port[opening.dev])
    <3>1. /\ opening.dev # 0 /\ opening.dev > base /\ opening.dev <= born /\ opening.dev \in Nat
          /\ base \in Nat /\ born \in Nat /\ ctx # "none" /\ Len(port) = born /\ port \in Seq(Ports)
        BY <1>1 DEF Core, Calling, Numbers, ObjectTypes, Quiet, Idle
    <3>2. opening.dev \in (base + 1)..born /\ opening.dev \in 1..Len(port)
        BY <3>1
    <3>3. opening.dev \in Listed
        BY <2>1, <3>1, <3>2 DEF Core, Numbers
    <3>4. port[opening.dev] \in Ports /\ Known(port[opening.dev])
        BY <3>1, <3>2, <3>3, ElementOfSeq DEF Known
    <3>5. QED
        BY <1>1, <1>4, <3>4 DEF Watched, Told
  <2>2. QED
      BY <1>1, <1>2, <2>1, WatchedKept
<1>5. QED
    BY <1>3, <1>4

LEMMA WatchedNext ==
    ASSUME Core, Around, Watched, Next PROVE Watched'
<1>1. Core' /\ Around'
    BY CoreNext, AroundNext DEF Around
<1>2. CASE ~monitor'
    BY <1>1, <1>2, NotWatched DEF Around
<1>3. CASE monitor'
  <2>1. ASSUME NEW p \in Ports, Plug(p) \/ Unplug(p) \/ Change(p) PROVE Watched'
    <3>1. monitor
        BY <1>3, <2>1 DEF Plug, Unplug, Change, Bus
    <3>2. QED
        BY <2>1, <3>1, WatchedBus
  <2>2. CASE BusStep
      BY <2>1, <2>2, WatchedReadUevent DEF BusStep
  <2>3. CASE InitReuse \/ StartMonitor \/ ScanBegins \/ InitDone
      BY <2>3, WatchedKept DEF InitReuse, StartMonitor, ScanBegins, InitDone, bus, objects, users
  <2>4. CASE ScanEnds
    <3>1. UNCHANGED <<build, plugged, uevents, usb_devs, attached, port, refused, opening>>
        BY <2>4 DEF ScanEnds, bus, objects, users
    <3>2. \A p \in plugged : Known(p) \/ p \in refused \/ Has(uevents, "add", p)
      <4>1. \A p : <<"add", p>> \in Range(uevents) => Has(uevents, "add", p)
          BY RangeFacts DEF Around, BusTypes, Has
      <4>2. QED
          BY <2>4, <4>1 DEF ScanEnds
    <3>3. QED
        BY <3>1, <3>2, WatchedKept
  <2>5. ASSUME NEW p \in Ports, NEW ok \in BOOLEAN, ScanOne(p, ok) PROVE Watched'
    <3>1. /\ ctx # "none" /\ Enumerate(p, ok) /\ uevents' = uevents /\ p \in plugged
          /\ UNCHANGED <<build, plugged, ctx, users, calls, strays>>
        BY <2>5 DEF ScanOne, bus
    <3>2. QED
        BY <3>1, WatchedEnumerate
  <2>6. CASE InitBegin
      BY <1>1, <1>3, <2>6 DEF InitBegin, bus, Around, Monitored
  <2>7. CASE InitFails
      BY <1>3, <2>7 DEF InitFails, EndContext, StopMonitor
  <2>8. CASE Exit
    <3>1. ~EndContext(ReadsPipe)
        BY <1>3 DEF EndContext, StopMonitor
    <3>2. UNCHANGED <<build, plugged, uevents, usb_devs, attached, port, refused, opening, ctx>>
        BY <2>8, <3>1 DEF Exit, bus, objects, users
    <3>3. QED
        BY <3>2, WatchedKept
  <2>9. CASE ContextStep
      BY <2>3, <2>4, <2>5, <2>6, <2>7, <2>8, <2>9 DEF ContextStep
  <2>10. ASSUME NEW p \in Ports, NEW ok \in BOOLEAN, GetWithFd(p, ok) PROVE Watched'
      BY <2>10 DEF GetWithFd, Watched
  <2>11. ASSUME NEW d, FindDevice(d) \/ FindDevice2(d) \/ UnrefDevice(d) \/ Close(d) PROVE Watched'
    <3>1. UNCHANGED <<build, plugged, uevents, usb_devs, attached, port, refused, opening, ctx>>
        BY <2>11 DEF FindDevice, FindDevice2, UnrefDevice, Close, Keeps, bus
    <3>2. QED
        BY <3>1, WatchedKept
  <2>12. ASSUME NEW d, Open(d) PROVE Watched'
    <3>1. UNCHANGED <<build, plugged, uevents, usb_devs, attached, port, refused, ctx>>
          /\ opening'.at # "gone"
        BY <2>12 DEF Open, Keeps, bus
    <3>2. QED
        BY <3>1, WatchedKept
  <2>13. CASE Opened \/ OpenRefused
    <3>1. UNCHANGED <<build, plugged, uevents, usb_devs, attached, port, refused, ctx>>
          /\ opening'.at # "gone"
        BY <2>13 DEF Opened, OpenRefused, Keeps, bus, objects, Idle
    <3>2. QED
        BY <3>1, WatchedKept
  <2>14. CASE TakeList \/ Register \/ ListForCallback \/ TellListed \/ Registered \/ Deregister
    <3>1. UNCHANGED <<build, plugged, uevents, usb_devs, attached, port, refused, opening, ctx>>
        BY <2>14 DEF TakeList, Register, ListForCallback, TellListed, Registered, Deregister, bus,
                     objects, users
    <3>2. QED
        BY <3>1, WatchedKept
  <2>15. ASSUME NEW done, HandleMessage(done) PROVE Watched'
    <3>1. UNCHANGED <<build, plugged, uevents, usb_devs, attached, port, refused, opening, ctx>>
        BY <2>15 DEF HandleMessage, bus, users
    <3>2. QED
        BY <3>1, WatchedKept
  <2>16. CASE AppStep
      BY <2>10, <2>11, <2>12, <2>13, <2>14, <2>16, WatchedOpenGone, WatchedNoSuchFile DEF AppStep
  <2>17. QED
      BY <2>2, <2>9, <2>15, <2>16 DEF Next
<1>4. QED
    BY <1>2, <1>3

LEMMA AlwaysWatched == Spec => [](Core /\ Around /\ Watched)
<1>1. Init => Core /\ Around /\ Watched
  <2> SUFFICES ASSUME Init PROVE Core /\ Around /\ Watched
      OBVIOUS
  <2>1. Core /\ Around
      BY InitCore
  <2>2. Listed = {} /\ uevents = <<>> /\ ctx = "none" /\ opening.at = "idle"
      BY NothingListed DEF Init, Listed, Idle
  <2>3. OnePerPort /\ \A p \in Ports : Told(p)
      BY <2>2, NothingToRead DEF OnePerPort, Told, Known
  <2>4. QED
      BY <2>1, <2>3 DEF Watched
<1>2. Core /\ Around /\ Watched /\ [Next]_vars => (Core /\ Around /\ Watched)'
  <2> SUFFICES ASSUME Core, Around, Watched, [Next]_vars PROVE (Core /\ Around /\ Watched)'
      OBVIOUS
  <2>1. CASE Next
      BY <2>1, CoreNext, AroundNext, WatchedNext DEF Around
  <2>2. CASE UNCHANGED vars
    <3>1. UNCHANGED <<build, plugged, uevents, usb_devs, attached, port, refused, opening, ctx>>
        BY <2>2 DEF vars, bus, objects, users
    <3>2. QED
        BY <2>2, <3>1, StutterCore, WatchedKept
  <2>3. QED
      BY <2>1, <2>2
<1>3. QED
    BY <1>1, <1>2, PTL DEF Spec

\* When android_netlink_read_message has read everything, usb_devs has one device for each plugged
\* port that could be initialized, and none for another.
THEOREM ListFollowsBus == Spec => []ListMatchesPlugged
<1>1. Core /\ Around /\ Watched => ListMatchesPlugged
  <2> SUFFICES ASSUME Core, Around, Watched, monitor, uevents = <<>>, ctx \in {"scanned", "ready"},
                      NEW p \in Ports
               PROVE  Cardinality({i \in 1..Len(usb_devs) : port[usb_devs[i]] = p})
                          = IF p \in plugged \ refused THEN 1 ELSE 0
      BY DEF ListMatchesPlugged
  <2>1. OnePerPort /\ Told(p)
      BY DEF Around, Monitored, Watched
  <2>2. Known(p) <=> p \in plugged \ refused
      BY <2>1, NothingToRead DEF OnePerPort, Told, Known
  <2>3. usb_devs \in Seq(Devs) /\ Once(usb_devs)
      BY DEF Core, ObjectTypes, Lists
  <2> DEFINE S == {i \in 1..Len(usb_devs) : port[usb_devs[i]] = p}
  <2>4. \A i, j \in S : i = j
    <3> SUFFICES ASSUME NEW i \in S, NEW j \in S PROVE i = j
        OBVIOUS
    <3>1. usb_devs[i] \in Listed /\ usb_devs[j] \in Listed
        BY <2>3, RangeFacts DEF Listed
    <3>2. usb_devs[i] = usb_devs[j]
        BY <2>1, <3>1 DEF OnePerPort
    <3>3. QED
        BY <2>3, <3>2 DEF Once
  <2>5. S # {} <=> Known(p)
      BY <2>3, RangeFacts DEF Known, Listed
  <2> HIDE DEF S
  <2>6. Cardinality(S) = One(S # {})
      BY <2>4, AtMostOne
  <2>7. QED
      BY <2>2, <2>5, <2>6 DEF S, One
<1>2. QED
    BY AlwaysWatched, <1>1, PTL
==============================================================================
