-------------------------- MODULE EventDeliveryProofs --------------------------
(***************************************************************************)
(* A client that loses its connection any number of times applies each     *)
(* event of a run at most once and in order.  The invariant says what is    *)
(* on the way: from the client's cursor to the server's in the connection, *)
(* from the server's cursor on in the batch it is sending.                 *)
(***************************************************************************)
EXTENDS EventDelivery, ListsProofs

Steps == {"started", "delta", "answer", "end", "status"}
Event == [sequence : Nat \ {0}, type : Steps]
Message == Event \cup {Close}

DeliveryTypes ==
  /\ script \in Seq(Steps) /\ total \in Nat /\ events \in Seq(Event)
  /\ server \in [at : {"read", "send", "gone"}, last : Nat, batch : Seq(Event)]
  /\ net \in Seq(Message)
  /\ client \in [at : {"connecting", "open", "waiting", "closed", "left"}, last : Nat,
                 applied : Seq(Event)]

(* The list holds the newest Limit events, numbered without a gap. *)
NewestKept ==
  /\ Len(events) = IF total < Limit THEN total ELSE Limit
  /\ \A i \in 1 .. Len(events) : events[i].sequence = total - Len(events) + i

(* The first m of the list are the events after from and up to to, each once *)
(* and in order, but for those numbered up to lost.                          *)
Covers(list, m, from, to, lost) ==
  /\ \A i, j \in 1 .. m : i < j => list[i].sequence < list[j].sequence
  /\ \A i \in 1 .. m : from < list[i].sequence /\ list[i].sequence <= to
  /\ \A n \in from + 1 .. to : n <= lost \/ \E i \in 1 .. m : list[i].sequence = n

Lost == total - Limit

(* The messages on the way but for the close, which is the server's last. *)
InFlight == IF server.at = "gone" THEN Len(net) - 1 ELSE Len(net)

Applied == Covers(client.applied, Len(client.applied), 0, client.last, Lost)

OnTheWay ==
  IF client.at = "open"
  THEN /\ client.last <= server.last
       /\ Covers(net, InFlight, client.last, server.last, Lost)
       /\ server.at = "gone" => net # <<>> /\ net[Len(net)] = Close
  ELSE net = <<>> /\ server.at = "gone"

InBatch ==
  server.at = "send" =>
    \E to \in server.last .. total :
      Covers(server.batch, Len(server.batch), server.last, to, Lost)

DeliveryInv ==
  /\ DeliveryTypes /\ NewestKept /\ Applied /\ OnTheWay /\ InBatch
  /\ client.last <= total
  /\ client.at = "open" => server.last <= total

-----------------------------------------------------------------------------
(* Lists that cover a stretch of events                                     *)

\* Every event of a list has a number; a message may be the close, with none.
LEMMA Numbered ==
  /\ \A list \in Seq(Event) : \A i \in 1 .. Len(list) :
       list[i].sequence \in Nat /\ list[i].sequence > 0
  /\ \A list \in Seq(Message) : \A i \in 1 .. Len(list) : list[i].sequence \in Nat
  /\ Close.sequence = 0
<1>1. \A e \in Event : e.sequence \in Nat /\ e.sequence > 0
  BY DEF Event
<1>2. Close.sequence = 0
  BY DEF Close
<1>3. \A e \in Message : e.sequence \in Nat
  BY <1>1, <1>2 DEF Message
<1>4. \A list \in Seq(Event) : \A i \in 1 .. Len(list) : list[i] \in Event
  OBVIOUS
<1>5. \A list \in Seq(Message) : \A i \in 1 .. Len(list) : list[i] \in Message
  OBVIOUS
<1>6. QED
  BY <1>1, <1>2, <1>3, <1>4, <1>5

\* What a longer list has lost, a list may miss.
LEMMA CoversMoreLost ==
  ASSUME NEW list, NEW m, NEW from, NEW to, NEW lost \in Int, NEW more \in Int,
         from \in Nat, to \in Nat,
         Covers(list, m, from, to, lost), lost <= more
  PROVE  Covers(list, m, from, to, more)
BY DEF Covers

\* Lists that agree on their first elements cover the same.
LEMMA CoversSame ==
  ASSUME NEW list, NEW other, NEW m, NEW from, NEW to, NEW lost,
         Covers(list, m, from, to, lost), \A i \in 1 .. m : other[i] = list[i]
  PROVE  Covers(other, m, from, to, lost)
BY DEF Covers

\* An event put after the others, with none in between that is not lost.
LEMMA CoversAppend ==
  ASSUME NEW list, NEW other, NEW m \in Nat, NEW from \in Nat, NEW to \in Nat, NEW lost \in Int,
         Covers(list, m, from, to, lost), from <= to,
         \A i \in 1 .. m : list[i].sequence \in Nat,
         \A i \in 1 .. m : other[i] = list[i],
         NEW next \in Nat, other[m + 1].sequence = next, to < next,
         \A n \in to + 1 .. next - 1 : n <= lost
  PROVE  Covers(other, m + 1, from, next, lost)
<1>1. ASSUME NEW i \in 1 .. m + 1, NEW j \in 1 .. m + 1, i < j
      PROVE  other[i].sequence < other[j].sequence
  <2>1. i \in 1 .. m /\ (j \in 1 .. m \/ j = m + 1)
    BY <1>1
  <2>2. CASE j \in 1 .. m
    BY <1>1, <2>1, <2>2 DEF Covers
  <2>3. CASE j = m + 1
    <3>1. other[i].sequence <= to /\ other[i].sequence \in Nat
      BY <2>1 DEF Covers
    <3>2. QED
      BY <2>3, <3>1
  <2>4. QED
    BY <2>1, <2>2, <2>3
<1>2. ASSUME NEW i \in 1 .. m + 1
      PROVE  from < other[i].sequence /\ other[i].sequence <= next
  <2>1. CASE i \in 1 .. m
    <3>1. from < other[i].sequence /\ other[i].sequence <= to /\ other[i].sequence \in Nat
      BY <2>1 DEF Covers
    <3>2. QED
      BY <3>1
  <2>2. CASE i = m + 1
    BY <2>2
  <2>3. QED
    BY <2>1, <2>2
<1>3. ASSUME NEW n \in from + 1 .. next, ~ (n <= lost)
      PROVE  \E i \in 1 .. m + 1 : other[i].sequence = n
  <2>1. n <= to \/ n = next
    BY <1>3
  <2>2. CASE n <= to
    <3>1. PICK i \in 1 .. m : list[i].sequence = n
      BY <1>3, <2>2 DEF Covers
    <3>2. i \in 1 .. m + 1 /\ other[i].sequence = n
      BY <3>1
    <3>3. QED
      BY <3>2
  <2>3. CASE n = next
    <3>1. m + 1 \in 1 .. m + 1
      OBVIOUS
    <3>2. QED
      BY <2>3, <3>1
  <2>4. QED
    BY <2>1, <2>2, <2>3
<1>4. QED
  BY <1>1, <1>2, <1>3 DEF Covers

\* The first of them follows what came before, but for what is lost, and the
\* others go on after it.
LEMMA CoversTail ==
  ASSUME NEW list, NEW other, NEW m \in Nat, NEW from \in Nat, NEW to \in Nat, NEW lost \in Int,
         Covers(list, m, from, to, lost), m > 0,
         \A i \in 1 .. m : list[i].sequence \in Nat,
         \A i \in 1 .. m - 1 : other[i] = list[i + 1]
  PROVE  /\ from < list[1].sequence /\ list[1].sequence <= to
         /\ \A n \in from + 1 .. list[1].sequence - 1 : n <= lost
         /\ Covers(other, m - 1, list[1].sequence, to, lost)
<1> DEFINE first == list[1].sequence
<1>1. first \in Nat /\ from < first /\ first <= to
  BY DEF Covers
<1>2. ASSUME NEW i \in 1 .. m, i # 1
      PROVE  first < list[i].sequence
  BY <1>2 DEF Covers
<1>3. ASSUME NEW n \in from + 1 .. first - 1, ~ (n <= lost)
      PROVE  FALSE
  <2>1. n \in from + 1 .. to
    BY <1>1
  <2>2. PICK i \in 1 .. m : list[i].sequence = n
    BY <1>3, <2>1 DEF Covers
  <2>3. CASE i = 1
    BY <1>1, <2>2, <2>3
  <2>4. CASE i # 1
    BY <1>1, <1>2, <2>2, <2>4
  <2>5. QED
    BY <2>3, <2>4
<1>4. ASSUME NEW i \in 1 .. m - 1, NEW j \in 1 .. m - 1, i < j
      PROVE  other[i].sequence < other[j].sequence
  <2>1. i + 1 \in 1 .. m /\ j + 1 \in 1 .. m /\ i + 1 < j + 1
    BY <1>4
  <2>2. list[i + 1].sequence < list[j + 1].sequence
    BY <2>1 DEF Covers
  <2>3. QED
    BY <2>2
<1>5. ASSUME NEW i \in 1 .. m - 1
      PROVE  first < other[i].sequence /\ other[i].sequence <= to
  <2>1. i + 1 \in 1 .. m /\ i + 1 # 1
    OBVIOUS
  <2>2. first < list[i + 1].sequence
    BY <1>2, <2>1
  <2>3. list[i + 1].sequence <= to
    BY <2>1 DEF Covers
  <2>4. QED
    BY <2>2, <2>3
<1>6. ASSUME NEW n \in first + 1 .. to, ~ (n <= lost)
      PROVE  \E i \in 1 .. m - 1 : other[i].sequence = n
  <2>1. n \in from + 1 .. to
    BY <1>1
  <2>2. PICK i \in 1 .. m : list[i].sequence = n
    BY <1>6, <2>1 DEF Covers
  <2>3. i # 1
    BY <1>1, <2>2
  <2>4. i - 1 \in 1 .. m - 1 /\ other[i - 1] = list[i]
    BY <2>3
  <2>5. QED
    BY <2>2, <2>4
<1>7. QED
  <2> HIDE DEF first
  <2>1. Covers(other, m - 1, first, to, lost)
    BY <1>4, <1>5, <1>6 DEF Covers
  <2>2. \A n \in from + 1 .. first - 1 : n <= lost
    BY <1>3
  <2>3. QED
    BY <1>1, <2>1, <2>2 DEF first

\* What a reader gets that asks for the events after its cursor.
LEMMA EventsAfterCovers ==
  ASSUME DeliveryTypes, NewestKept, NEW after \in Nat, after <= total
  PROVE  /\ EventsAfter(after) \in Seq(Event)
         /\ Covers(EventsAfter(after), Len(EventsAfter(after)), after, total, Lost)
<1>0. PICK S : S = {e \in ToSet(events) : e.sequence > after}
  OBVIOUS
<1> DEFINE first == total - Len(events)
<1>k. PICK k : k = IF after > first THEN after - first ELSE 0
  OBVIOUS
<1>1. events \in Seq(Event) /\ Len(events) \in Nat /\ total \in Nat /\ Limit \in Nat \ {0}
  BY DeliveryConstants DEF DeliveryTypes
<1>2. first \in Nat /\ (first = 0 \/ first = Lost)
  BY <1>1 DEF NewestKept, Lost
<1>3. k \in 0 .. Len(events)
  BY <1>1, <1>2, <1>k
<1>4. \A i \in 1 .. Len(events) : events[i].sequence = first + i
  BY DEF NewestKept
<1>5. \A i \in 1 .. Len(events) : events[i] \in S <=> i > k
  <2>1. \A i \in 1 .. Len(events) : events[i] \in ToSet(events)
    BY <1>1 DEF ToSet
  <2>2. \A i \in 1 .. Len(events) : first + i > after <=> i > k
    BY <1>1, <1>2, <1>k
  <2>3. QED
    <3> HIDE DEF first
    <3>1. QED
      BY <1>0, <1>4, <2>1, <2>2
<1> DEFINE list == Filter(events, S)
<1>6. EventsAfter(after) = list
  BY <1>0 DEF EventsAfter
<1>7. /\ list \in Seq(Event)
      /\ Len(list) = Len(events) - k
      /\ \A i \in 1 .. Len(events) - k : list[i] = events[k + i]
  <2>1. \A i \in 1 .. k : events[i] \notin S
    BY <1>1, <1>3, <1>5
  <2>2. \A i \in k + 1 .. Len(events) : events[i] \in S
    BY <1>1, <1>3, <1>5
  <2>3. /\ Filter(events, S) \in Seq(Event)
        /\ Len(Filter(events, S)) = Len(events) - k
        /\ \A i \in 1 .. Len(events) - k : Filter(events, S)[i] = events[k + i]
    <3>1. events \in Seq(Event)
      BY <1>1
    <3>2. QED
      BY <1>3, <2>1, <2>2, <3>1, FilterSuffix, SMT
  <2>4. QED
    BY <2>3
<1>8. Covers(list, Len(list), after, total, Lost)
  <2> HIDE DEF list
  <2> DEFINE m == Len(events) - k
  <2>0. m \in Nat /\ Len(list) = m /\ k \in Nat
    BY <1>1, <1>3, <1>7
  <2>1. \A i \in 1 .. m : list[i].sequence = first + k + i
    <3>1. ASSUME NEW i \in 1 .. m
          PROVE  list[i].sequence = first + k + i
      <4>1. k + i \in 1 .. Len(events)
        BY <1>1, <1>3
      <4>2. list[i] = events[k + i]
        BY <1>7
      <4>3. events[k + i].sequence = first + (k + i)
        BY <1>4, <4>1
      <4>4. QED
        BY <1>2, <2>0, <4>2, <4>3
    <3>2. QED
      BY <3>1
  <2>2. first + k >= after /\ (first + k = after \/ first + k = Lost) /\ first + k + m = total
    BY <1>1, <1>2, <1>k
  <2> HIDE DEF m, first
  <2>3. \A i, j \in 1 .. m : i < j => list[i].sequence < list[j].sequence
    BY <1>2, <2>0, <2>1
  <2>4. \A i \in 1 .. m : after < list[i].sequence /\ list[i].sequence <= total
    BY <1>1, <1>2, <2>0, <2>1, <2>2
  <2>5. ASSUME NEW n \in after + 1 .. total, ~ (n <= Lost)
        PROVE  \E i \in 1 .. m : list[i].sequence = n
    <3>1. n - (first + k) \in 1 .. m
      BY <1>1, <1>2, <2>0, <2>2, <2>5
    <3>2. list[n - (first + k)].sequence = n
      BY <1>2, <2>0, <2>1, <3>1
    <3>3. QED
      BY <3>1, <3>2
  <2>6. QED
    BY <2>0, <2>3, <2>4, <2>5 DEF Covers
<1>9. QED
  BY <1>6, <1>7, <1>8

-----------------------------------------------------------------------------
(* The beginning *)

\* Nothing is recorded and no connection is open at the beginning.
LEMMA DeliveryStart == Init => DeliveryInv
<1> SUFFICES ASSUME Init
             PROVE  DeliveryInv
  OBVIOUS
<1>1. script \in Seq(Steps)
  <2> DEFINE deltas == [i \in 1 .. Deltas |-> "delta"]
             begun == <<"started">> \o deltas
  <2>1. deltas \in Seq(Steps)
    BY DeliveryConstants DEF Steps
  <2>2. <<"started">> \in Seq(Steps) /\ <<"answer", "end", "status">> \in Seq(Steps)
        /\ <<"end", "status">> \in Seq(Steps) /\ <<"status", "end">> \in Seq(Steps)
        /\ <<"started", "status", "answer", "end">> \in Seq(Steps)
    BY DEF Steps
  <2> HIDE DEF deltas
  <2>3. begun \in Seq(Steps)
    BY <2>1, <2>2, ConcatProperties
  <2>4. script \in {begun \o <<"answer", "end", "status">>, begun \o <<"end", "status">>,
                    <<"started", "status", "answer", "end">>, begun \o <<"status", "end">>}
    BY DEF Init, Scripts, deltas
  <2> HIDE DEF begun
  <2>5. /\ begun \o <<"answer", "end", "status">> \in Seq(Steps)
        /\ begun \o <<"end", "status">> \in Seq(Steps)
        /\ begun \o <<"status", "end">> \in Seq(Steps)
    BY <2>2, <2>3, ConcatProperties
  <2>6. QED
    BY <2>2, <2>4, <2>5
<1>2. DeliveryTypes
  BY <1>1 DEF Init, DeliveryTypes
<1>3. NewestKept
  BY DeliveryConstants DEF Init, NewestKept
<1>4. Applied
  BY DEF Init, Applied, Covers
<1>5. OnTheWay /\ InBatch /\ client.last <= total /\ client.at # "open"
  BY DEF Init, OnTheWay, InBatch
<1>6. QED
  BY <1>2, <1>3, <1>4, <1>5 DEF DeliveryInv

-----------------------------------------------------------------------------
(* The run *)

\* A new event ends the list and may push out its oldest one.
LEMMA RecordEventKeeps ==
  ASSUME DeliveryInv, RecordEvent
  PROVE  DeliveryInv'
<1> USE DEF DeliveryInv
<1>1. /\ script \in Seq(Steps) /\ total \in Nat /\ events \in Seq(Event)
      /\ server \in [at : {"read", "send", "gone"}, last : Nat, batch : Seq(Event)]
      /\ client \in [at : {"connecting", "open", "waiting", "closed", "left"}, last : Nat,
                     applied : Seq(Event)]
      /\ Limit \in Nat \ {0}
  BY DeliveryConstants DEF DeliveryTypes
<1>2. PICK new : new = [sequence |-> total + 1, type |-> Head(script)]
  OBVIOUS
<1>3. PICK list : list = Append(events, new)
  OBVIOUS
<1>4. script # <<>> /\ total' = total + 1 /\ events' = Kept(list) /\ script' = Tail(script)
      /\ server' = server /\ net' = net /\ client' = client
  BY <1>2, <1>3 DEF RecordEvent
<1>5. new \in Event /\ new.sequence = total + 1
  <2>1. Head(script) \in Steps
    BY <1>1, <1>4
  <2>2. QED
    BY <1>1, <1>2, <2>1 DEF Event
<1>6. /\ list \in Seq(Event) /\ Len(list) = Len(events) + 1
      /\ \A i \in 1 .. Len(events) : list[i] = events[i]
      /\ list[Len(events) + 1] = new
  BY <1>1, <1>3, <1>5, AppendProperties
<1>7. \A i \in 1 .. Len(list) : list[i].sequence = total - Len(events) + i
  <2>1. ASSUME NEW i \in 1 .. Len(list)
        PROVE  list[i].sequence = total - Len(events) + i
    <3>1. Len(events) \in Nat
      BY <1>1
    <3>2. CASE i \in 1 .. Len(events)
      BY <1>6, <3>2 DEF NewestKept
    <3>3. CASE i = Len(events) + 1
      BY <1>1, <1>5, <1>6, <3>1, <3>3
    <3>4. QED
      BY <1>6, <3>1, <3>2, <3>3
  <2>2. QED
    BY <2>1
<1>8. events' \in Seq(Event) /\ NewestKept'
  <2>0. Len(events) \in Nat /\ (Len(events) = IF total < Limit THEN total ELSE Limit)
    BY <1>1 DEF NewestKept
  <2>1. CASE Len(list) > Limit
    <3>1. events' = SubSeq(list, Len(list) - Limit + 1, Len(list))
      BY <1>4, <2>1 DEF Kept
    <3>2. Len(events) = Limit /\ Len(list) - Limit + 1 = 2 /\ Len(list) = Limit + 1 /\ total >= Limit
      BY <1>1, <1>6, <2>0, <2>1
    <3>3. /\ events' \in Seq(Event) /\ Len(events') = Limit
          /\ \A i \in 1 .. Limit : events'[i] = list[i + 1]
      <4>1. events' = SubSeq(list, 2, Limit + 1)
        BY <3>1, <3>2
      <4>2. /\ SubSeq(list, 2, Limit + 1) \in Seq(Event)
            /\ Len(SubSeq(list, 2, Limit + 1)) = Limit
            /\ \A i \in 1 .. Limit : SubSeq(list, 2, Limit + 1)[i] = list[i + 1]
        BY <1>1, <1>6, <3>2, SubSeqProperties, SMTT(30)
      <4>3. QED
        BY <4>1, <4>2
    <3>4. \A i \in 1 .. Limit : events'[i].sequence = total + 1 - Limit + i
      <4>1. ASSUME NEW i \in 1 .. Limit
            PROVE  events'[i].sequence = total + 1 - Limit + i
        <5>1. i + 1 \in 1 .. Len(list) /\ events'[i] = list[i + 1]
          BY <1>1, <3>2, <3>3
        <5>2. list[i + 1].sequence = total - Limit + (i + 1)
          BY <1>7, <3>2, <5>1
        <5>3. QED
          BY <1>1, <5>1, <5>2
      <4>2. QED
        BY <4>1
    <3>5. QED
      BY <1>1, <1>4, <3>2, <3>3, <3>4 DEF NewestKept
  <2>2. CASE ~ (Len(list) > Limit)
    <3>1. events' = list
      BY <1>4, <2>2 DEF Kept
    <3>2. Len(events) = total /\ total + 1 <= Limit
      BY <1>1, <1>6, <2>0, <2>2
    <3>3. Len(list) = total + 1
      BY <1>6, <3>2
    <3>4. \A i \in 1 .. total + 1 : list[i].sequence = total + 1 - (total + 1) + i
      BY <1>1, <1>7, <3>2, <3>3
    <3>5. Len(list) = IF total + 1 < Limit THEN total + 1 ELSE Limit
      BY <1>1, <3>2, <3>3
    <3>6. QED
      BY <1>4, <1>6, <3>1, <3>3, <3>4, <3>5, SMTT(30) DEF NewestKept
  <2>3. QED
    BY <2>1, <2>2
<1>9. script' \in Seq(Steps)
  BY <1>1, <1>4
<1>10. DeliveryTypes'
  BY <1>1, <1>4, <1>8, <1>9 DEF DeliveryTypes
<1>11. Lost \in Int /\ Lost' \in Int /\ Lost <= Lost'
  BY <1>1, <1>4 DEF Lost
<1>12. Applied'
  BY <1>1, <1>4, <1>11, CoversMoreLost DEF Applied
<1>13. OnTheWay'
  <2>1. CASE client.at = "open"
    <3>1. Covers(net, InFlight, client.last, server.last, Lost')
      BY <1>1, <1>11, <2>1, CoversMoreLost DEF OnTheWay
    <3>2. InFlight' = InFlight
      BY <1>4 DEF InFlight
    <3>3. QED
      BY <1>4, <2>1, <3>1, <3>2 DEF OnTheWay
  <2>2. CASE client.at # "open"
    BY <1>4, <2>2 DEF OnTheWay
  <2>3. QED
    BY <2>1, <2>2
<1>14. InBatch'
  <2> SUFFICES ASSUME server.at = "send"
               PROVE  \E to \in server.last .. total + 1 :
                        Covers(server.batch, Len(server.batch), server.last, to, Lost')
    BY <1>4 DEF InBatch
  <2>1. PICK to \in server.last .. total :
          Covers(server.batch, Len(server.batch), server.last, to, Lost)
    BY DEF InBatch
  <2>2. to \in Nat /\ to \in server.last .. total + 1 /\ server.last \in Nat
    BY <1>1
  <2>3. Covers(server.batch, Len(server.batch), server.last, to, Lost')
    BY <1>11, <2>1, <2>2, CoversMoreLost
  <2>4. QED
    BY <2>2, <2>3
<1>15. client'.last <= total' /\ (client'.at = "open" => server'.last <= total')
  BY <1>1, <1>4
<1>16. QED
  BY <1>8, <1>10, <1>12, <1>13, <1>14, <1>15

\* A step that changes none of what the invariant speaks of.
Unseen == UNCHANGED <<script, total, events, server, net, client>>

\* The reply of the messenger only reads.
LEMMA UnseenKeeps ==
  ASSUME DeliveryInv, Unseen
  PROVE  DeliveryInv'
BY DEF Unseen, DeliveryInv, DeliveryTypes, NewestKept, Applied, OnTheWay, InBatch, InFlight, Lost

\* The status is no part of the invariant; the script gets shorter.
LEMMA SetStatusKeeps ==
  ASSUME DeliveryInv, SetStatus
  PROVE  DeliveryInv'
<1>1. /\ script \in Seq(Steps) /\ script # <<>> /\ script' = Tail(script)
      /\ UNCHANGED <<total, events, server, net, client>>
  BY DEF SetStatus, DeliveryInv, DeliveryTypes
<1>2. script' \in Seq(Steps)
  BY <1>1
<1>3. DeliveryTypes'
  BY <1>1, <1>2 DEF DeliveryInv, DeliveryTypes
<1>4. QED
  BY <1>1, <1>3
     DEF DeliveryInv, NewestKept, Applied, OnTheWay, InBatch, InFlight, Lost

-----------------------------------------------------------------------------
(* The server *)

\* The batch the server reads goes on from its cursor to the last event.
LEMMA ReadEventsKeeps ==
  ASSUME DeliveryInv, ReadEvents
  PROVE  DeliveryInv'
<1> USE DEF DeliveryInv
<1>1. /\ DeliveryTypes /\ NewestKept /\ server.at = "read" /\ total \in Nat
      /\ server \in [at : {"read", "send", "gone"}, last : Nat, batch : Seq(Event)]
  BY DEF DeliveryTypes, ReadEvents
<1>2. PICK list : list = EventsAfter(server.last)
  OBVIOUS
<1>3. /\ server' = [server EXCEPT !.at = "send", !.batch = list]
      /\ UNCHANGED <<script, total, events, net, client>>
  BY <1>2 DEF ReadEvents
<1>4. client.at = "open" /\ server.last <= total
  BY <1>1 DEF OnTheWay
<1>5. list \in Seq(Event) /\ Covers(list, Len(list), server.last, total, Lost)
  BY <1>1, <1>2, <1>4, EventsAfterCovers
<1>6. server'.at = "send" /\ server'.last = server.last /\ server'.batch = list
      /\ server' \in [at : {"read", "send", "gone"}, last : Nat, batch : Seq(Event)]
  BY <1>1, <1>3, <1>5
<1>7. Lost' = Lost /\ InFlight' = InFlight
  BY <1>1, <1>3, <1>6 DEF Lost, InFlight
<1>8. InBatch'
  <2>1. total \in server.last .. total
    BY <1>1, <1>4
  <2>2. \E to \in server.last .. total : Covers(list, Len(list), server.last, to, Lost)
    BY <1>5, <2>1
  <2>3. QED
    BY <1>3, <1>6, <1>7, <2>2 DEF InBatch
<1>9. DeliveryTypes' /\ NewestKept' /\ Applied'
  BY <1>1, <1>3, <1>6, <1>7 DEF DeliveryTypes, NewestKept, Applied
<1>10. OnTheWay'
  BY <1>3, <1>4, <1>6, <1>7 DEF OnTheWay
<1>11. QED
  BY <1>3, <1>6, <1>8, <1>9, <1>10

\* The batch's first event follows what is in the connection.
LEMMA SendEventKeeps ==
  ASSUME DeliveryInv, SendEvent
  PROVE  DeliveryInv'
<1> USE DEF DeliveryInv
<1>1. /\ server.at = "send" /\ total \in Nat /\ net \in Seq(Message) /\ Lost \in Int
      /\ server \in [at : {"read", "send", "gone"}, last : Nat, batch : Seq(Event)]
      /\ client.last \in Nat
  BY DeliveryConstants DEF DeliveryTypes, SendEvent, Lost
<1>2. PICK batch : batch = server.batch
  OBVIOUS
<1>3. PICK e : e = Head(batch)
  OBVIOUS
<1>4. /\ batch # <<>> /\ net' = Append(net, e)
      /\ server' = [server EXCEPT !.last = e.sequence, !.batch = Tail(batch)]
      /\ UNCHANGED <<script, total, events, client>>
  BY <1>2, <1>3 DEF SendEvent
<1>5. batch \in Seq(Event) /\ e = batch[1] /\ e \in Event /\ Len(batch) \in Nat /\ Len(batch) > 0
  BY <1>1, <1>2, <1>3, <1>4
<1>6. client.at = "open" /\ client.last <= server.last /\ InFlight = Len(net)
      /\ Covers(net, Len(net), client.last, server.last, Lost)
  BY <1>1 DEF OnTheWay, InFlight
<1>7. PICK to \in server.last .. total : Covers(batch, Len(batch), server.last, to, Lost)
  BY <1>1, <1>2 DEF InBatch
<1>8. /\ Tail(batch) \in Seq(Event) /\ Len(Tail(batch)) = Len(batch) - 1
      /\ \A i \in 1 .. Len(batch) - 1 : Tail(batch)[i] = batch[i + 1]
  BY <1>4, <1>5, HeadTailProperties
<1>9. server.last \in Nat /\ to \in Nat /\ e.sequence \in Nat
  BY <1>1, <1>5 DEF Event
<1>10. /\ server.last < e.sequence /\ e.sequence <= to
       /\ \A n \in server.last + 1 .. e.sequence - 1 : n <= Lost
       /\ Covers(Tail(batch), Len(batch) - 1, e.sequence, to, Lost)
  <2>1. \A i \in 1 .. Len(batch) : batch[i].sequence \in Nat
    BY <1>5, Numbered
  <2>2. PICK rest, m, last, lost :
          rest = Tail(batch) /\ m = Len(batch) /\ last = server.last /\ lost = Lost
    OBVIOUS
  <2>3. /\ m \in Nat /\ last \in Nat /\ lost \in Int /\ m > 0
        /\ Covers(batch, m, last, to, lost)
        /\ \A i \in 1 .. m : batch[i].sequence \in Nat
        /\ \A i \in 1 .. m - 1 : rest[i] = batch[i + 1]
    BY <1>1, <1>5, <1>7, <1>8, <1>9, <2>1, <2>2
  <2>4. /\ last < batch[1].sequence /\ batch[1].sequence <= to
        /\ \A n \in last + 1 .. batch[1].sequence - 1 : n <= lost
        /\ Covers(rest, m - 1, batch[1].sequence, to, lost)
    BY <1>9, <2>3, CoversTail
  <2>5. QED
    BY <1>5, <2>2, <2>4
<1>11. /\ server'.at = "send" /\ server'.last = e.sequence /\ server'.batch = Tail(batch)
       /\ server' \in [at : {"read", "send", "gone"}, last : Nat, batch : Seq(Event)]
  BY <1>1, <1>4, <1>8, <1>9
<1>12. /\ net' \in Seq(Message) /\ Len(net') = Len(net) + 1 /\ Len(net) \in Nat
       /\ \A i \in 1 .. Len(net) : net'[i] = net[i]
       /\ net'[Len(net) + 1] = e
  <2>1. e \in Message
    BY <1>5 DEF Message
  <2>2. Len(net) \in Nat
    BY <1>1
  <2>3. QED
    BY <1>1, <1>4, <2>1, <2>2, AppendProperties
<1>13. Lost' = Lost /\ InFlight' = Len(net) + 1
  BY <1>4, <1>11, <1>12 DEF Lost, InFlight
<1>14. Covers(net', Len(net) + 1, client.last, e.sequence, Lost)
  <2>1. \A i \in 1 .. Len(net) : net[i].sequence \in Nat
    BY <1>1, Numbered
  <2>2. PICK old, new : old = net /\ new = net'
    OBVIOUS
  <2>3. PICK m, from, last, lost : m = Len(net) /\ from = client.last /\ last = server.last /\ lost = Lost
    OBVIOUS
  <2>4. /\ m \in Nat /\ from \in Nat /\ last \in Nat /\ lost \in Int
        /\ Covers(old, m, from, last, lost) /\ from <= last
        /\ \A i \in 1 .. m : old[i].sequence \in Nat
        /\ \A i \in 1 .. m : new[i] = old[i]
        /\ new[m + 1].sequence = e.sequence /\ last < e.sequence
        /\ \A n \in last + 1 .. e.sequence - 1 : n <= lost
    BY <1>1, <1>6, <1>9, <1>10, <1>12, <2>1, <2>2, <2>3
  <2>5. Covers(new, m + 1, from, e.sequence, lost)
    BY <1>9, <2>4, CoversAppend
  <2>6. QED
    BY <2>2, <2>3, <2>5
<1>15. OnTheWay'
  BY <1>1, <1>4, <1>6, <1>9, <1>10, <1>11, <1>13, <1>14 DEF OnTheWay
<1>16. InBatch'
  <2>1. to \in e.sequence .. total
    BY <1>1, <1>9, <1>10
  <2>2. QED
    BY <1>4, <1>8, <1>10, <1>11, <1>13, <2>1 DEF InBatch
<1>17. DeliveryTypes' /\ NewestKept' /\ Applied'
  BY <1>4, <1>11, <1>12, <1>13 DEF DeliveryTypes, NewestKept, Applied
<1>18. client'.last <= total' /\ server'.last <= total'
  BY <1>1, <1>4, <1>9, <1>10, <1>11
<1>19. QED
  BY <1>15, <1>16, <1>17, <1>18

\* The close follows every event, or the server reads on.
LEMMA CheckStatusKeeps ==
  ASSUME DeliveryInv, CheckStatus
  PROVE  DeliveryInv'
<1> USE DEF DeliveryInv
<1>1. /\ server.at = "send" /\ net \in Seq(Message) /\ Len(net) \in Nat
      /\ server \in [at : {"read", "send", "gone"}, last : Nat, batch : Seq(Event)]
      /\ UNCHANGED <<script, total, events, client>>
  BY DEF DeliveryTypes, CheckStatus
<1>2. client.at = "open" /\ InFlight = Len(net) /\ client.last <= server.last
      /\ Covers(net, Len(net), client.last, server.last, Lost)
  BY <1>1 DEF OnTheWay, InFlight
<1>3. Lost' = Lost
  BY <1>1 DEF Lost
<1>4. CASE status \in Terminal
  <2>1. server' = [server EXCEPT !.at = "gone"] /\ net' = Append(net, Close)
    BY <1>4 DEF CheckStatus
  <2>2. server'.at = "gone" /\ server'.last = server.last
        /\ server' \in [at : {"read", "send", "gone"}, last : Nat, batch : Seq(Event)]
    BY <1>1, <2>1
  <2>3. /\ net' \in Seq(Message) /\ Len(net') = Len(net) + 1
        /\ \A i \in 1 .. Len(net) : net'[i] = net[i]
        /\ net'[Len(net) + 1] = Close /\ net' # <<>>
    <3>1. Close \in Message
      BY DEF Message
    <3>2. QED
      BY <1>1, <2>1, <3>1, AppendProperties
  <2>4. InFlight' = Len(net)
    BY <1>1, <2>2, <2>3 DEF InFlight
  <2>5. Covers(net', Len(net), client.last, server.last, Lost)
    BY <1>2, <2>3 DEF Covers
  <2>6. OnTheWay'
    BY <1>1, <1>2, <1>3, <2>2, <2>3, <2>4, <2>5 DEF OnTheWay
  <2>7. InBatch'
    BY <2>2 DEF InBatch
  <2>8. QED
    BY <1>1, <1>3, <2>2, <2>3, <2>6, <2>7 DEF DeliveryTypes, NewestKept, Applied
<1>5. CASE ~ (status \in Terminal)
  <2>1. server' = [server EXCEPT !.at = "read"] /\ net' = net
    BY <1>5 DEF CheckStatus
  <2>2. server'.at = "read" /\ server'.last = server.last
        /\ server' \in [at : {"read", "send", "gone"}, last : Nat, batch : Seq(Event)]
    BY <1>1, <2>1
  <2>3. InFlight' = InFlight /\ InBatch'
    BY <1>1, <2>1, <2>2 DEF InFlight, InBatch
  <2>4. OnTheWay'
    BY <1>1, <1>2, <1>3, <2>1, <2>2, <2>3 DEF OnTheWay
  <2>5. QED
    BY <1>1, <1>3, <2>1, <2>2, <2>3, <2>4 DEF DeliveryTypes, NewestKept, Applied
<1>6. QED
  BY <1>4, <1>5

-----------------------------------------------------------------------------
(* The client *)

\* The server begins at the client's cursor, with nothing on the way.
LEMMA ConnectKeeps ==
  ASSUME DeliveryInv, Connect
  PROVE  DeliveryInv'
<1> USE DEF DeliveryInv
<1>1. /\ client.at = "connecting" /\ total \in Nat /\ client.last \in Nat
      /\ client' = [client EXCEPT !.at = "open"]
      /\ client \in [at : {"connecting", "open", "waiting", "closed", "left"}, last : Nat,
                     applied : Seq(Event)]
      /\ server' = [at |-> "read", last |-> client.last, batch |-> <<>>]
      /\ UNCHANGED <<script, total, events, net>>
  BY DEF DeliveryTypes, Connect
<1>2. /\ client'.at = "open" /\ client'.last = client.last /\ client'.applied = client.applied
      /\ client' \in [at : {"connecting", "open", "waiting", "closed", "left"}, last : Nat,
                      applied : Seq(Event)]
  BY <1>1
<1>3. /\ server'.at = "read" /\ server'.last = client.last
      /\ server' \in [at : {"read", "send", "gone"}, last : Nat, batch : Seq(Event)]
  BY <1>1
<1>4. Lost' = Lost /\ net' = <<>> /\ InFlight' = 0
  BY <1>1, <1>3 DEF OnTheWay, Lost, InFlight
<1>5. Covers(net', 0, client.last, client.last, Lost)
  BY <1>1 DEF Covers
<1>6. OnTheWay' /\ InBatch'
  BY <1>1, <1>2, <1>3, <1>4, <1>5 DEF OnTheWay, InBatch
<1>7. DeliveryTypes' /\ NewestKept' /\ Applied'
  BY <1>1, <1>2, <1>3, <1>4 DEF DeliveryTypes, NewestKept, Applied
<1>8. QED
  BY <1>1, <1>2, <1>3, <1>6, <1>7

\* The client applies the first event on the way, or sees the close.
LEMMA ReceiveKeeps ==
  ASSUME DeliveryInv, Receive
  PROVE  DeliveryInv'
<1> USE DEF DeliveryInv
<1>1. PICK e : e = Head(net)
  OBVIOUS
<1>2. /\ client.at = "open" /\ net # <<>> /\ net' = Tail(net)
      /\ UNCHANGED <<script, total, events, server>>
  BY DEF Receive
<1>3. /\ total \in Nat /\ net \in Seq(Message) /\ Lost \in Int
      /\ client.last \in Nat /\ server.last \in Nat /\ client.applied \in Seq(Event)
      /\ client \in [at : {"connecting", "open", "waiting", "closed", "left"}, last : Nat,
                     applied : Seq(Event)]
  BY DeliveryConstants DEF DeliveryTypes, Lost
<1>4. e = net[1] /\ e \in Message /\ Len(net) \in Nat /\ Len(net) > 0
  BY <1>1, <1>2, <1>3
<1>5. /\ net' \in Seq(Message) /\ Len(net') = Len(net) - 1
      /\ \A i \in 1 .. Len(net) - 1 : net'[i] = net[i + 1]
  BY <1>2, <1>3, HeadTailProperties
<1>6. /\ client.last <= server.last /\ server.last <= total
      /\ Covers(net, InFlight, client.last, server.last, Lost)
      /\ server.at = "gone" => net[Len(net)] = Close
  BY <1>2 DEF OnTheWay
<1>7. Lost' = Lost /\ InFlight' = InFlight - 1 /\ InFlight \in Nat
  BY <1>2, <1>4, <1>5 DEF Lost, InFlight
<1>8. \A i \in 1 .. InFlight : net[i].sequence \in Nat /\ net[i].sequence > client.last
  <2>1. \A i \in 1 .. InFlight : i \in 1 .. Len(net)
    BY <1>4 DEF InFlight
  <2>2. \A i \in 1 .. InFlight : net[i].sequence \in Nat
    BY <1>3, <2>1, Numbered
  <2>3. QED
    BY <1>3, <1>6, <2>2 DEF Covers
<1>9. CASE e = Close
  <2>1. client' = [client EXCEPT !.at = "closed"]
    BY <1>1, <1>9 DEF Receive
  <2>2. /\ client'.at = "closed" /\ client'.last = client.last /\ client'.applied = client.applied
        /\ client' \in [at : {"connecting", "open", "waiting", "closed", "left"}, last : Nat,
                        applied : Seq(Event)]
    BY <1>3, <2>1
  <2>3. InFlight = 0
    <3>1. ~ (1 \in 1 .. InFlight)
      <4>1. SUFFICES ASSUME 1 \in 1 .. InFlight
                     PROVE  FALSE
        OBVIOUS
      <4>2. net[1].sequence > client.last
        BY <1>8, <4>1
      <4>3. net[1].sequence = 0
        BY <1>4, <1>9, Numbered, Zenon
      <4>4. QED
        BY <1>3, <4>2, <4>3
    <3>2. QED
      BY <1>7, <3>1
  <2>4. server.at = "gone" /\ Len(net) = 1
    BY <1>4, <2>3 DEF InFlight
  <2>5. net' = <<>>
    BY <1>5, <2>4
  <2>6. OnTheWay' /\ InBatch'
    BY <1>2, <2>2, <2>4, <2>5 DEF OnTheWay, InBatch
  <2>7. DeliveryTypes' /\ NewestKept' /\ Applied'
    BY <1>2, <1>5, <1>7, <2>2 DEF DeliveryTypes, NewestKept, Applied
  <2>8. QED
    BY <1>2, <2>2, <2>6, <2>7
<1>10. CASE e # Close
  <2>1. InFlight > 0
    <3>1. CASE server.at = "gone"
      <4>1. Len(net) # 1
        BY <1>4, <1>6, <1>10, <3>1
      <4>2. InFlight = Len(net) - 1
        BY <3>1 DEF InFlight
      <4>3. QED
        BY <1>4, <4>1, <4>2
    <3>2. CASE server.at # "gone"
      BY <1>4, <3>2 DEF InFlight
    <3>3. QED
      BY <3>1, <3>2
  <2>2. e \in Event /\ e.sequence \in Nat /\ e.sequence > client.last
    <3>1. e \in Event
      BY <1>4, <1>10 DEF Message
    <3>2. 1 \in 1 .. InFlight
      BY <1>7, <2>1
    <3>3. QED
      BY <1>4, <1>8, <3>1, <3>2
  <2>3. client' = [client EXCEPT !.last = e.sequence, !.applied = Append(client.applied, e)]
    BY <1>1, <1>10, <2>2 DEF Receive, IsNew
  <2>4. /\ Append(client.applied, e) \in Seq(Event)
        /\ Len(Append(client.applied, e)) = Len(client.applied) + 1
        /\ \A i \in 1 .. Len(client.applied) : Append(client.applied, e)[i] = client.applied[i]
        /\ Append(client.applied, e)[Len(client.applied) + 1] = e
        /\ Len(client.applied) \in Nat
    BY <1>3, <2>2, AppendProperties
  <2>5. /\ client'.at = "open" /\ client'.last = e.sequence
        /\ client'.applied = Append(client.applied, e)
        /\ client' \in [at : {"connecting", "open", "waiting", "closed", "left"}, last : Nat,
                        applied : Seq(Event)]
    BY <1>2, <1>3, <2>2, <2>3, <2>4
  <2>6. PICK list, rest, m, from, to, lost :
          /\ list = net /\ rest = net' /\ m = InFlight
          /\ from = client.last /\ to = server.last /\ lost = Lost
    OBVIOUS
  <2>7. /\ from < e.sequence /\ e.sequence <= to
        /\ \A n \in from + 1 .. e.sequence - 1 : n <= lost
        /\ Covers(rest, m - 1, e.sequence, to, lost)
    <3>1. /\ m \in Nat /\ m > 0 /\ from \in Nat /\ to \in Nat /\ lost \in Int
          /\ Covers(list, m, from, to, lost)
          /\ \A i \in 1 .. m : list[i].sequence \in Nat
          /\ list[1] = e
      BY <1>3, <1>4, <1>6, <1>7, <1>8, <2>1, <2>6
    <3>2. \A i \in 1 .. m - 1 : rest[i] = list[i + 1]
      BY <1>4, <1>5, <2>6 DEF InFlight
    <3>3. QED
      BY <3>1, <3>2, CoversTail
  <2>8. Applied'
    <3>1. PICK old, new, k : old = client.applied /\ new = client'.applied /\ k = Len(client.applied)
      OBVIOUS
    <3>2. /\ k \in Nat /\ from \in Nat /\ lost \in Int /\ 0 <= from
          /\ Covers(old, k, 0, from, lost)
          /\ \A i \in 1 .. k : old[i].sequence \in Nat
          /\ \A i \in 1 .. k : new[i] = old[i]
          /\ new[k + 1].sequence = e.sequence
          /\ Len(new) = k + 1
      <4>1. \A i \in 1 .. Len(client.applied) : client.applied[i].sequence \in Nat
        BY <1>3, Numbered
      <4>2. QED
        BY <1>3, <2>4, <2>5, <2>6, <3>1, <4>1 DEF Applied
    <3>3. Covers(new, k + 1, 0, e.sequence, lost)
      BY <2>2, <2>7, <3>2, CoversAppend
    <3>4. QED
      BY <1>7, <2>5, <2>6, <3>1, <3>2, <3>3 DEF Applied
  <2>9. OnTheWay'
    <3>1. server.at = "gone" => net' # <<>> /\ net'[Len(net')] = Close
      <4>1. SUFFICES ASSUME server.at = "gone"
                     PROVE  net' # <<>> /\ net'[Len(net')] = Close
        OBVIOUS
      <4>2. Len(net) > 1
        BY <1>4, <2>1, <4>1 DEF InFlight
      <4>3. net'[Len(net) - 1] = net[Len(net)]
        BY <1>4, <1>5, <4>2
      <4>4. net' # <<>>
        BY <1>4, <1>5, <4>2
      <4>5. QED
        BY <1>5, <1>6, <4>1, <4>3, <4>4
    <3>2. QED
      BY <1>2, <1>7, <2>5, <2>6, <2>7, <3>1 DEF OnTheWay
  <2>10. DeliveryTypes' /\ NewestKept' /\ InBatch'
    BY <1>2, <1>5, <1>7, <2>5 DEF DeliveryTypes, NewestKept, InBatch, Lost
  <2>11. client'.last <= total'
    BY <1>2, <1>3, <1>6, <2>2, <2>5, <2>6, <2>7
  <2>12. QED
    BY <1>2, <1>6, <2>8, <2>9, <2>10, <2>11
<1>11. QED
  BY <1>9, <1>10

\* The connection is gone: what was on its way is lost, the cursors are not.
LEMMA ConnectionLost ==
  ASSUME DeliveryInv,
         UNCHANGED <<script, total, events>>, net' = <<>>,
         server' = [server EXCEPT !.at = "gone", !.batch = <<>>],
         NEW at \in {"waiting", "left"}, client' = [client EXCEPT !.at = at]
  PROVE  DeliveryInv'
<1> USE DEF DeliveryInv
<1>0. /\ server \in [at : {"read", "send", "gone"}, last : Nat, batch : Seq(Event)]
      /\ client \in [at : {"connecting", "open", "waiting", "closed", "left"}, last : Nat,
                     applied : Seq(Event)]
  BY DEF DeliveryTypes
<1>1. /\ server'.at = "gone"
      /\ server' \in [at : {"read", "send", "gone"}, last : Nat, batch : Seq(Event)]
  <2>1. <<>> \in Seq(Event)
    OBVIOUS
  <2>2. server' = [server EXCEPT !.at = "gone", !.batch = <<>>]
    OBVIOUS
  <2>3. QED
    BY <1>0, <2>1, <2>2
<1>2. /\ client'.at # "open" /\ client'.last = client.last /\ client'.applied = client.applied
      /\ client' \in [at : {"connecting", "open", "waiting", "closed", "left"}, last : Nat,
                      applied : Seq(Event)]
  BY <1>0
<1>3. DeliveryTypes' /\ NewestKept' /\ Applied'
  BY <1>1, <1>2, SMTT(30) DEF DeliveryTypes, NewestKept, Applied, Lost
<1>4. OnTheWay' /\ InBatch'
  BY <1>1, <1>2 DEF OnTheWay, InBatch
<1>5. QED
  BY <1>2, <1>3, <1>4

\* The timer leaves everything else as it is.
LEMMA RetryKeeps ==
  ASSUME DeliveryInv, Retry
  PROVE  DeliveryInv'
<1> USE DEF DeliveryInv
<1>1. client.at = "waiting" /\ client' = [client EXCEPT !.at = "connecting"]
      /\ UNCHANGED <<script, total, events, server, net>>
  BY DEF Retry
<1>2. /\ client'.at = "connecting" /\ client'.last = client.last
      /\ client'.applied = client.applied
      /\ client' \in [at : {"connecting", "open", "waiting", "closed", "left"}, last : Nat,
                      applied : Seq(Event)]
  BY <1>1 DEF DeliveryTypes
<1>3. DeliveryTypes' /\ NewestKept' /\ Applied'
  BY <1>1, <1>2 DEF DeliveryTypes, NewestKept, Applied, Lost
<1>4. OnTheWay' /\ InBatch'
  BY <1>1, <1>2 DEF OnTheWay, InBatch, Lost
<1>5. QED
  BY <1>1, <1>2, <1>3, <1>4

-----------------------------------------------------------------------------
(* The invariant and the property *)

\* Every step keeps the invariant.
LEMMA DeliverySteps ==
  ASSUME DeliveryInv, [Next]_vars
  PROVE  DeliveryInv'
<1>1. CASE RecordEvent
  BY <1>1, RecordEventKeeps
<1>2. CASE SetStatus
  BY <1>2, SetStatusKeeps
<1>3. CASE ReadEvents
  BY <1>3, ReadEventsKeeps
<1>4. CASE SendEvent
  BY <1>4, SendEventKeeps
<1>5. CASE CheckStatus
  BY <1>5, CheckStatusKeeps
<1>6. CASE Connect
  BY <1>6, ConnectKeeps
<1>7. CASE Receive
  BY <1>7, ReceiveKeeps
<1>8. CASE Retry
  BY <1>8, RetryKeeps
<1>9. CASE Drop
  BY <1>9, ConnectionLost DEF Drop
<1>10. CASE Disconnect
  BY <1>10, ConnectionLost DEF Disconnect
<1>11. CASE ReplyStep \/ StreamFails
  <2>1. Unseen
    BY <1>11 DEF ReplyStep, PollEvents, PollStatus, WaitForRun, StreamFails, Unseen
  <2>2. QED
    BY <2>1, UnseenKeeps
<1>12. CASE UNCHANGED vars
  BY <1>12, UnseenKeeps DEF vars, Unseen
<1>13. QED
  BY <1>1, <1>2, <1>3, <1>4, <1>5, <1>6, <1>7, <1>8, <1>9, <1>10, <1>11, <1>12
     DEF Next, RunStep, ServerStep, ClientStep

\* What is on its way to a client, and what it has, is the stretch of events
\* up to the server's cursor and up to its own.
THEOREM DeliveryInvariant == Spec => []DeliveryInv
BY DeliveryStart, DeliverySteps, PTL DEF Spec

\* A client applies each event at most once and in order, over any number of
\* lost connections, and misses only what the list had already dropped.
THEOREM DeliveredOnce == Spec => []AppliedOnceInOrder
<1>1. ASSUME DeliveryInv
      PROVE  AppliedOnceInOrder
  <2>1. /\ DOMAIN client.applied = 1 .. Len(client.applied) /\ client.last \in Nat
        /\ Covers(client.applied, Len(client.applied), 0, client.last, Lost)
    BY <1>1 DEF DeliveryInv, DeliveryTypes, Applied
  <2>2. QED
    BY <2>1, SMTT(30) DEF AppliedOnceInOrder, Covers, Lost
<1>2. QED
  BY <1>1, DeliveryInvariant, PTL
=============================================================================
