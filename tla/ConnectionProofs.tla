-------------------------- MODULE ConnectionProofs --------------------------
(***************************************************************************)
(* What Connection::Send promises, proved for every frame length and every *)
(* size of the kernel's buffer: nothing given to it is lost, doubled or    *)
(* overtaken, and the connection implements ByteStream. AllKept is         *)
(* inductive once the types are known. And an edge of epoll is in one of   *)
(* three places until it is served: in the ready list, in the events       *)
(* epoll_wait returned, or owed by the handler that runs (EdgeInv).        *)
(***************************************************************************)
EXTENDS Connection, SequenceTheorems, TLAPS

\* What send() takes is some of what it is offered, and fits.
LEMMA TakenFits ==
    ASSUME TypeOK, NEW n \in Nat
    PROVE  Taken(n) \in 0 .. n /\ unread + Taken(n) \in 0 .. SendSpace
BY ConnectionConstants DEF TypeOK, Taken, Lesser

\* A part of a sequence of numbers, and where its elements come from.
LEMMA PartOf ==
    ASSUME NEW s \in Seq(Nat), NEW m \in 1 .. Len(s) + 1, NEW n \in 0 .. Len(s), m <= n + 1
    PROVE  /\ SubSeq(s, m, n) \in Seq(Nat)
           /\ Len(SubSeq(s, m, n)) = n - m + 1
           /\ \A i \in 1 .. n - m + 1 : SubSeq(s, m, n)[i] = s[m + i - 1]
<1>1. \A i \in m .. n : s[i] \in Nat
  BY ElementOfSeq
<1>. QED  BY <1>1, SubSeqProperties

\* Two sequences of numbers, one after the other.
LEMMA Joined ==
    ASSUME NEW s \in Seq(Nat), NEW t \in Seq(Nat)
    PROVE  /\ s \o t \in Seq(Nat)
           /\ Len(s \o t) = Len(s) + Len(t)
           /\ \A i \in 1 .. Len(s) : (s \o t)[i] = s[i]
           /\ \A i \in 1 .. Len(t) : (s \o t)[Len(s) + i] = t[i]
<1>1. /\ s \o t \in Seq(Nat)
      /\ Len(s \o t) = Len(s) + Len(t)
      /\ \A i \in 1 .. Len(s) + Len(t) :
            (s \o t)[i] = IF i <= Len(s) THEN s[i] ELSE t[i - Len(s)]
  BY ConcatProperties
<1>2. ASSUME NEW i \in 1 .. Len(s)
      PROVE  (s \o t)[i] = s[i]
  BY <1>1, <1>2
<1>3. ASSUME NEW i \in 1 .. Len(t)
      PROVE  (s \o t)[Len(s) + i] = t[i]
  <2>1. Len(s) + i \in 1 .. Len(s) + Len(t) /\ ~(Len(s) + i <= Len(s)) /\ Len(s) + i - Len(s) = i
    BY <1>3
  <2> QED  BY <1>1, <2>1
<1>. QED  BY <1>1, <1>2, <1>3

-----------------------------------------------------------------------------
(* Sending *)

\* The parts of the type invariant that sending disturbs.
SendTypes ==
    /\ unread \in 0 .. SendSpace
    /\ ready \in BOOLEAN
    /\ out \in BOOLEAN
    /\ write_buffer \in Seq(Nat)
    /\ write_offset \in Nat
    /\ given \in Nat
    /\ sent \in Seq(Nat)

\* EPOLL_CTL_MOD changes the events and the ready list, to Boolean values.
LEMMA UpdateTypes ==
    ASSUME TypeOK, NEW wantOut \in BOOLEAN, UpdateEvents(wantOut)
    PROVE  out' \in BOOLEAN /\ ready' \in BOOLEAN
BY Zenon DEF TypeOK, UpdateEvents

\* A step that adds n units to the sent ones, the oldest of those that wait, and
\* keeps the rest, in order, does what a ByteStream does.
LEMMA StreamStep ==
    ASSUME TypeOK, AllKept, AllKept', sent' \in Seq(Nat), given' \in Nat, given' >= given,
           NEW t \in Seq(Nat), sent' = sent \o t, write_buffer' \in Seq(Nat), write_offset' \in Nat
    PROVE  Stream!Next
<1> DEFINE n == Len(t)
<1>1. sent \in Seq(Nat) /\ n \in Nat /\ Len(sent) \in Nat
  BY DEF TypeOK
<1>2. /\ Len(sent') = Len(sent) + n
      /\ \A i \in 1 .. n : sent'[Len(sent) + i] = t[i]
  BY <1>1, Joined
<1>3. \A i \in 1 .. n : t[i] = Len(sent) + i
  <2> TAKE i \in 1 .. n
  <2>1. Len(sent) + i \in DOMAIN sent' /\ sent'[Len(sent) + i] = t[i]
    BY <1>1, <1>2
  <2> QED  BY <2>1 DEF AllKept
<1>4. n <= given' - Len(sent)
  <2>1. Len(write_buffer') - write_offset' >= 0
    BY DEF AllKept
  <2> QED  BY <1>1, <1>2, <2>1 DEF AllKept
<1>5. t = [i \in 1 .. n |-> Len(sent) + i]
  BY <1>1, <1>3
<1>6. n \in 0 .. given' - Len(sent)
  BY <1>1, <1>4
<1>7. \E m \in 0 .. given' - Len(sent) : sent' = sent \o [i \in 1 .. m |-> Len(sent) + i]
  <2> HIDE DEF n
  <2> WITNESS n \in 0 .. given' - Len(sent)
  <2> QED  BY <1>5, Zenon
<1>. QED  BY <1>7, Zenon DEF Stream!Next

\* Send: the new units wait behind the others, or go out when none wait.
LEMMA Sending ==
    ASSUME TypeOK, AllKept, Send(NewFrame)
    PROVE  SendTypes' /\ AllKept' /\ Stream!Next
<1> DEFINE data == NewFrame
           n == IF write_buffer = <<>> THEN Taken(Len(data)) ELSE 0
           now == SubSeq(data, 1, n)
           later == SubSeq(data, n + 1, Len(data))
<1>1. FrameLen \in Nat /\ given \in Nat /\ sent \in Seq(Nat) /\ write_buffer \in Seq(Nat)
      /\ write_offset \in Nat /\ Len(sent) \in Nat /\ Len(write_buffer) \in Nat
  BY ConnectionConstants DEF TypeOK
<1>2. /\ data \in Seq(Nat)
      /\ Len(data) = FrameLen
      /\ \A i \in 1 .. FrameLen : data[i] = given + i
  BY <1>1 DEF NewFrame
<1>3. n \in 0 .. FrameLen /\ unread + n \in 0 .. SendSpace
  <2>1. Taken(FrameLen) \in 0 .. FrameLen /\ unread + Taken(FrameLen) \in 0 .. SendSpace
    BY <1>1, TakenFits
  <2> QED  BY <1>1, <1>2, <2>1 DEF TypeOK
<1>6. /\ given' = given + FrameLen
      /\ sent' = sent \o now
      /\ write_buffer' = write_buffer \o later
      /\ write_offset' = write_offset
      /\ unread' = unread + n
  BY <1>2 DEF Send
<1>9. /\ write_buffer # <<>> => n = 0
      /\ Len(write_buffer) > 0 => n = 0
  BY <1>1
<1> HIDE DEF data, n
<1>4. /\ now \in Seq(Nat)
      /\ Len(now) = n
      /\ \A i \in 1 .. n : now[i] = given + i
  <2>1. /\ now \in Seq(Nat)
        /\ Len(now) = n - 1 + 1
        /\ \A i \in 1 .. n - 1 + 1 : now[i] = data[1 + i - 1]
    BY <1>1, <1>2, <1>3, PartOf
  <2>2. n - 1 + 1 = n
    BY <1>3
  <2>3. ASSUME NEW i \in 1 .. n
        PROVE  now[i] = given + i
    <3>1. i \in 1 .. FrameLen /\ 1 + i - 1 = i
      BY <1>1, <1>3, <2>3
    <3> QED  BY <1>2, <2>1, <2>2, <2>3, <3>1
  <2> QED  BY <2>1, <2>2, <2>3
<1>5. /\ later \in Seq(Nat)
      /\ Len(later) = FrameLen - n
      /\ \A i \in 1 .. FrameLen - n : later[i] = given + n + i
  <2>1. /\ later \in Seq(Nat)
        /\ Len(later) = FrameLen - (n + 1) + 1
        /\ \A i \in 1 .. FrameLen - (n + 1) + 1 : later[i] = data[n + 1 + i - 1]
    BY <1>1, <1>2, <1>3, PartOf
  <2> QED  BY <1>1, <1>2, <1>3, <2>1
<1> HIDE DEF now, later
<1>7. /\ sent' \in Seq(Nat)
      /\ Len(sent') = Len(sent) + n
      /\ \A i \in 1 .. Len(sent) : sent'[i] = sent[i]
      /\ \A i \in 1 .. n : sent'[Len(sent) + i] = now[i]
  BY <1>1, <1>4, <1>6, Joined
<1>8. /\ write_buffer' \in Seq(Nat)
      /\ Len(write_buffer') = Len(write_buffer) + (FrameLen - n)
      /\ \A i \in 1 .. Len(write_buffer) : write_buffer'[i] = write_buffer[i]
      /\ \A i \in 1 .. FrameLen - n : write_buffer'[Len(write_buffer) + i] = later[i]
  <2>1. /\ write_buffer \o later \in Seq(Nat)
        /\ Len(write_buffer \o later) = Len(write_buffer) + Len(later)
        /\ \A i \in 1 .. Len(write_buffer) : (write_buffer \o later)[i] = write_buffer[i]
        /\ \A i \in 1 .. Len(later) : (write_buffer \o later)[Len(write_buffer) + i] = later[i]
    BY <1>1, <1>5, Joined
  <2>2. Len(later) = FrameLen - n /\ write_buffer' = write_buffer \o later
    BY <1>5, <1>6
  <2> QED  BY ONLY <2>1, <2>2
<1>11. given = Len(sent) + Len(write_buffer) - write_offset /\ write_offset <= Len(write_buffer)
  BY DEF AllKept
<1>10. n > 0 => Len(write_buffer) = 0 /\ write_offset = 0 /\ given = Len(sent)
  BY <1>1, <1>3, <1>9, <1>11
<1>15. given' - Len(sent') - Len(write_buffer') + write_offset' = 0
  <2>1. Len(sent') = Len(sent) + n /\ Len(write_buffer') = Len(write_buffer) + (FrameLen - n)
    BY <1>7, <1>8
  <2> QED  BY ONLY <1>1, <1>3, <1>6, <1>11, <2>1
<1>12. SendTypes'
  <2>1. out' \in BOOLEAN /\ ready' \in BOOLEAN
    <3>1. CASE UNCHANGED <<out, ready>>
      BY <3>1 DEF TypeOK
    <3>2. CASE UpdateEvents(TRUE)
      BY <3>2, UpdateTypes
    <3> QED  BY <3>1, <3>2, Zenon DEF Send
  <2> QED  BY <1>1, <1>3, <1>6, <1>7, <1>8, <2>1 DEF SendTypes
<1>13. AllKept'
  <2>1. ASSUME NEW i \in DOMAIN sent'
        PROVE  sent'[i] = i
    <3>1. i \in 1 .. Len(sent) + n
      BY <1>7, <2>1
    <3>2. CASE i <= Len(sent)
      <4>1. i \in 1 .. Len(sent) /\ i \in DOMAIN sent
        BY <1>1, <3>1, <3>2
      <4> QED  BY <1>7, <4>1 DEF AllKept
    <3>3. CASE i > Len(sent)
      <4>1. i - Len(sent) \in 1 .. n /\ n > 0 /\ Len(sent) + (i - Len(sent)) = i
        BY <1>1, <1>3, <3>1, <3>3
      <4>2. sent'[i] = now[i - Len(sent)]
        BY <1>7, <4>1
      <4> QED  BY <1>1, <1>4, <1>10, <3>1, <4>1, <4>2
    <3> QED  BY <1>1, <3>1, <3>2, <3>3
  <2>2. ASSUME NEW j \in DOMAIN write_buffer'
        PROVE  write_buffer'[j] = Len(sent') - write_offset' + j
    <3>1. j \in 1 .. Len(write_buffer) + (FrameLen - n)
      BY <1>8, <2>2
    <3>2. CASE j <= Len(write_buffer)
      <4>1. j \in 1 .. Len(write_buffer) /\ j \in DOMAIN write_buffer /\ n = 0
        BY <1>1, <1>3, <1>9, <3>1, <3>2
      <4>2. write_buffer[j] = Len(sent) - write_offset + j
        BY <4>1 DEF AllKept
      <4> QED  BY <1>1, <1>6, <1>7, <1>8, <4>1, <4>2
    <3>3. CASE j > Len(write_buffer)
      <4> DEFINE k == j - Len(write_buffer)
      <4>1. k \in 1 .. FrameLen - n /\ Len(write_buffer) + k = j
        BY <1>1, <1>3, <3>1, <3>3
      <4>2. write_buffer'[j] = later[k]
        BY <1>8, <4>1
      <4>3. write_buffer'[j] = given + n + k
        BY <1>5, <4>1, <4>2
      <4>4. Len(sent') = Len(sent) + n /\ write_offset' = write_offset
        BY <1>6, <1>7
      <4> HIDE DEF k
      <4> QED  BY ONLY <1>1, <1>3, <1>11, <4>1, <4>3, <4>4
    <3> QED  BY <1>1, <3>1, <3>2, <3>3
  <2>3. given' = Len(sent') + Len(write_buffer') - write_offset'
    <3>1. given' \in Int /\ Len(sent') \in Int /\ Len(write_buffer') \in Int /\ write_offset' \in Int
      BY <1>1, <1>6, <1>7, <1>8
    <3> QED  BY ONLY <1>15, <3>1
  <2>4. write_offset' <= Len(write_buffer')
    BY <1>1, <1>3, <1>6, <1>8, <1>11
  <2> QED  BY <2>1, <2>2, <2>3, <2>4 DEF AllKept
<1>14. Stream!Next
  <2>1. given' \in Nat /\ given' >= given /\ write_offset' \in Nat
    BY <1>1, <1>6
  <2> QED  BY <1>4, <1>6, <1>7, <1>8, <1>13, <2>1, StreamStep
<1>. QED  BY <1>12, <1>13, <1>14

\* OnWrite, when the socket did not fail: the oldest units that wait go out.
LEMMA Writing ==
    ASSUME TypeOK, AllKept, OnWrite, live'
    PROVE  SendTypes' /\ AllKept' /\ Stream!Next
<1> DEFINE waiting == SubSeq(write_buffer, write_offset + 1, Len(write_buffer))
           n == Taken(Len(waiting))
           now == SubSeq(waiting, 1, n)
           w == Len(write_buffer) - write_offset
<1>1. given \in Nat /\ sent \in Seq(Nat) /\ write_buffer \in Seq(Nat)
      /\ write_offset \in Nat /\ Len(sent) \in Nat /\ Len(write_buffer) \in Nat
  BY DEF TypeOK
<1>2. given = Len(sent) + w /\ w \in Nat
  BY <1>1 DEF AllKept
<1>3. /\ waiting \in Seq(Nat)
      /\ Len(waiting) = w
      /\ \A i \in 1 .. w : waiting[i] = Len(sent) + i
  <2>1. /\ waiting \in Seq(Nat)
        /\ Len(waiting) = Len(write_buffer) - (write_offset + 1) + 1
        /\ \A i \in 1 .. Len(write_buffer) - (write_offset + 1) + 1 :
              waiting[i] = write_buffer[write_offset + 1 + i - 1]
    <3>1. write_offset + 1 \in 1 .. Len(write_buffer) + 1 /\ Len(write_buffer) \in 0 .. Len(write_buffer)
          /\ write_offset + 1 <= Len(write_buffer) + 1
      BY <1>1, <1>2
    <3> QED  BY <1>1, <3>1, PartOf
  <2>2. ASSUME NEW i \in 1 .. w
        PROVE  waiting[i] = Len(sent) + i
    <3>1. i \in 1 .. Len(write_buffer) - (write_offset + 1) + 1
          /\ write_offset + 1 + i - 1 = write_offset + i /\ write_offset + i \in DOMAIN write_buffer
      BY <1>1, <2>2
    <3>2. waiting[i] = write_buffer[write_offset + i]
      BY <2>1, <3>1
    <3>3. write_buffer[write_offset + i] = Len(sent) - write_offset + (write_offset + i)
      BY <3>1 DEF AllKept
    <3> QED  BY <1>1, <2>2, <3>2, <3>3
  <2>3. Len(write_buffer) - (write_offset + 1) + 1 = w
    BY <1>1
  <2> QED  BY <2>1, <2>2, <2>3
<1>4. n \in 0 .. w /\ unread + n \in 0 .. SendSpace
  BY <1>2, <1>3, TakenFits
<1>5. /\ sent' = sent \o now
      /\ given' = given
      /\ unread' = unread + n
      /\ IF n = Len(waiting)
         THEN /\ write_buffer' = <<>> /\ write_offset' = 0
              /\ IF waiting = <<>> THEN UNCHANGED <<out, ready>> ELSE UpdateEvents(FALSE)
         ELSE /\ write_offset' = write_offset + n /\ write_buffer' = write_buffer
              /\ UNCHANGED <<out, ready>>
  <2>1. ~(waiting # <<>> /\ peer = "reset")
    BY DEF OnWrite, OnClose
  <2> QED  BY <2>1 DEF OnWrite
<1> HIDE DEF n, waiting
<1>6. /\ now \in Seq(Nat)
      /\ Len(now) = n
      /\ \A i \in 1 .. n : now[i] = Len(sent) + i
  <2>1. /\ now \in Seq(Nat)
        /\ Len(now) = n - 1 + 1
        /\ \A i \in 1 .. n - 1 + 1 : now[i] = waiting[1 + i - 1]
    BY <1>2, <1>3, <1>4, PartOf
  <2>2. n - 1 + 1 = n
    BY <1>4
  <2>3. ASSUME NEW i \in 1 .. n
        PROVE  now[i] = Len(sent) + i
    <3>1. i \in 1 .. w /\ 1 + i - 1 = i
      BY <1>2, <1>4, <2>3
    <3> QED  BY <1>3, <2>1, <2>2, <2>3, <3>1
  <2> QED  BY <2>1, <2>2, <2>3
<1> HIDE DEF now
<1>7. /\ sent' \in Seq(Nat)
      /\ Len(sent') = Len(sent) + n
      /\ \A i \in 1 .. Len(sent) : sent'[i] = sent[i]
      /\ \A i \in 1 .. n : sent'[Len(sent) + i] = now[i]
  BY <1>1, <1>5, <1>6, Joined
<1>8. out' \in BOOLEAN /\ ready' \in BOOLEAN
  <2>1. CASE UNCHANGED <<out, ready>>
    BY <2>1 DEF TypeOK
  <2>2. CASE UpdateEvents(FALSE)
    BY <2>2, UpdateTypes
  <2> QED  BY <1>5, <2>1, <2>2, Zenon
<1>9. /\ write_buffer' \in Seq(Nat)
      /\ write_offset' \in Nat
      /\ write_offset' <= Len(write_buffer')
      /\ given = Len(sent) + n + Len(write_buffer') - write_offset'
      /\ \A j \in DOMAIN write_buffer' : write_buffer'[j] = Len(sent) + n - write_offset' + j
  <2>1. CASE n = w
    BY <1>1, <1>2, <1>3, <1>4, <1>5, <2>1
  <2>2. CASE n # w
    <3>1. write_buffer' = write_buffer /\ write_offset' = write_offset + n
      BY <1>3, <1>5, <2>2
    <3>2. \A j \in DOMAIN write_buffer : write_buffer[j] = Len(sent) - write_offset + j
      BY DEF AllKept
    <3> QED  BY <1>1, <1>2, <1>4, <3>1, <3>2
  <2> QED  BY <2>1, <2>2
<1>10. SendTypes'
  BY <1>1, <1>4, <1>5, <1>7, <1>8, <1>9 DEF SendTypes
<1>11. AllKept'
  <2>1. ASSUME NEW i \in DOMAIN sent'
        PROVE  sent'[i] = i
    <3>1. i \in 1 .. Len(sent) + n
      BY <1>7, <2>1
    <3>2. CASE i <= Len(sent)
      <4>1. i \in 1 .. Len(sent) /\ i \in DOMAIN sent
        BY <1>1, <3>1, <3>2
      <4> QED  BY <1>7, <4>1 DEF AllKept
    <3>3. CASE i > Len(sent)
      <4>1. i - Len(sent) \in 1 .. n /\ Len(sent) + (i - Len(sent)) = i
        BY <1>1, <1>4, <3>1, <3>3
      <4>2. sent'[i] = now[i - Len(sent)]
        BY <1>7, <4>1
      <4> QED  BY <1>6, <4>1, <4>2
    <3> QED  BY <1>1, <3>1, <3>2, <3>3
  <2>2. given' = Len(sent') + Len(write_buffer') - write_offset'
    <3>1. given' = given /\ Len(sent') = Len(sent) + n
          /\ given = Len(sent) + n + Len(write_buffer') - write_offset'
      BY <1>5, <1>7, <1>9
    <3> QED  BY ONLY <3>1
  <2>3. ASSUME NEW j \in DOMAIN write_buffer'
        PROVE  write_buffer'[j] = Len(sent') - write_offset' + j
    <3>1. Len(sent') = Len(sent) + n
      BY <1>7
    <3>2. write_buffer'[j] = Len(sent) + n - write_offset' + j
      BY <1>9, <2>3
    <3>3. {Len(sent), n, write_offset', j} \subseteq Int
      BY <1>1, <1>4, <1>9, <2>3
    <3> QED  BY ONLY <3>1, <3>2, <3>3
  <2> QED  BY <1>9, <2>1, <2>2, <2>3 DEF AllKept
<1>12. Stream!Next
  <2>1. given' \in Nat /\ given' >= given
    BY <1>1, <1>5
  <2> QED  BY <1>5, <1>6, <1>7, <1>9, <1>11, <2>1, StreamStep
<1>. QED  BY <1>10, <1>11, <1>12

-----------------------------------------------------------------------------
(* Every step *)

\* A step that leaves the sent and the waiting units alone keeps AllKept and is
\* a stuttering step of ByteStream.
LEMMA Silent ==
    ASSUME AllKept, UNCHANGED sendVars
    PROVE  AllKept' /\ UNCHANGED <<given, sent>>
BY DEF AllKept, sendVars

\* What OnClose leaves is still of its type.
LEMMA ClosedTypes ==
    ASSUME TypeOK, OnClose
    PROVE  disconnects' \in Nat /\ live' \in BOOLEAN /\ ready' \in BOOLEAN
<1>1. disconnects' \in Nat
  BY DEF TypeOK, OnClose
<1>2. live' \in BOOLEAN /\ ready' \in BOOLEAN
  BY Zenon DEF OnClose
<1>. QED  BY <1>1, <1>2

\* Init is a state of the types, in which nothing was given or sent.
LEMMA Start ==
    ASSUME Init
    PROVE  TypeOK /\ AllKept /\ Stream!Init
<1>1. TypeOK
  <2>1. <<>> \in Seq(Nat) /\ {} \subseteq {"IN", "OUT", "HUP"} /\ 0 \in Nat /\ 0 \in 0 .. SendSpace
    BY ConnectionConstants
  <2> QED  BY <2>1, Zenon DEF Init, TypeOK
<1>2. AllKept
  BY DEF Init, AllKept
<1>. QED  BY <1>1, <1>2 DEF Init, Stream!Init

\* Each action keeps the types and AllKept, and is a step of ByteStream.
LEMMA EveryStep ==
    ASSUME TypeOK, AllKept, [Next]_vars
    PROVE  TypeOK' /\ AllKept' /\ [Stream!Next]_<<given, sent>>
<1> USE DEF TypeOK
<1>1. CASE PeerSends
  BY <1>1, Silent DEF PeerSends, readVars, sendVars
<1>2. CASE PeerReads
  BY <1>2, Silent, ConnectionConstants DEF PeerReads, readVars, sendVars
<1>3. CASE PeerGoes
  BY <1>3, Silent DEF PeerGoes, readVars, sendVars
<1>4. CASE EpollWait
  <2>1. Events \subseteq {"IN", "OUT", "HUP"}
    BY DEF Events
  <2> QED  BY <1>4, <2>1, Silent DEF EpollWait, readVars, sendVars
<1>5. CASE Dispatch
  <2>1. UNCHANGED <<peer, arrived, unread, out, ev, readVars, sendVars>>
    BY <1>5 DEF Dispatch
  <2>2. pc' \in {"wait", "read", "write"}
    BY <1>5 DEF Dispatch
  <2>3. disconnects' \in Nat /\ live' \in BOOLEAN /\ ready' \in BOOLEAN
    <3>1. CASE OnClose
      BY <3>1, ClosedTypes
    <3>2. CASE UNCHANGED <<ready, live, disconnects>>
      BY <3>2
    <3> QED  BY <1>5, <3>1, <3>2, Zenon DEF Dispatch
  <2> QED  BY <2>1, <2>2, <2>3, Silent DEF readVars, sendVars
<1>6. CASE OnRead
  <2>1. UNCHANGED <<peer, unread, out, ev, handled, sendVars>>
    BY <1>6 DEF OnRead
  <2>2. pc' \in {"frames", "wait", "write"} /\ buffered' \in Nat /\ arrived' \in Nat
    BY <1>6 DEF OnRead
  <2>3. disconnects' \in Nat /\ live' \in BOOLEAN /\ ready' \in BOOLEAN
    <3>1. CASE OnClose
      BY <3>1, ClosedTypes
    <3>2. CASE UNCHANGED <<ready, live, disconnects>>
      BY <3>2
    <3> QED  BY <1>6, <3>1, <3>2, Zenon DEF OnRead
  <2> QED  BY <2>1, <2>2, <2>3, Silent DEF sendVars
<1>7. CASE HandleFrame
  <2>1. buffered - FrameLen \in Nat /\ handled + 1 \in Nat
    BY <1>7, ConnectionConstants DEF HandleFrame, FrameComplete
  <2>2. CASE Send(NewFrame)
    <3>1. SendTypes' /\ AllKept' /\ Stream!Next
      BY <2>2, Sending
    <3>2. UNCHANGED <<peer, arrived>>
      BY <2>2 DEF Send
    <3> QED  BY <1>7, <2>1, <3>1, <3>2 DEF HandleFrame, SendTypes
  <2>3. CASE UNCHANGED <<socketVars, sendVars>>
    BY <1>7, <2>1, <2>3, Silent DEF HandleFrame, socketVars, sendVars
  <2> QED  BY <1>7, <2>2, <2>3 DEF HandleFrame
<1>8. CASE FramesDone
  BY <1>8, Silent DEF FramesDone, socketVars, readVars, sendVars
<1>9. CASE OnWrite
  <2>1. CASE live'
    <3>1. SendTypes' /\ AllKept' /\ Stream!Next
      BY <1>9, <2>1, Writing
    <3>2. disconnects' \in Nat /\ live' \in BOOLEAN
      <4>1. UNCHANGED <<live, disconnects>>
        BY <1>9, <2>1 DEF OnWrite, OnClose
      <4> QED  BY <4>1
    <3> QED  BY <1>9, <3>1, <3>2 DEF OnWrite, SendTypes, readVars
  <2>2. CASE ~live'
    <3>1. OnClose /\ UNCHANGED <<unread, out, sendVars>>
      BY <1>9, <2>2 DEF OnWrite
    <3>2. pc' = "wait" /\ UNCHANGED <<peer, arrived, ev, readVars>>
      BY <1>9 DEF OnWrite
    <3>3. disconnects' \in Nat /\ live' \in BOOLEAN /\ ready' \in BOOLEAN
      BY <3>1, ClosedTypes
    <3> QED  BY <3>1, <3>2, <3>3, Silent DEF readVars, sendVars
  <2> QED  BY <2>1, <2>2
<1>10. CASE Push
  <2>1. SendTypes' /\ AllKept' /\ Stream!Next
    BY <1>10, Sending DEF Push
  <2>2. UNCHANGED <<peer, arrived>>
    BY <1>10 DEF Push, Send
  <2> QED  BY <1>10, <2>1, <2>2 DEF Push, SendTypes, readVars
<1>11. CASE UNCHANGED vars
  BY <1>11 DEF vars, AllKept
<1>. QED
  BY <1>1, <1>2, <1>3, <1>4, <1>5, <1>6, <1>7, <1>8, <1>9, <1>10, <1>11, Zenon DEF Next

\* The types hold, and what is sent and what waits are all that was given to
\* Send, in its order, in every state (TypeOK, AllKept).
THEOREM NothingLost == Spec => [](TypeOK /\ AllKept)
<1>1. Init => TypeOK /\ AllKept
  BY Start
<1>2. TypeOK /\ AllKept /\ [Next]_vars => (TypeOK /\ AllKept)'
  BY EveryStep
<1>. QED  BY <1>1, <1>2, PTL DEF Spec

\* The connection, with its split sends, its buffer and its offset, implements
\* the stream: StreamSpec.
THEOREM ImplementsStream == Spec => StreamSpec
<1>1. Init => Stream!Init
  BY Start
<1>2. TypeOK /\ AllKept /\ [Next]_vars => [Stream!Next]_<<given, sent>>
  BY EveryStep
<1>. QED  BY <1>1, <1>2, NothingLost, PTL DEF Spec, StreamSpec, Stream!Spec

-----------------------------------------------------------------------------
(* No edge is lost *)

\* Where an edge is kept until somebody acts on it: in the ready list or, while
\* the IO thread is between epoll_wait and the handler, among the events it took.
\* On the way to OnRead, input needs no edge, nor does output on the way to
\* OnWrite: both go on until the socket is empty or full.
InputSeen == live /\ pc # "read" /\ arrived > 0 => ready \/ (pc = "dispatch" /\ "IN" \in ev)
PeerSeen == live /\ pc # "read" /\ peer # "open" => ready \/ (pc = "dispatch" /\ "HUP" \in ev)
OutputAsked == live /\ write_buffer # <<>> => out
OutputSeen ==
    live /\ pc # "write" /\ write_buffer # <<>> /\ unread < SendSpace =>
        ready \/ (pc # "wait" /\ "OUT" \in ev)
OpenWhileRead == pc \in {"dispatch", "read", "frames"} => live

EdgeInv == InputSeen /\ PeerSeen /\ OutputAsked /\ OutputSeen /\ OpenWhileRead

\* It is enough: between two epoll_waits only the ready list is left.
LEMMA EdgesEnough ==
    ASSUME EdgeInv
    PROVE  NoEdgeLost
BY DEF EdgeInv, InputSeen, PeerSeen, OutputAsked, OutputSeen, NoEdgeLost

\* EPOLL_CTL_MOD sees again whatever holds.
LEMMA Rearmed ==
    ASSUME NEW wantOut \in BOOLEAN, UpdateEvents(wantOut), UNCHANGED <<peer, arrived>>
    PROVE  /\ InputSeen' /\ PeerSeen'
           /\ wantOut => OutputAsked' /\ OutputSeen'
<1>1. /\ arrived' > 0 => ready'
      /\ peer' # "open" => ready'
      /\ wantOut => out'
      /\ wantOut /\ unread' < SendSpace => ready'
  BY Zenon DEF UpdateEvents
<1>. QED  BY <1>1, Zenon DEF InputSeen, PeerSeen, OutputAsked, OutputSeen

\* Nothing waits to be sent, so no edge of the output is needed.
LEMMA NothingWaits ==
    ASSUME write_buffer' = <<>>
    PROVE  OutputAsked' /\ OutputSeen'
BY Zenon DEF OutputAsked, OutputSeen

\* Send asks for EPOLLOUT unless the kernel took everything.
LEMMA SendKeepsEdges ==
    ASSUME TypeOK, EdgeInv, Send(NewFrame), UNCHANGED <<pc, ev, live>>
    PROVE  EdgeInv'
<1> DEFINE data == NewFrame
           n == IF write_buffer = <<>> THEN Taken(Len(data)) ELSE 0
<1>1. FrameLen \in Nat \ {0} /\ given \in Nat /\ write_buffer \in Seq(Nat)
  BY ConnectionConstants DEF TypeOK
<1>2. data \in Seq(Nat) /\ Len(data) = FrameLen
  BY <1>1 DEF NewFrame
<1>3. OpenWhileRead'
  BY Zenon DEF EdgeInv, OpenWhileRead
<1>4. UNCHANGED <<peer, arrived>>
  BY DEF Send
<1>5. CASE n = Len(data)
  <2>1. UNCHANGED <<out, ready>> /\ write_buffer = <<>>
    BY <1>1, <1>2, <1>5 DEF Send
  <2>2. write_buffer' = <<>>
    <3>1. write_buffer' = write_buffer \o SubSeq(data, n + 1, Len(data))
      BY DEF Send
    <3> HIDE DEF data, n
    <3>2. SubSeq(data, n + 1, Len(data)) \in Seq(Nat) /\ Len(SubSeq(data, n + 1, Len(data))) = 0
      <4>1. n + 1 \in 1 .. Len(data) + 1 /\ Len(data) \in 0 .. Len(data) /\ n + 1 <= Len(data) + 1
        BY <1>1, <1>2, <1>5
      <4>2. /\ SubSeq(data, n + 1, Len(data)) \in Seq(Nat)
            /\ Len(SubSeq(data, n + 1, Len(data))) = Len(data) - (n + 1) + 1
        BY <1>2, <4>1, PartOf
      <4>3. Len(data) - (n + 1) + 1 = 0
        BY <1>1, <1>2, <1>5
      <4> QED  BY <4>2, <4>3
    <3>3. SubSeq(data, n + 1, Len(data)) = <<>>
      BY <3>2, EmptySeq
    <3> QED  BY <2>1, <3>1, <3>3, <1>1, ConcatEmptySeq
  <2>3. OutputAsked' /\ OutputSeen'
    BY <2>2, NothingWaits
  <2>4. InputSeen' /\ PeerSeen'
    BY <1>4, <2>1, Zenon DEF EdgeInv, InputSeen, PeerSeen
  <2> QED  BY <1>3, <2>3, <2>4 DEF EdgeInv
<1>6. CASE n # Len(data)
  <2>1. UpdateEvents(TRUE)
    BY <1>6 DEF Send
  <2>2. InputSeen' /\ PeerSeen' /\ OutputAsked' /\ OutputSeen'
    BY <1>4, <2>1, Rearmed
  <2> QED  BY <1>3, <2>2 DEF EdgeInv
<1>. QED  BY <1>5, <1>6

\* OnWrite stops when nothing waits any more or when the kernel is full.
LEMMA WriteKeepsEdges ==
    ASSUME TypeOK, AllKept, EdgeInv, OnWrite, live'
    PROVE  EdgeInv'
<1> DEFINE waiting == SubSeq(write_buffer, write_offset + 1, Len(write_buffer))
           n == Taken(Len(waiting))
<1>1. ~(waiting # <<>> /\ peer = "reset")
  BY DEF OnWrite, OnClose
<1>2. /\ unread' = unread + n
      /\ IF n = Len(waiting)
         THEN /\ write_buffer' = <<>>
              /\ IF waiting = <<>> THEN UNCHANGED <<out, ready>> ELSE UpdateEvents(FALSE)
         ELSE UNCHANGED <<write_buffer, out, ready>>
      /\ UNCHANGED live
  BY <1>1 DEF OnWrite
<1>3. pc = "write" /\ pc' = "wait" /\ live /\ UNCHANGED <<peer, arrived, ev>>
  BY DEF OnWrite
<1>4. OpenWhileRead'
  BY <1>3 DEF OpenWhileRead
<1>5. InputSeen' /\ PeerSeen'
  <2>1. CASE UNCHANGED <<out, ready>>
    BY <1>2, <1>3, <2>1, Zenon DEF EdgeInv, InputSeen, PeerSeen
  <2>2. CASE UpdateEvents(FALSE)
    BY <1>3, <2>2, Rearmed
  <2> QED  BY <1>2, <2>1, <2>2, Zenon
<1>6. OutputAsked' /\ OutputSeen'
  <2>1. CASE n = Len(waiting)
    BY <1>2, <2>1, NothingWaits
  <2>2. CASE n # Len(waiting)
    <3>1. Len(waiting) \in Nat
      <4>1. waiting \in Seq(Nat)
        <5>1. write_offset + 1 \in 1 .. Len(write_buffer) + 1 /\ Len(write_buffer) \in 0 .. Len(write_buffer)
              /\ write_offset + 1 <= Len(write_buffer) + 1 /\ write_buffer \in Seq(Nat)
          BY DEF TypeOK, AllKept
        <5> QED  BY <5>1, PartOf
      <4> QED  BY <4>1
    <3>2. waiting # <<>>
      <4>1. Taken(Len(waiting)) \in 0 .. Len(waiting)
        BY <3>1, TakenFits
      <4>2. Len(waiting) # 0
        <5> HIDE DEF waiting
        <5> QED  BY <2>2, <4>1
      <4> HIDE DEF waiting
      <4> QED  BY <4>2
    <3>3. n = SendSpace - unread
      <4>1. peer # "reset"
        BY <1>1, <3>2
      <4> HIDE DEF waiting
      <4> QED  BY <2>2, <4>1 DEF Taken, Lesser
    <3>4. unread' = SendSpace
      BY <1>2, <3>3, ConnectionConstants DEF TypeOK
    <3>5. ~(unread' < SendSpace)
      BY <3>4, ConnectionConstants
    <3>6. UNCHANGED <<write_buffer, out, ready, live>>
      BY <1>2, <2>2
    <3>7. OutputAsked'
      BY <3>6, Zenon DEF EdgeInv, OutputAsked
    <3> QED  BY <3>5, <3>7, Zenon DEF OutputSeen
  <2> QED  BY <2>1, <2>2
<1>. QED  BY <1>4, <1>5, <1>6 DEF EdgeInv

\* A connection that is deleted waits for nothing.
LEMMA DeletedWaitsNot ==
    ASSUME OnClose, pc' \in {"wait", "write"}
    PROVE  EdgeInv'
<1>1. ~live'
  BY DEF OnClose
<1>2. OpenWhileRead'
  BY DEF OpenWhileRead
<1>. QED  BY <1>1, <1>2, Zenon DEF EdgeInv, InputSeen, PeerSeen, OutputAsked, OutputSeen

\* Each action keeps EdgeInv.
LEMMA EdgesKept ==
    ASSUME TypeOK, AllKept, EdgeInv, [Next]_vars
    PROVE  EdgeInv'
<1> USE DEF EdgeInv
<1>1. CASE PeerSends
  <2>1. /\ ready' /\ arrived' > 0
        /\ UNCHANGED <<peer, unread, out, pc, ev, live, write_buffer>>
    BY <1>1 DEF PeerSends, sendVars, TypeOK
  <2> QED  BY <2>1, Zenon DEF InputSeen, PeerSeen, OutputAsked, OutputSeen, OpenWhileRead
<1>2. CASE PeerReads
  <2>1. /\ ready' = (ready \/ out)
        /\ UNCHANGED <<peer, arrived, out, pc, ev, live, write_buffer>>
    BY <1>2 DEF PeerReads, sendVars
  <2> QED  BY <2>1, Zenon DEF InputSeen, PeerSeen, OutputAsked, OutputSeen, OpenWhileRead
<1>3. CASE PeerGoes
  <2>1. ready' /\ UNCHANGED <<arrived, unread, out, pc, ev, live, write_buffer>>
    BY <1>3 DEF PeerGoes, sendVars
  <2> QED  BY <2>1, Zenon DEF InputSeen, PeerSeen, OutputAsked, OutputSeen, OpenWhileRead
<1>4. CASE EpollWait
  <2>1. /\ pc = "wait" /\ live /\ ev' = Events
        /\ pc' = IF Events = {} THEN "wait" ELSE "dispatch"
        /\ UNCHANGED <<peer, arrived, unread, out, live, write_buffer>>
    BY <1>4 DEF EpollWait, sendVars
  <2>2. /\ arrived > 0 => "IN" \in Events
        /\ peer # "open" => "HUP" \in Events
        /\ out /\ unread < SendSpace => "OUT" \in Events
    BY Zenon DEF Events
  <2>3. pc' # "wait" => pc' = "dispatch"
    BY <2>1
  <2>4. \A e : e \in Events => pc' = "dispatch" /\ e \in ev' /\ pc' # "wait"
    BY <2>1
  <2>5. InputSeen' /\ PeerSeen'
    BY <2>1, <2>2, <2>4, Zenon DEF InputSeen, PeerSeen
  <2>6. OutputAsked' /\ OutputSeen'
    BY <2>1, <2>2, <2>4, Zenon DEF OutputAsked, OutputSeen
  <2>7. OpenWhileRead'
    BY <2>1, Zenon DEF OpenWhileRead
  <2> QED  BY <2>5, <2>6, <2>7
<1>5. CASE Dispatch
  <2>1. CASE "HUP" \in ev
    BY <1>5, <2>1, DeletedWaitsNot DEF Dispatch
  <2>2. CASE "HUP" \notin ev
    <3>1. /\ pc = "dispatch" /\ pc' = IF "IN" \in ev THEN "read" ELSE "write"
          /\ UNCHANGED <<peer, arrived, unread, out, ev, ready, live, write_buffer>>
      BY <1>5, <2>2 DEF Dispatch, sendVars
    <3>2. /\ pc' # "read" => "IN" \notin ev
          /\ pc # "read" /\ pc # "wait" /\ pc # "write" /\ pc' # "wait"
      BY <3>1
    <3>3. InputSeen' /\ PeerSeen'
      BY <2>2, <3>1, <3>2, Zenon DEF InputSeen, PeerSeen
    <3>4. OutputAsked' /\ OutputSeen'
      BY <3>1, <3>2, Zenon DEF OutputAsked, OutputSeen
    <3>5. OpenWhileRead'
      BY <3>1 DEF OpenWhileRead
    <3> QED  BY <3>3, <3>4, <3>5
  <2> QED  BY <2>1, <2>2
<1>6. CASE OnRead
  <2>1. CASE peer = "open"
    <3>1. /\ pc = "read" /\ pc' = "frames" /\ arrived' = 0
          /\ UNCHANGED <<peer, unread, out, ev, ready, live, write_buffer>>
      BY <1>6, <2>1 DEF OnRead, sendVars
    <3>2. ~(arrived' > 0) /\ pc' # "wait" /\ pc # "write"
      BY <3>1
    <3>3. InputSeen' /\ PeerSeen'
      BY <2>1, <3>1, <3>2, Zenon DEF InputSeen, PeerSeen
    <3>4. OutputAsked' /\ OutputSeen'
      BY <3>1, <3>2, Zenon DEF OutputAsked, OutputSeen
    <3>5. OpenWhileRead'
      BY <3>1, Zenon DEF OpenWhileRead
    <3> QED  BY <3>3, <3>4, <3>5
  <2>2. CASE peer # "open"
    <3>1. OnClose /\ pc' \in {"wait", "write"}
      BY <1>6, <2>2 DEF OnRead
    <3> QED  BY <3>1, DeletedWaitsNot
  <2> QED  BY <2>1, <2>2
<1>7. CASE HandleFrame
  <2>1. CASE Send(NewFrame)
    BY <1>7, <2>1, SendKeepsEdges DEF HandleFrame
  <2>2. CASE UNCHANGED <<socketVars, sendVars>>
    <3>1. UNCHANGED <<peer, arrived, unread, out, pc, ev, ready, live, write_buffer>>
      BY <1>7, <2>2 DEF HandleFrame, socketVars, sendVars
    <3> QED  BY <3>1, Zenon DEF InputSeen, PeerSeen, OutputAsked, OutputSeen, OpenWhileRead
  <2> QED  BY <1>7, <2>1, <2>2 DEF HandleFrame
<1>8. CASE FramesDone
  <2>1. /\ pc = "frames" /\ pc' = IF "OUT" \in ev THEN "write" ELSE "wait"
        /\ UNCHANGED <<peer, arrived, unread, out, ev, ready, live, write_buffer>>
    BY <1>8 DEF FramesDone, socketVars, sendVars
  <2>2. /\ pc' # "write" => "OUT" \notin ev
        /\ pc # "read" /\ pc # "write" /\ pc # "dispatch"
    BY <2>1
  <2>3. InputSeen' /\ PeerSeen'
    BY <2>1, <2>2, Zenon DEF InputSeen, PeerSeen
  <2>4. OutputAsked' /\ OutputSeen'
    BY <2>1, <2>2, Zenon DEF OutputAsked, OutputSeen
  <2>5. OpenWhileRead'
    BY <2>1 DEF OpenWhileRead
  <2> QED  BY <2>3, <2>4, <2>5
<1>9. CASE OnWrite
  <2>1. CASE live'
    BY <1>9, <2>1, WriteKeepsEdges
  <2>2. CASE ~live'
    <3>1. OnClose /\ pc' \in {"wait", "write"}
      BY <1>9, <2>2 DEF OnWrite
    <3> QED  BY <3>1, DeletedWaitsNot
  <2> QED  BY <2>1, <2>2
<1>10. CASE Push
  BY <1>10, SendKeepsEdges DEF Push
<1>11. CASE UNCHANGED vars
  BY <1>11, Zenon DEF vars, InputSeen, PeerSeen, OutputAsked, OutputSeen, OpenWhileRead
<1>. QED
  BY <1>1, <1>2, <1>3, <1>4, <1>5, <1>6, <1>7, <1>8, <1>9, <1>10, <1>11, Zenon DEF Next

\* Between two epoll_waits nothing waits for an edge that is past (NoEdgeLost),
\* wherever the peer moves between epoll_wait, OnRead, the frames and OnWrite.
THEOREM EdgesAreKept == Spec => []NoEdgeLost
<1>1. Init => EdgeInv
  <2> SUFFICES ASSUME Init
               PROVE  EdgeInv
    OBVIOUS
  <2>1. peer = "open" /\ ~(arrived > 0) /\ write_buffer = <<>> /\ live
    BY DEF Init
  <2> QED  BY <2>1, Zenon DEF EdgeInv, InputSeen, PeerSeen, OutputAsked, OutputSeen, OpenWhileRead
<1>2. TypeOK /\ AllKept /\ EdgeInv /\ [Next]_vars => EdgeInv'
  BY EdgesKept
<1>3. EdgeInv => NoEdgeLost
  BY EdgesEnough
<1>. QED  BY <1>1, <1>2, <1>3, NothingLost, PTL DEF Spec

=============================================================================
