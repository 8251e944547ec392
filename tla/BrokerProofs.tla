---------------------------- MODULE BrokerProofs ----------------------------
(***************************************************************************)
(* Proofs about Broker, for every set of ports and of keys and any number  *)
(* of moves, replugs and daemons.  The inductive invariant is BrokerInv;   *)
(* one lemma per action shows that it is kept, and the lemmas before an    *)
(* action say what its records and lists are.                              *)
(***************************************************************************)
EXTENDS Broker, TLAPS

\* The first task of a step's list.
LEMMA TodoHead ==
  ASSUME todo \in Seq(TaskSet), todo # <<>>
  PROVE  /\ Head(todo) = todo[1] /\ 1 \in 1..Len(todo) /\ Head(todo) \in TaskSet /\ Port \in Ports
<1>1. Head(todo) = todo[1] /\ 1 \in 1..Len(todo) /\ Head(todo) \in TaskSet
  BY SMTT(30)
<1> QED
  BY ZenonT(30), <1>1 DEF Port, TaskSet

\* The parts of the invariant that are not about keyboards.
SocketInv ==
  /\ NeverStale /\ NothingLeftGrabbed /\ OneOwnerEach /\ TodoShape /\ WireAgrees
  /\ DevicesKnown /\ DevicesTracked

\* They depend on neither the keyboards nor the session.
LEMMA SocketKeeps ==
  ASSUME SocketInv, UNCHANGED <<pc, todo, proxies, generation, req, rep, client>>
  PROVE  SocketInv'
<1>1. /\ pc' = pc /\ todo' = todo /\ proxies' = proxies /\ generation' = generation
      /\ req' = req /\ rep' = rep /\ client' = client
  BY ZenonT(30)
<1>2. NeverStale'
  BY ZenonT(30), <1>1 DEF SocketInv, NeverStale, Stale
<1>3. NothingLeftGrabbed' /\ OneOwnerEach'
  BY ZenonT(30), <1>1 DEF SocketInv, NothingLeftGrabbed, OneOwnerEach, Proxied
<1>4. TodoShape'
  BY SMTT(30), <1>1 DEF SocketInv, TodoShape, Proxied
<1>5. WireAgrees'
  BY ZenonT(30), <1>1 DEF SocketInv, WireAgrees, Proxied, Port
<1>6. DevicesKnown'
  BY ZenonT(30), <1>1 DEF SocketInv, DevicesKnown, DeviceKnown, Pending, Proxied, Port
<1>7. DevicesTracked'
  BY SMTT(30), <1>1 DEF SocketInv, DevicesTracked, DeviceTracked, Pending, Proxied, Port, Snapshots, Soon, Answering, Applied
<1> QED
  BY ZenonT(30), <1>2, <1>3, <1>4, <1>5, <1>6, <1>7 DEF SocketInv

\* BrokerInv by its parts.
LEMMA InvParts ==
  BrokerInv <=> BrokerTypeOK /\ SocketInv /\ ProxiesApart /\ QueuesFresh
BY ZenonT(30) DEF BrokerInv, SocketInv

\* With them, the next state's.
LEMMA InvPartsNext ==
  ASSUME BrokerTypeOK', SocketInv', ProxiesApart', QueuesFresh'
  PROVE  BrokerInv'
BY ZenonT(30) DEF BrokerInv, SocketInv

-----------------------------------------------------------------------------
(* Keyboards move, come and go.                                            *)

\* A queued event after the first, and its place once the first is read.
LEMMA QueueTail ==
  ASSUME NEW q \in Seq(Codes \X {0, 1}), q # <<>>
  PROVE  /\ Tail(q) \in Seq(Codes \X {0, 1}) /\ Head(q) = q[1] /\ 1 \in 1..Len(q)
         /\ \A j \in 1..Len(Tail(q)) : j + 1 \in 1..Len(q) /\ Tail(q)[j] = q[j + 1] /\ 1 < j + 1
         /\ \A i \in 1..Len(q) : i # 1 => i - 1 \in 1..Len(Tail(q)) /\ Tail(q)[i - 1] = q[i] /\ 1 < i
<1>1. Tail(q) \in Seq(Codes \X {0, 1}) /\ Head(q) = q[1] /\ 1 \in 1..Len(q) /\ Len(q) = Len(Tail(q)) + 1
  BY SMTT(30)
<1>2. \A j \in 1..Len(Tail(q)) : j + 1 \in 1..Len(q) /\ Tail(q)[j] = q[j + 1] /\ 1 < j + 1
  BY SMTT(30)
<1>3. \A i \in 1..Len(q) : i # 1 => i - 1 \in 1..Len(Tail(q)) /\ i = (i - 1) + 1 /\ 1 < i
  BY SMTT(30), <1>1
<1>4. \A i \in 1..Len(q) : i # 1 => Tail(q)[i - 1] = q[i]
  BY ZenonT(30), <1>2, <1>3
<1> QED
  BY ZenonT(30), <1>1, <1>2, <1>3, <1>4

\* The keys known once an event is applied.
Applies(known, event) == IF event[2] = 0 THEN known \ {event[1]} ELSE known \cup {event[1]}

\* Reading an event leaves the other presses fresh.
LEMMA FreshTail ==
  ASSUME NEW q \in Seq(Codes \X {0, 1}), q # <<>>, NEW known, NEW held, PressesFresh(q, known, held)
  PROVE  /\ q[1][2] = 1 => q[1][1] \notin known
         /\ PressesFresh(Tail(q), Applies(known, q[1]), held)
<1> DEFINE t == Tail(q)
           known2 == Applies(known, q[1])
<1>1. /\ t \in Seq(Codes \X {0, 1}) /\ 1 \in 1..Len(q)
      /\ \A j \in 1..Len(t) : j + 1 \in 1..Len(q) /\ t[j] = q[j + 1] /\ 1 < j + 1
      /\ \A i \in 1..Len(q) : i # 1 => i - 1 \in 1..Len(t) /\ t[i - 1] = q[i] /\ 1 < i
  BY ZenonT(30), QueueTail
<1>2. q[1] \in Codes \X {0, 1} /\ q[1] = <<q[1][1], q[1][2]>> /\ q[1][1] \in Codes /\ q[1][2] \in {0, 1}
  BY SMTT(30), <1>1
<1>3. /\ \A k : q[1][1] # k => (k \in known2 <=> k \in known)
      /\ q[1][2] = 0 => q[1][1] \notin known2
  BY ZenonT(30) DEF Applies
<1> HIDE DEF t, known2
<1>4. q[1][2] = 1 => q[1][1] \notin known
  <2> SUFFICES ASSUME q[1][2] = 1, q[1][1] \in known PROVE FALSE
    OBVIOUS
  <2>1. PICK i \in 1..Len(q) : i < 1
    BY SMTT(30), <1>1, <1>2 DEF PressesFresh
  <2> QED
    BY SMTT(30), <2>1
<1>5. ASSUME NEW k \in Codes, NEW j \in 1..Len(t), t[j] = <<k, 1>>
      PROVE  \/ k \notin known2 /\ \A i \in 1..Len(t) : i < j => t[i][1] # k
             \/ \E i \in 1..Len(t) : /\ i < j /\ t[i] = <<k, 0>>
                                     /\ \A m \in 1..Len(t) : i < m /\ m < j => t[m][1] # k
  <2>1. j + 1 \in 1..Len(q) /\ q[j + 1] = <<k, 1>>
    BY ZenonT(30), <1>1, <1>5
  <2>2. CASE k \notin known /\ \A i \in 1..Len(q) : i < j + 1 => q[i][1] # k
    <3>1. q[1][1] # k
      BY ZenonT(30), <1>1, <2>2
    <3>2. \A i \in 1..Len(t) : i < j => i + 1 < j + 1
      BY SMTT(30)
    <3>3. ASSUME NEW i \in 1..Len(t), i < j PROVE t[i][1] # k
      <4>1. i + 1 \in 1..Len(q) /\ t[i] = q[i + 1] /\ i + 1 < j + 1
        BY ZenonT(30), <1>1, <3>2, <3>3
      <4> QED
        BY ZenonT(30), <2>2, <4>1
    <3> QED
      BY ZenonT(30), <1>3, <2>2, <3>1, <3>3
  <2>3. ASSUME NEW i \in 1..Len(q), i < j + 1, q[i] = <<k, 0>>,
               \A m \in 1..Len(q) : i < m /\ m < j + 1 => q[m][1] # k
        PROVE  \/ k \notin known2 /\ \A n \in 1..Len(t) : n < j => t[n][1] # k
               \/ \E n \in 1..Len(t) : /\ n < j /\ t[n] = <<k, 0>>
                                       /\ \A m \in 1..Len(t) : n < m /\ m < j => t[m][1] # k
    <3>1. CASE i = 1
      <4>1. q[1][1] = k /\ q[1][2] = 0
        BY SMTT(30), <2>3, <3>1
      <4>2. \A m \in 1..Len(t) : m < j => m + 1 < j + 1
        BY SMTT(30)
      <4>3. ASSUME NEW m \in 1..Len(t), m < j PROVE t[m][1] # k
        <5>1. m + 1 \in 1..Len(q) /\ t[m] = q[m + 1] /\ i < m + 1 /\ m + 1 < j + 1
          BY ZenonT(30), <1>1, <3>1, <4>2, <4>3
        <5> QED
          BY ZenonT(30), <2>3, <5>1
      <4> QED
        BY ZenonT(30), <1>3, <4>1, <4>3
    <3>2. CASE i # 1
      <4>1. i - 1 \in 1..Len(t) /\ t[i - 1] = <<k, 0>>
        BY ZenonT(30), <1>1, <2>3, <3>2
      <4>2. i - 1 < j /\ \A m \in 1..Len(t) : i - 1 < m /\ m < j => i < m + 1 /\ m + 1 < j + 1
        BY SMTT(30), <2>3
      <4>3. \A m \in 1..Len(t) : i - 1 < m /\ m < j => t[m][1] # k
        <5> SUFFICES ASSUME NEW m \in 1..Len(t), i - 1 < m, m < j PROVE t[m][1] # k
          BY ZenonT(30)
        <5>1. m + 1 \in 1..Len(q) /\ t[m] = q[m + 1] /\ i < m + 1 /\ m + 1 < j + 1
          BY ZenonT(30), <1>1, <4>2
        <5> QED
          BY ZenonT(30), <2>3, <5>1
      <4> QED
        BY ZenonT(30), <4>1, <4>2, <4>3
    <3> QED
      BY ZenonT(30), <3>1, <3>2
  <2>4. \/ k \notin known /\ \A i \in 1..Len(q) : i < j + 1 => q[i][1] # k
        \/ \E i \in 1..Len(q) : /\ i < j + 1 /\ q[i] = <<k, 0>>
                                /\ \A m \in 1..Len(q) : i < m /\ m < j + 1 => q[m][1] # k
    BY ZenonT(30), <2>1 DEF PressesFresh
  <2> QED
    BY ZenonT(30), <2>2, <2>3, <2>4
<1>6. ASSUME NEW k \in Codes, k \notin held
      PROVE  \/ k \notin known2 /\ \A i \in 1..Len(t) : t[i][1] # k
             \/ \E i \in 1..Len(t) : t[i] = <<k, 0>> /\ \A m \in 1..Len(t) : i < m => t[m][1] # k
  <2>1. CASE k \notin known /\ \A i \in 1..Len(q) : q[i][1] # k
    <3>1. q[1][1] # k
      BY ZenonT(30), <1>1, <2>1
    <3>2. \A i \in 1..Len(t) : t[i][1] # k
      BY SMTT(30), <1>1, <2>1
    <3> QED
      BY ZenonT(30), <1>3, <2>1, <3>1, <3>2
  <2>2. ASSUME NEW i \in 1..Len(q), q[i] = <<k, 0>>, \A m \in 1..Len(q) : i < m => q[m][1] # k
        PROVE  \/ k \notin known2 /\ \A n \in 1..Len(t) : t[n][1] # k
               \/ \E n \in 1..Len(t) : t[n] = <<k, 0>> /\ \A m \in 1..Len(t) : n < m => t[m][1] # k
    <3>1. CASE i = 1
      <4>1. q[1][1] = k /\ q[1][2] = 0
        BY SMTT(30), <2>2, <3>1
      <4>2. \A m \in 1..Len(t) : t[m][1] # k
        BY SMTT(30), <1>1, <2>2, <3>1
      <4> QED
        BY ZenonT(30), <1>3, <4>1, <4>2
    <3>2. CASE i # 1
      <4>1. i - 1 \in 1..Len(t) /\ t[i - 1] = <<k, 0>>
        BY ZenonT(30), <1>1, <2>2, <3>2
      <4>2. \A m \in 1..Len(t) : i - 1 < m => i < m + 1
        BY SMTT(30), <2>2
      <4>3. \A m \in 1..Len(t) : i - 1 < m => t[m][1] # k
        BY SMTT(30), <1>1, <2>2, <4>2
      <4> QED
        BY ZenonT(30), <4>1, <4>3
    <3> QED
      BY ZenonT(30), <3>1, <3>2
  <2>3. \/ k \notin known /\ \A i \in 1..Len(q) : q[i][1] # k
        \/ \E i \in 1..Len(q) : q[i] = <<k, 0>> /\ \A m \in 1..Len(q) : i < m => q[m][1] # k
    BY ZenonT(30), <1>6 DEF PressesFresh
  <2> QED
    BY ZenonT(30), <2>1, <2>2, <2>3
<1>7. PressesFresh(t, known2, held)
  BY ZenonT(30), <1>5, <1>6 DEF PressesFresh
<1> QED
  BY ZenonT(30), <1>4, <1>7 DEF t, known2

\* Nothing is queued after an open: every key up is unknown.
LEMMA FreshEmpty ==
  ASSUME NEW known, NEW held, known \subseteq held
  PROVE  PressesFresh(<<>>, known, held)
<1>1. \A j \in 1..Len(<<>>) : FALSE
  BY SMTT(30)
<1> QED
  BY ZenonT(30), <1>1 DEF PressesFresh

\* The places of a queue with one more event.
LEMMA QueueAppend ==
  ASSUME NEW q \in Seq(Codes \X {0, 1}), NEW event \in Codes \X {0, 1}
  PROVE  /\ Append(q, event) \in Seq(Codes \X {0, 1})
         /\ Len(q) + 1 \in 1..Len(Append(q, event)) /\ Append(q, event)[Len(q) + 1] = event
         /\ \A i \in 1..Len(q) : /\ i \in 1..Len(Append(q, event)) /\ Append(q, event)[i] = q[i]
                                 /\ i < Len(q) + 1 /\ ~(Len(q) + 1 < i)
         /\ \A i \in 1..Len(Append(q, event)) : i \in 1..Len(q) \/ i = Len(q) + 1
         /\ ~(Len(q) + 1 < Len(q) + 1)
BY SMTT(30)

\* A key moves: a press is queued where it was up, a release where it was down.
LEMMA FreshAppend ==
  ASSUME NEW q \in Seq(Codes \X {0, 1}), NEW known, NEW held, NEW c \in Codes, NEW value \in {0, 1},
         PressesFresh(q, known, held), value = 1 => c \notin held, NEW held2,
         held2 = IF value = 1 THEN held \cup {c} ELSE held \ {c}
  PROVE  PressesFresh(Append(q, <<c, value>>), known, held2)
<1> DEFINE t == Append(q, <<c, value>>)
           n == Len(q) + 1
<1>1. /\ n \in 1..Len(t) /\ t[n] = <<c, value>>
      /\ \A i \in 1..Len(q) : i \in 1..Len(t) /\ t[i] = q[i] /\ i < n /\ ~(n < i)
      /\ \A i \in 1..Len(t) : i \in 1..Len(q) \/ i = n
      /\ ~(n < n)
  <2>1. <<c, value>> \in Codes \X {0, 1}
    BY ZenonT(30)
  <2> QED
    BY SMTT(30), <2>1
<1>2. t[n][1] = c /\ t[n][2] = value
  BY SMTT(30), <1>1
<1> HIDE DEF t, n
<1>3. ASSUME NEW k \in Codes, NEW j \in 1..Len(t), t[j] = <<k, 1>>
      PROVE  \/ k \notin known /\ \A i \in 1..Len(t) : i < j => t[i][1] # k
             \/ \E i \in 1..Len(t) : /\ i < j /\ t[i] = <<k, 0>>
                                     /\ \A m \in 1..Len(t) : i < m /\ m < j => t[m][1] # k
  <2>1. CASE j \in 1..Len(q)
    <3>1. q[j] = <<k, 1>>
      BY ZenonT(30), <1>1, <1>3, <2>1
    <3>2. \/ k \notin known /\ \A i \in 1..Len(q) : i < j => q[i][1] # k
          \/ \E i \in 1..Len(q) : /\ i < j /\ q[i] = <<k, 0>>
                                  /\ \A m \in 1..Len(q) : i < m /\ m < j => q[m][1] # k
      BY ZenonT(30), <2>1, <3>1 DEF PressesFresh
    <3>3. \A m \in 1..Len(t) : m < j => m \in 1..Len(q) /\ t[m] = q[m]
      BY ZenonT(30), <1>1, <2>1
    <3>4. CASE k \notin known /\ \A i \in 1..Len(q) : i < j => q[i][1] # k
      BY ZenonT(30), <3>3, <3>4
    <3>5. ASSUME NEW i \in 1..Len(q), i < j, q[i] = <<k, 0>>,
                 \A m \in 1..Len(q) : i < m /\ m < j => q[m][1] # k
          PROVE  \E h \in 1..Len(t) : /\ h < j /\ t[h] = <<k, 0>>
                                      /\ \A m \in 1..Len(t) : h < m /\ m < j => t[m][1] # k
      <4>1. i \in 1..Len(t) /\ t[i] = <<k, 0>>
        BY ZenonT(30), <1>1, <3>5
      <4>2. \A m \in 1..Len(t) : i < m /\ m < j => t[m][1] # k
        BY ZenonT(30), <3>3, <3>5
      <4> QED
        BY ZenonT(30), <3>5, <4>1, <4>2
    <3> QED
      BY ZenonT(30), <3>2, <3>4, <3>5
  <2>2. CASE j = n
    <3>1. k = c /\ value = 1 /\ k \notin held
      BY SMTT(30), <1>1, <1>3, <2>2
    <3>2. \/ k \notin known /\ \A i \in 1..Len(q) : q[i][1] # k
          \/ \E i \in 1..Len(q) : /\ q[i] = <<k, 0>> /\ \A m \in 1..Len(q) : i < m => q[m][1] # k
      BY ZenonT(30), <3>1 DEF PressesFresh
    <3>3. \A m \in 1..Len(t) : m < j => m \in 1..Len(q) /\ t[m] = q[m]
      BY ZenonT(30), <1>1, <2>2
    <3>4. CASE k \notin known /\ \A i \in 1..Len(q) : q[i][1] # k
      BY ZenonT(30), <3>3, <3>4
    <3>5. ASSUME NEW i \in 1..Len(q), q[i] = <<k, 0>>, \A m \in 1..Len(q) : i < m => q[m][1] # k
          PROVE  \E h \in 1..Len(t) : /\ h < j /\ t[h] = <<k, 0>>
                                      /\ \A m \in 1..Len(t) : h < m /\ m < j => t[m][1] # k
      <4>1. i \in 1..Len(t) /\ t[i] = <<k, 0>> /\ i < j
        BY ZenonT(30), <1>1, <2>2, <3>5
      <4>2. \A m \in 1..Len(t) : i < m /\ m < j => t[m][1] # k
        BY ZenonT(30), <3>3, <3>5
      <4> QED
        BY ZenonT(30), <4>1, <4>2
    <3> QED
      BY ZenonT(30), <3>2, <3>4, <3>5
  <2> QED
    BY ZenonT(30), <1>1, <2>1, <2>2
<1>4. ASSUME NEW k \in Codes, k \notin held2
      PROVE  \/ k \notin known /\ \A i \in 1..Len(t) : t[i][1] # k
             \/ \E i \in 1..Len(t) : t[i] = <<k, 0>> /\ \A m \in 1..Len(t) : i < m => t[m][1] # k
  <2>1. CASE k = c
    <3>1. value = 0
      BY ZenonT(30), <1>4, <2>1
    <3>2. \A m \in 1..Len(t) : ~(n < m)
      BY ZenonT(30), <1>1
    <3> QED
      BY ZenonT(30), <1>1, <2>1, <3>1, <3>2
  <2>2. CASE k # c
    <3>1. k \notin held
      BY ZenonT(30), <1>4, <2>2
    <3>2. \/ k \notin known /\ \A i \in 1..Len(q) : q[i][1] # k
          \/ \E i \in 1..Len(q) : /\ q[i] = <<k, 0>> /\ \A m \in 1..Len(q) : i < m => q[m][1] # k
      BY ZenonT(30), <3>1 DEF PressesFresh
    <3>3. CASE k \notin known /\ \A i \in 1..Len(q) : q[i][1] # k
      <4>1. \A i \in 1..Len(t) : t[i][1] # k
        BY ZenonT(30), <1>1, <1>2, <2>2, <3>3
      <4> QED
        BY ZenonT(30), <3>3, <4>1
    <3>4. ASSUME NEW i \in 1..Len(q), q[i] = <<k, 0>>, \A m \in 1..Len(q) : i < m => q[m][1] # k
          PROVE  \E h \in 1..Len(t) : t[h] = <<k, 0>> /\ \A m \in 1..Len(t) : h < m => t[m][1] # k
      <4>1. i \in 1..Len(t) /\ t[i] = <<k, 0>>
        BY ZenonT(30), <1>1, <3>4
      <4>2. \A m \in 1..Len(t) : i < m => t[m][1] # k
        BY ZenonT(30), <1>1, <1>2, <2>2, <3>4
      <4> QED
        BY ZenonT(30), <4>1, <4>2
    <3> QED
      BY ZenonT(30), <3>2, <3>3, <3>4
  <2> QED
    BY ZenonT(30), <2>1, <2>2
<1>5. PressesFresh(t, known, held2)
  BY ZenonT(30), <1>3, <1>4 DEF PressesFresh
<1> QED
  BY ZenonT(30), <1>5 DEF t

\* One keyboard changes, and nothing of the broker or the daemon.
LEMMA KeyboardStep ==
  ASSUME BrokerInv, UNCHANGED <<pc, todo, proxies, generation, req, rep, client>>,
         NEW d \in Ports, NEW keyboard \in Keyboards, kb' = [kb EXCEPT ![d] = keyboard],
         allowed' \in BOOLEAN, moves' \in 0..MaxMoves, starts' \in 0..MaxClients,
         plugs' \in 0..MaxReplugs, plugs <= plugs', keyboard.id <= plugs',
         Proxied(d) /\ proxies[d].id = keyboard.id /\ ~keyboard.overflow =>
            PressesFresh(keyboard.queue, KnownSoon(d), keyboard.held)
  PROVE  BrokerInv'
<1>1. BrokerTypeOK /\ SocketInv /\ ProxiesApart /\ QueuesFresh
  BY ZenonT(30), InvParts
<1>2. /\ pc' = pc /\ todo' = todo /\ proxies' = proxies /\ generation' = generation
      /\ req' = req /\ rep' = rep /\ client' = client
  BY ZenonT(30)
<1>3. SocketInv'
  BY ZenonT(30), <1>1, SocketKeeps
<1>4. kb \in [Ports -> Keyboards] /\ plugs \in Nat /\ proxies \in [Ports -> ProxyStates]
  BY SMTT(30), <1>1 DEF BrokerTypeOK
<1>5. kb' \in [Ports -> Keyboards] /\ kb'[d] = keyboard /\ \A e \in Ports : e # d => kb'[e] = kb[e]
  BY ZenonT(30), <1>4
<1>6. BrokerTypeOK'
  BY ZenonT(30), <1>1, <1>2, <1>5 DEF BrokerTypeOK
<1>7. ProxiesApart'
  <2>1. ASSUME NEW e \in Ports PROVE kb'[e].id <= plugs'
    <3>1. kb[e].id <= plugs /\ kb[e].id \in Nat
      BY ZenonT(30), <1>1, <1>4 DEF ProxiesApart, Keyboards
    <3>2. kb[e].id <= plugs'
      BY SMTT(30), <1>4, <3>1
    <3> QED
      BY ZenonT(30), <1>5, <3>2
  <2>2. ASSUME NEW e \in Ports, Proxied(e)
        PROVE  proxies[e].gen <= generation /\ proxies[e].epoch >= 1 /\ proxies[e].id \in 1..plugs'
    <3>1. proxies[e].gen <= generation /\ proxies[e].epoch >= 1 /\ proxies[e].id \in 1..plugs
      BY ZenonT(30), <1>1, <2>2 DEF ProxiesApart
    <3>2. proxies[e].id \in 1..plugs'
      BY SMTT(30), <1>4, <3>1
    <3> QED
      BY ZenonT(30), <3>1, <3>2
  <2>3. \A e, f \in Ports : Proxied(e) /\ proxies[e].gen = proxies[f].gen => e = f
    BY ZenonT(30), <1>1 DEF ProxiesApart
  <2> QED
    BY ZenonT(30), <1>2, <2>1, <2>2, <2>3 DEF ProxiesApart, Proxied
<1>8. QueuesFresh'
  <2> SUFFICES ASSUME NEW e \in Ports, Proxied(e)' PROVE QueueFresh(e)'
    BY ZenonT(30) DEF QueuesFresh
  <2>1. Proxied(e) /\ QueueFresh(e)
    BY ZenonT(30), <1>1, <1>2 DEF QueuesFresh, Proxied
  <2>2. KnownSoon(e)' = KnownSoon(e) /\ (Sent(e)' <=> Sent(e))
    BY ZenonT(30), <1>2 DEF KnownSoon, Sent
  <2>3. CASE e = d
    <3>1. Opened(e)' /\ ~kb'[e].overflow => PressesFresh(kb'[e].queue, KnownSoon(e)', kb'[e].held)
      BY ZenonT(30), <1>2, <1>5, <2>2, <2>3 DEF Opened, Proxied
    <3> QED
      BY ZenonT(30), <1>2, <2>1, <2>2, <3>1 DEF QueueFresh
  <2>4. CASE e # d
    <3>1. kb'[e] = kb[e] /\ (Opened(e)' <=> Opened(e))
      BY ZenonT(30), <1>2, <1>5, <2>4 DEF Opened, Proxied
    <3> QED
      BY ZenonT(30), <1>2, <2>1, <2>2, <3>1 DEF QueueFresh
  <2> QED
    BY ZenonT(30), <2>3, <2>4
<1> QED
  BY ZenonT(30), <1>3, <1>6, <1>7, <1>8, InvPartsNext

\* A keyboard plugged in is one no proxy has.
LEMMA PlugInv ==
  ASSUME BrokerInv, NEW d \in Ports, Plug(d)
  PROVE  BrokerInv'
<1>1. BrokerTypeOK /\ ProxiesApart
  BY ZenonT(30), InvParts
<1>2. PICK held \in {{}} \cup {{k} : k \in Codes} :
         kb' = [kb EXCEPT ![d] = [id |-> plugs', held |-> held, overflow |-> FALSE, queue |-> <<>>]]
  BY ZenonT(30) DEF Plug
<1> DEFINE keyboard == [id |-> plugs', held |-> held, overflow |-> FALSE, queue |-> <<>>]
<1>3. plugs \in 0..MaxReplugs /\ plugs < MaxReplugs /\ plugs' = plugs + 1
  BY ZenonT(30), <1>1 DEF BrokerTypeOK, Plug
<1>4. plugs' \in 0..MaxReplugs /\ plugs <= plugs' /\ plugs' <= plugs' /\ plugs' \in Nat /\ plugs' \notin 1..plugs
  BY SMTT(30), <1>3, BrokerAssumption
<1>5. <<>> \in Seq(Codes \X {0, 1})
  BY SMTT(30)
<1>6. held \in SUBSET Codes
  BY ZenonT(30)
<1>7. keyboard \in Keyboards /\ keyboard.id = plugs'
  BY ZenonT(30), <1>4, <1>5, <1>6 DEF Keyboards
<1>8. Proxied(d) => proxies[d].id # keyboard.id
  BY ZenonT(30), <1>1, <1>4, <1>7 DEF ProxiesApart
<1>9. kb' = [kb EXCEPT ![d] = keyboard]
  BY ZenonT(30), <1>2
<1>10. /\ UNCHANGED <<pc, todo, proxies, generation, req, rep, client>>
       /\ allowed' \in BOOLEAN /\ moves' \in 0..MaxMoves /\ starts' \in 0..MaxClients
  BY ZenonT(30), <1>1 DEF BrokerTypeOK, Plug
<1> HIDE DEF keyboard
<1> QED
  BY ZenonT(30), <1>4, <1>7, <1>8, <1>9, <1>10, KeyboardStep

\* An empty port is no proxy's keyboard.
LEMMA UnplugInv ==
  ASSUME BrokerInv, NEW d \in Ports, Unplug(d)
  PROVE  BrokerInv'
<1>1. BrokerTypeOK /\ ProxiesApart
  BY ZenonT(30), InvParts
<1> DEFINE keyboard == [id |-> 0, held |-> {}, overflow |-> FALSE, queue |-> <<>>]
<1>2. kb' = [kb EXCEPT ![d] = keyboard]
  BY ZenonT(30) DEF Unplug
<1>3. plugs \in 0..MaxReplugs /\ plugs' = plugs
  BY ZenonT(30), <1>1 DEF BrokerTypeOK, Unplug
<1>4. plugs' \in 0..MaxReplugs /\ plugs <= plugs' /\ 0 <= plugs' /\ 0 \in Nat /\ 0 \notin 1..plugs
      /\ <<>> \in Seq(Codes \X {0, 1})
  BY SMTT(30), <1>3, BrokerAssumption
<1>5. keyboard \in Keyboards /\ keyboard.id = 0
  BY ZenonT(30), <1>4 DEF Keyboards
<1>6. Proxied(d) => proxies[d].id # keyboard.id
  BY ZenonT(30), <1>1, <1>4, <1>5 DEF ProxiesApart
<1>7. /\ UNCHANGED <<pc, todo, proxies, generation, req, rep, client>>
      /\ allowed' \in BOOLEAN /\ moves' \in 0..MaxMoves /\ starts' \in 0..MaxClients
  BY ZenonT(30), <1>1 DEF BrokerTypeOK, Unplug
<1>8. keyboard.id <= plugs'
  BY ZenonT(30), <1>4, <1>5
<1> HIDE DEF keyboard
<1> QED
  BY ZenonT(30), <1>2, <1>4, <1>5, <1>6, <1>7, <1>8, KeyboardStep

\* A key that moves queues a press only if it was up.
LEMMA MoveInv ==
  ASSUME BrokerInv, NEW d \in Ports, NEW k \in Codes, Move(d, k)
  PROVE  BrokerInv'
<1>1. BrokerTypeOK /\ ProxiesApart /\ QueuesFresh
  BY ZenonT(30), InvParts
<1>2. kb \in [Ports -> Keyboards] /\ kb[d] \in Keyboards
  BY ZenonT(30), <1>1 DEF BrokerTypeOK
<1> DEFINE down == k \notin kb[d].held
           value == IF down THEN 1 ELSE 0
           held == IF down THEN kb[d].held \cup {k} ELSE kb[d].held \ {k}
<1> DEFINE overflow(over) == Opened(d) /\ (kb[d].overflow \/ over)
           queue(over) == IF Opened(d) /\ ~over THEN Append(kb[d].queue, <<k, value>>) ELSE <<>>
<1>3. PICK over \in BOOLEAN :
         kb' = [kb EXCEPT ![d] = [id |-> kb[d].id, held |-> held, overflow |-> overflow(over), queue |-> queue(over)]]
  BY ZenonT(30) DEF Move
<1> DEFINE keyboard == [id |-> kb[d].id, held |-> held, overflow |-> overflow(over), queue |-> queue(over)]
<1>4. kb[d].id \in Nat /\ kb[d].held \in SUBSET Codes /\ kb[d].overflow \in BOOLEAN
      /\ kb[d].queue \in Seq(Codes \X {0, 1}) /\ <<>> \in Seq(Codes \X {0, 1})
  <2>1. <<>> \in Seq(Codes \X {0, 1})
    BY SMTT(30)
  <2> QED
    BY ZenonT(30), <1>2, <2>1 DEF Keyboards
<1>5. kb' = [kb EXCEPT ![d] = keyboard]
  BY ZenonT(30), <1>3
<1>6. value \in {0, 1} /\ (value = 1 => k \notin kb[d].held)
      /\ held = IF value = 1 THEN kb[d].held \cup {k} ELSE kb[d].held \ {k}
  BY SMTT(30)
<1>7. held \in SUBSET Codes /\ overflow(over) \in BOOLEAN
  BY ZenonT(30), <1>4 DEF Opened, Proxied
<1>8. <<k, value>> \in Codes \X {0, 1}
  BY ZenonT(30), <1>6
<1>9. Append(kb[d].queue, <<k, value>>) \in Seq(Codes \X {0, 1})
  BY ZenonT(30), <1>4, <1>8, QueueAppend
<1>10. queue(over) \in Seq(Codes \X {0, 1})
  BY ZenonT(30), <1>4, <1>9
<1>11. ASSUME Proxied(d), proxies[d].id = kb[d].id, ~overflow(over) PROVE PressesFresh(queue(over), KnownSoon(d), held)
  <2>1. Opened(d) /\ ~kb[d].overflow /\ ~over /\ queue(over) = Append(kb[d].queue, <<k, value>>)
    BY ZenonT(30), <1>11 DEF Opened
  <2>2. PressesFresh(kb[d].queue, KnownSoon(d), kb[d].held)
    BY ZenonT(30), <1>1, <1>11, <2>1 DEF QueuesFresh, QueueFresh
  <2> HIDE DEF value, held, queue, overflow, keyboard
  <2>3. PressesFresh(Append(kb[d].queue, <<k, value>>), KnownSoon(d), held)
    BY ZenonT(30), <1>4, <1>6, <2>2, FreshAppend
  <2> QED
    BY ZenonT(30), <2>1, <2>3
<1> HIDE DEF value, held, queue, overflow
<1>12. keyboard \in Keyboards
  BY ZenonT(30), <1>4, <1>7, <1>10 DEF Keyboards
<1>13. keyboard.id = kb[d].id /\ keyboard.overflow = overflow(over) /\ keyboard.queue = queue(over) /\ keyboard.held = held
  BY ZenonT(30)
<1> HIDE DEF keyboard
<1>14. plugs \in 0..MaxReplugs /\ plugs' = plugs /\ kb[d].id <= plugs /\ moves \in 0..MaxMoves
       /\ moves < MaxMoves /\ moves' = moves + 1
  BY ZenonT(30), <1>1 DEF BrokerTypeOK, ProxiesApart, Move
<1>15. plugs' \in 0..MaxReplugs /\ plugs <= plugs' /\ moves' \in 0..MaxMoves
  BY SMTT(30), <1>14, BrokerAssumption
<1>16. keyboard.id <= plugs'
  BY ZenonT(30), <1>13, <1>14
<1>17. /\ UNCHANGED <<pc, todo, proxies, generation, req, rep, client>>
       /\ allowed' \in BOOLEAN /\ starts' \in 0..MaxClients
  BY ZenonT(30), <1>1 DEF BrokerTypeOK, Move
<1>18. Proxied(d) /\ proxies[d].id = keyboard.id /\ ~keyboard.overflow =>
         PressesFresh(keyboard.queue, KnownSoon(d), keyboard.held)
  BY ZenonT(30), <1>11, <1>13
<1> QED
  BY ZenonT(30), <1>5, <1>12, <1>15, <1>16, <1>17, <1>18, KeyboardStep

\* The session's state is read, never written.
LEMMA QuietInv ==
  ASSUME BrokerInv, allowed' \in BOOLEAN,
         UNCHANGED <<kb, pc, todo, proxies, generation, req, rep, client, moves, plugs, starts>>
  PROVE  BrokerInv'
<1>1. BrokerTypeOK /\ SocketInv /\ ProxiesApart /\ QueuesFresh
  BY ZenonT(30), InvParts
<1>2. /\ pc' = pc /\ todo' = todo /\ proxies' = proxies /\ generation' = generation
      /\ req' = req /\ rep' = rep /\ client' = client
      /\ kb' = kb /\ moves' = moves /\ plugs' = plugs /\ starts' = starts
  BY ZenonT(30)
<1>3. SocketInv'
  BY ZenonT(30), <1>1, <1>2, SocketKeeps
<1>4. BrokerTypeOK'
  BY ZenonT(30), <1>1, <1>2 DEF BrokerTypeOK
<1>5. ProxiesApart'
  BY SMTT(30), <1>1, <1>2 DEF ProxiesApart, Proxied
<1>6. QueuesFresh'
  BY ZenonT(30), <1>1, <1>2 DEF QueuesFresh, QueueFresh, Proxied, Sent, Opened, KnownSoon
<1> QED
  BY ZenonT(30), <1>3, <1>4, <1>5, <1>6, InvPartsNext

-----------------------------------------------------------------------------
(* Clients come and go, and steps fail.                                    *)

\* A client without a device.
LEMMA NewClientTyped ==
  /\ NewClient \in [pc : {"serving", "ended"}, highest : Nat, dev : [Gens -> Devices]]
  /\ [NewClient EXCEPT !.pc = "ended"] \in [pc : {"serving", "ended"}, highest : Nat, dev : [Gens -> Devices]]
  /\ NewClient.pc = "serving" /\ [NewClient EXCEPT !.pc = "ended"].pc = "ended" /\ NewClient.highest = 0
  /\ \A g \in Gens : NewClient.dev[g] = NoDevice
<1>1. NoDevice \in Devices
  BY SMTT(30) DEF NoDevice, Devices
<1>2. [g \in Gens |-> NoDevice] \in [Gens -> Devices]
  BY ZenonT(30), <1>1
<1> QED
  BY SMTT(30), <1>2 DEF NewClient

\* No keyboard captured, and nothing to do.
LEMMA TornDown ==
  /\ NoProxy \in ProxyStates /\ NoProxy.gen = 0
  /\ NoProxy.output \cap NoProxy.swallowed = {} /\ NoProxy.output \cup NoProxy.swallowed = NoProxy.physical
  /\ TearDown \in [Ports -> ProxyStates]
  /\ \A d \in Ports : TearDown[d] = NoProxy
<1>1. NoProxy \in ProxyStates /\ NoProxy.gen = 0
  BY SMTT(30), BrokerAssumption DEF NoProxy, ProxyStates
<1>2. NoProxy.output \cap NoProxy.swallowed = {} /\ NoProxy.output \cup NoProxy.swallowed = NoProxy.physical
  BY ZenonT(30) DEF NoProxy
<1> QED
  BY ZenonT(30), <1>1, <1>2 DEF TearDown

\* The first state: no keyboard, no client.
LEMMA BrokerInit ==
  ASSUME Init
  PROVE  BrokerInv
<1>1. <<>> \in Seq(Codes \X {0, 1}) /\ <<>> \in Seq(TaskSet) /\ 0 \in Nat
      /\ \A j \in 1..Len(<<>>) : FALSE
  BY SMTT(30)
<1>2. [id |-> 0, held |-> {}, overflow |-> FALSE, queue |-> <<>>] \in Keyboards
  BY ZenonT(30), <1>1 DEF Keyboards
<1>3. kb \in [Ports -> Keyboards] /\ \A d \in Ports : kb[d].id = 0
  BY ZenonT(30), <1>2 DEF Init
<1>4. 0 \in 0..MaxReplugs + 1 /\ 0 \in 0..MaxMoves /\ 0 \in 0..MaxReplugs /\ 0 \in 0..MaxClients /\ 0 <= 0
  BY SMTT(30), BrokerAssumption
<1>5. proxies \in [Ports -> ProxyStates] /\ \A d \in Ports : proxies[d] = NoProxy
  BY ZenonT(30), TornDown DEF Init, TearDown
<1>6. /\ client \in [pc : {"serving", "ended"}, highest : Nat, dev : [Gens -> Devices]]
      /\ client.pc = "ended"
  BY ZenonT(30), NewClientTyped DEF Init
<1>7. BrokerTypeOK
  BY ZenonT(30), <1>1, <1>3, <1>4, <1>5, <1>6 DEF BrokerTypeOK, Init
<1>8. \A d \in Ports : ~Proxied(d)
  BY ZenonT(30), <1>5, TornDown DEF Proxied
<1>9. NeverStale /\ DevicesKnown /\ DevicesTracked /\ WireAgrees
  BY ZenonT(30), <1>6 DEF NeverStale, DevicesKnown, DevicesTracked, WireAgrees, Init
<1>10. NothingLeftGrabbed
  BY ZenonT(30), <1>8 DEF NothingLeftGrabbed, Init
<1>11. OneOwnerEach
  BY ZenonT(30), <1>5, TornDown DEF OneOwnerEach
<1>12. TodoShape
  BY ZenonT(30), <1>1 DEF TodoShape, Init
<1>13. ProxiesApart /\ QueuesFresh
  BY ZenonT(30), <1>3, <1>4, <1>8 DEF ProxiesApart, QueuesFresh, Init
<1> QED
  BY ZenonT(30), <1>7, <1>9, <1>10, <1>11, <1>12, <1>13 DEF BrokerInv

\* The daemon goes: what is on the socket stays until the broker gives up.
LEMMA GoneInv ==
  ASSUME BrokerInv, client' = [NewClient EXCEPT !.pc = "ended"],
         req' = IF pc = "serve" THEN req ELSE None,
         UNCHANGED <<pc, todo, proxies, generation, rep, environment>>
  PROVE  BrokerInv'
<1>1. /\ pc' = pc /\ todo' = todo /\ proxies' = proxies /\ generation' = generation /\ rep' = rep
      /\ kb' = kb /\ allowed' = allowed /\ moves' = moves /\ plugs' = plugs /\ starts' = starts
  BY ZenonT(30) DEF environment
<1>2. BrokerTypeOK /\ NothingLeftGrabbed /\ OneOwnerEach /\ ProxiesApart /\ TodoShape /\ WireAgrees /\ QueuesFresh
  BY ZenonT(30) DEF BrokerInv
<1>3. client' \in [pc : {"serving", "ended"}, highest : Nat, dev : [Gens -> Devices]] /\ client'.pc = "ended"
  BY ZenonT(30), NewClientTyped
<1>4. BrokerTypeOK'
  BY ZenonT(30), <1>1, <1>2, <1>3 DEF BrokerTypeOK
<1>5. NeverStale' /\ DevicesKnown' /\ DevicesTracked'
  BY ZenonT(30), <1>3 DEF NeverStale, DevicesKnown, DevicesTracked
<1>6. NothingLeftGrabbed' /\ OneOwnerEach' /\ ProxiesApart'
  BY ZenonT(30), <1>1, <1>2 DEF NothingLeftGrabbed, OneOwnerEach, ProxiesApart, Proxied
<1>7. TodoShape' /\ WireAgrees' /\ QueuesFresh'
  <2>1. CASE pc = "serve"
    <3>1. req' = req
      BY ZenonT(30), <2>1
    <3>2. TodoShape'
      BY SMTT(30), <1>1, <1>2, <3>1 DEF TodoShape, Proxied
    <3>3. WireAgrees'
      BY ZenonT(30), <1>1, <1>2, <3>1 DEF WireAgrees, Proxied, Port
    <3>4. QueuesFresh'
      BY ZenonT(30), <1>1, <1>2, <3>1 DEF QueuesFresh, QueueFresh, Proxied, Sent, Opened, KnownSoon
    <3> QED
      BY ZenonT(30), <3>2, <3>3, <3>4
  <2>2. CASE pc # "serve"
    <3>1. pc = "listen" /\ todo' = <<>> /\ rep' = None /\ \A d \in Ports : ~Proxied(d)'
      BY ZenonT(30), <1>1, <1>2, <2>2 DEF BrokerTypeOK, NothingLeftGrabbed, Proxied
    <3>2. \A j \in 1..Len(<<>>) : FALSE
      BY SMTT(30)
    <3>3. TodoShape'
      BY ZenonT(30), <3>1, <3>2 DEF TodoShape
    <3>4. WireAgrees' /\ QueuesFresh'
      BY ZenonT(30), <1>1, <2>2, <3>1 DEF WireAgrees, QueuesFresh
    <3> QED
      BY ZenonT(30), <3>3, <3>4
  <2> QED
    BY ZenonT(30), <2>1, <2>2
<1> QED
  BY ZenonT(30), <1>4, <1>5, <1>6, <1>7 DEF BrokerInv

\* A new client finds nothing captured and nothing on its socket.
LEMMA AcceptInv ==
  ASSUME BrokerInv, Accept
  PROVE  BrokerInv'
<1>1. /\ pc = "listen" /\ pc' = "serve" /\ client' = NewClient /\ starts' = starts + 1 /\ starts < MaxClients
      /\ req' = None /\ todo' = todo /\ proxies' = proxies /\ generation' = generation /\ rep' = rep
      /\ kb' = kb /\ allowed' = allowed /\ moves' = moves /\ plugs' = plugs
  BY ZenonT(30) DEF Accept
<1>2. BrokerTypeOK /\ NothingLeftGrabbed /\ OneOwnerEach /\ ProxiesApart
  BY ZenonT(30) DEF BrokerInv
<1>3. starts \in 0..MaxClients /\ generation \in 0..MaxReplugs + 1
  BY ZenonT(30), <1>2 DEF BrokerTypeOK
<1>4. starts' \in 0..MaxClients /\ 0 <= generation
  BY SMTT(30), <1>1, <1>3, BrokerAssumption
<1>5. BrokerTypeOK'
  BY ZenonT(30), <1>1, <1>2, <1>4, NewClientTyped DEF BrokerTypeOK
<1>6. todo' = <<>> /\ rep' = None /\ \A d \in Ports : ~Proxied(d)'
  BY ZenonT(30), <1>1, <1>2 DEF NothingLeftGrabbed, Proxied
<1>7. NoDevice.epoch = 0 /\ NoDevice.seq = 0
  BY ZenonT(30) DEF NoDevice
<1>8. DevicesKnown'
  BY ZenonT(30), <1>1, <1>4, <1>6, <1>7, NewClientTyped DEF DevicesKnown
<1>9. DevicesTracked' /\ QueuesFresh'
  BY ZenonT(30), <1>6 DEF DevicesTracked, QueuesFresh
<1>10. NeverStale' /\ WireAgrees' /\ NothingLeftGrabbed'
  BY ZenonT(30), <1>1, <1>6 DEF NeverStale, WireAgrees, NothingLeftGrabbed
<1>11. OneOwnerEach' /\ ProxiesApart'
  BY ZenonT(30), <1>1, <1>2 DEF OneOwnerEach, ProxiesApart, Proxied
<1>12. \A j \in 1..Len(<<>>) : FALSE
  BY SMTT(30)
<1>13. TodoShape'
  BY ZenonT(30), <1>6, <1>12 DEF TodoShape
<1> QED
  BY ZenonT(30), <1>5, <1>8, <1>9, <1>10, <1>11, <1>13 DEF BrokerInv

\* A step that fails frees every keyboard.
LEMMA FailsInv ==
  ASSUME BrokerInv, Fails
  PROVE  BrokerInv'
<1>1. /\ pc' = "listen" /\ todo' = <<>> /\ generation' = 0 /\ rep' = None /\ proxies' = TearDown
      /\ req' = (IF rep # None THEN None ELSE req)
      /\ client' = client /\ kb' = kb /\ allowed' = allowed /\ moves' = moves /\ plugs' = plugs /\ starts' = starts
  BY ZenonT(30) DEF Fails, environment
<1>2. BrokerTypeOK /\ NeverStale /\ ProxiesApart
  BY ZenonT(30) DEF BrokerInv
<1>3. 0 \in 0..MaxReplugs + 1 /\ <<>> \in Seq(TaskSet) /\ \A j \in 1..Len(<<>>) : FALSE
  BY SMTT(30), BrokerAssumption
<1>4. BrokerTypeOK'
  BY ZenonT(30), <1>1, <1>2, <1>3, TornDown DEF BrokerTypeOK
<1>5. \A d \in Ports : ~Proxied(d)'
  BY ZenonT(30), <1>1, TornDown DEF Proxied
<1>6. NeverStale'
  <2>1. CASE rep # None
    BY ZenonT(30), <1>1, <2>1 DEF NeverStale
  <2>2. CASE rep = None
    BY ZenonT(30), <1>1, <1>2, <2>2 DEF NeverStale, Stale
  <2> QED
    BY ZenonT(30), <2>1, <2>2
<1>7. NothingLeftGrabbed' /\ WireAgrees' /\ DevicesKnown' /\ DevicesTracked' /\ QueuesFresh'
  BY ZenonT(30), <1>1, <1>5 DEF NothingLeftGrabbed, WireAgrees, DevicesKnown, DevicesTracked, QueuesFresh
<1>8. OneOwnerEach'
  BY ZenonT(30), <1>1, TornDown DEF OneOwnerEach
<1>9. ProxiesApart'
  BY ZenonT(30), <1>1, <1>2, <1>5 DEF ProxiesApart
<1>10. TodoShape'
  BY ZenonT(30), <1>1, <1>3 DEF TodoShape
<1> QED
  BY ZenonT(30), <1>4, <1>6, <1>7, <1>8, <1>9, <1>10 DEF BrokerInv

-----------------------------------------------------------------------------
(* A step begins, and passes over idle keyboards.                          *)

\* Where the elements of a concatenation come from.
Joined(a, b, c) ==
  /\ \A i \in 1..Len(c) :
        \/ i \in 1..Len(a) /\ c[i] = a[i]
        \/ ~(i \in 1..Len(a)) /\ i - Len(a) \in 1..Len(b) /\ c[i] = b[i - Len(a)]
  /\ \A i \in 1..Len(a) : i \in 1..Len(c) /\ \A j \in 1..Len(c) : j < i => j \in 1..Len(a)
  /\ \A i \in 1..Len(b) : i + Len(a) \in 1..Len(c) /\ c[i + Len(a)] = b[i]

\* The places of two lists, one after the other.
LEMMA ConcatPlaces ==
  ASSUME NEW S, NEW a \in Seq(S), NEW b \in Seq(S)
  PROVE  a \o b \in Seq(S) /\ Joined(a, b, a \o b)
<1>1. a \o b \in Seq(S) /\ Len(a \o b) = Len(a) + Len(b) /\ Len(a) \in Nat /\ Len(b) \in Nat
  BY SMTT(30)
<1>2. \A i \in 1..Len(a \o b) :
        \/ i \in 1..Len(a) /\ (a \o b)[i] = a[i]
        \/ ~(i \in 1..Len(a)) /\ i - Len(a) \in 1..Len(b) /\ (a \o b)[i] = b[i - Len(a)]
  BY SMTT(30)
<1>3. \A i \in 1..Len(a) : i \in 1..Len(a \o b) /\ \A j \in 1..Len(a \o b) : j < i => j \in 1..Len(a)
  BY SMTT(30)
<1>4. \A i \in 1..Len(b) : i + Len(a) \in 1..Len(a \o b) /\ (a \o b)[i + Len(a)] = b[i]
  BY SMTT(30)
<1> QED
  BY ZenonT(30), <1>1, <1>2, <1>3, <1>4 DEF Joined

\* An ordered list has each member of its set once.
LEMMA OrderedSeq ==
  ASSUME NEW S, NEW n \in Nat, S \subseteq Nat, NEW s \in InOrder(S, n)
  PROVE  /\ s \in Seq(S) /\ Len(s) \in Nat
         /\ \A i \in 1..Len(s) : s[i] \in S
         /\ \A x \in S : \E i \in 1..Len(s) : s[i] = x
         /\ \A i, j \in 1..Len(s) : i < j => s[i] # s[j]
<1>1. PICK m \in 0..n : s \in [1..m -> S]
  BY ZenonT(30) DEF InOrder
<1>2. m \in Nat
  BY SMTT(30)
<1>3. s \in Seq(S) /\ Len(s) = m
  BY SMTT(30), <1>1, <1>2
<1>4. \A i \in 1..Len(s) : s[i] \in S
  BY ZenonT(30), <1>1, <1>3
<1>5. S = {s[i] : i \in 1..Len(s)} /\ \A i, j \in 1..Len(s) : i < j => s[i] < s[j]
  BY ZenonT(30) DEF InOrder
<1>6. \A i, j \in 1..Len(s) : i < j => s[i] # s[j]
  <2>1. \A x, y \in Nat : x < y => x # y
    BY SMTT(30)
  <2> QED
    BY ZenonT(30), <1>4, <1>5, <2>1
<1>7. \A x \in S : \E i \in 1..Len(s) : s[i] = x
  BY ZenonT(30), <1>5
<1> QED
  BY ZenonT(30), <1>2, <1>3, <1>4, <1>6, <1>7

\* t is a list of one task for each keyboard of s.
TasksOf(op, s, t) ==
  /\ t \in Seq(TaskSet) /\ Len(t) = Len(s)
  /\ \A i \in 1..Len(s) : t[i].op = op /\ t[i].port = s[i] /\ t[i].id = kb[s[i]].id

\* The tasks made of an ordered list of keyboards.
LEMMA TasksPlaces ==
  ASSUME NEW op \in {"DeviceRetire", "DeviceReset", "Event"}, NEW s \in Seq(Ports),
         kb \in [Ports -> Keyboards]
  PROVE  TasksOf(op, s, Tasks(op, s))
<1>1. ASSUME NEW d \in Ports
      PROVE  /\ Task(op, d, None) \in TaskSet /\ Task(op, d, None).op = op
             /\ Task(op, d, None).port = d /\ Task(op, d, None).id = kb[d].id
  <2>1. kb[d].id \in Nat
    BY ZenonT(30) DEF Keyboards
  <2> QED
    BY SMTT(30), <2>1 DEF Task, TaskSet
<1>2. \A i \in 1..Len(s) : s[i] \in Ports
  BY SMTT(30)
<1>3. \A i \in 1..Len(s) : Tasks(op, s)[i] = Task(op, s[i], None)
  BY ZenonT(30) DEF Tasks
<1>4. \A i \in 1..Len(s) : Task(op, s[i], None) \in TaskSet
  BY ZenonT(30), <1>1, <1>2
<1>5. Tasks(op, s) \in [1..Len(s) -> TaskSet]
  BY ZenonT(30), <1>4 DEF Tasks
<1>6. Len(s) \in Nat
  BY SMTT(30)
<1>7. Tasks(op, s) \in Seq(TaskSet) /\ Len(Tasks(op, s)) = Len(s)
  BY SMTT(30), <1>5, <1>6
<1>8. ASSUME NEW i \in 1..Len(s)
      PROVE  Tasks(op, s)[i].op = op /\ Tasks(op, s)[i].port = s[i] /\ Tasks(op, s)[i].id = kb[s[i]].id
  <2>1. s[i] \in Ports
    BY ZenonT(30), <1>2
  <2>2. Tasks(op, s)[i] = Task(op, s[i], None)
    BY ZenonT(30), <1>3
  <2>3. /\ Task(op, s[i], None).op = op /\ Task(op, s[i], None).port = s[i]
        /\ Task(op, s[i], None).id = kb[s[i]].id
    BY ZenonT(30), <1>1, <2>1
  <2> QED
    BY ZenonT(30), <2>2, <2>3
<1> QED
  BY ZenonT(30), <1>7, <1>8 DEF TasksOf

\* A list changes while nothing is on the socket, and says the same of each keyboard.
LEMMA TodoInv ==
  ASSUME BrokerInv, pc = "serve", req = None, rep = None,
         UNCHANGED <<pc, proxies, generation, req, rep, client, environment>>,
         todo' \in Seq(TaskSet), TodoShape',
         \A d \in Ports : ~Pending(d) /\ ~Pending(d)' /\ Snapshots(d)' = Snapshots(d)
  PROVE  BrokerInv'
<1>1. /\ pc' = pc /\ proxies' = proxies /\ generation' = generation /\ req' = req /\ rep' = rep /\ client' = client
      /\ kb' = kb /\ allowed' = allowed /\ moves' = moves /\ plugs' = plugs /\ starts' = starts
  BY ZenonT(30) DEF environment
<1>2. /\ BrokerTypeOK /\ NothingLeftGrabbed /\ OneOwnerEach /\ ProxiesApart /\ QueuesFresh
      /\ DevicesKnown /\ DevicesTracked
  BY ZenonT(30) DEF BrokerInv
<1>3. BrokerTypeOK'
  BY ZenonT(30), <1>1, <1>2 DEF BrokerTypeOK
<1>4. NeverStale' /\ NothingLeftGrabbed' /\ WireAgrees'
  BY ZenonT(30), <1>1 DEF NeverStale, NothingLeftGrabbed, WireAgrees
<1>5. OneOwnerEach' /\ QueuesFresh'
  BY ZenonT(30), <1>1, <1>2 DEF OneOwnerEach, QueuesFresh, QueueFresh, Sent, Opened, KnownSoon, Proxied
<1>6. ProxiesApart'
  BY SMTT(30), <1>1, <1>2 DEF ProxiesApart, Proxied
<1>7. DevicesKnown'
  <2>1. ASSUME client.pc = "serving", NEW d \in Ports, Proxied(d) PROVE DeviceKnown(d)'
    <3>1. DeviceKnown(d)
      BY ZenonT(30), <1>2, <2>1 DEF DevicesKnown
    <3> QED
      BY ZenonT(30), <1>1, <3>1 DEF DeviceKnown
  <2> QED
    BY ZenonT(30), <1>1, <1>2, <2>1 DEF DevicesKnown, Proxied
<1>8. DevicesTracked'
  <2>1. ASSUME client.pc = "serving", NEW d \in Ports, Proxied(d) PROVE DeviceTracked(d)'
    <3>1. DeviceTracked(d)
      BY ZenonT(30), <1>2, <2>1 DEF DevicesTracked
    <3>2. Soon(d)' = Soon(d)
      BY ZenonT(30), <1>1 DEF Soon, Answering
    <3> QED
      BY ZenonT(30), <1>1, <3>1, <3>2 DEF DeviceTracked
  <2> QED
    BY ZenonT(30), <1>1, <2>1 DEF DevicesTracked, Proxied
<1> QED
  BY ZenonT(30), <1>3, <1>4, <1>5, <1>6, <1>7, <1>8 DEF BrokerInv

\* No list without a resynchronisation has snapshots.
LEMMA NoSnapshots ==
  ASSUME NEW d, \A i \in 1..Len(todo) : todo[i].op # "SnapshotKey"
  PROVE  Snapshots(d) = {}
BY ZenonT(30) DEF Snapshots

\* reconcile's list has the shape.
LEMMA StepBeginsInv ==
  ASSUME BrokerInv, StepBegins
  PROVE  BrokerInv'
<1>1. BrokerTypeOK /\ WireAgrees
  BY ZenonT(30) DEF BrokerInv
<1>2. pc = "serve" /\ todo = <<>> /\ req = None /\ rep = None /\ kb \in [Ports -> Keyboards]
  BY ZenonT(30), <1>1 DEF StepBegins, WireAgrees, BrokerTypeOK
<1> DEFINE gone == {d \in Ports : Proxied(d) /\ ~Opened(d)}
           fresh == {d \in Ports : kb[d].id # 0 /\ (~Proxied(d) \/ d \in gone)}
           n == Cardinality(Ports)
<1>3. PICK r \in InOrder(gone, n), f \in InOrder(fresh, n), a \in InOrder(Ports, n) :
         todo' = Tasks("DeviceRetire", r) \o Tasks("DeviceReset", f) \o Tasks("Event", a)
  BY ZenonT(30) DEF StepBegins
<1>4. /\ UNCHANGED <<pc, proxies, generation, req, rep, client, environment>>
      /\ pc' = pc /\ proxies' = proxies /\ req' = req /\ rep' = rep
  BY ZenonT(30) DEF StepBegins
<1>5. gone \subseteq Ports /\ fresh \subseteq Ports /\ (\A d \in gone : Proxied(d)) /\ (\A d \in fresh : kb[d].id # 0)
  BY ZenonT(30)
<1> HIDE DEF gone, fresh, n
<1>6. n \in Nat /\ Ports \subseteq Nat /\ gone \subseteq Nat /\ fresh \subseteq Nat
  BY ZenonT(30), <1>5, BrokerAssumption DEF n
<1>7. /\ r \in Seq(gone) /\ \A i \in 1..Len(r) : r[i] \in gone
      /\ \A i, j \in 1..Len(r) : i < j => r[i] # r[j]
  BY ZenonT(30), <1>6, OrderedSeq
<1>8. f \in Seq(fresh) /\ \A i \in 1..Len(f) : f[i] \in fresh
  BY ZenonT(30), <1>6, OrderedSeq
<1>9. a \in Seq(Ports)
  BY ZenonT(30), <1>6, OrderedSeq
<1>10. r \in Seq(Ports) /\ f \in Seq(Ports)
  BY SMTT(30), <1>5, <1>7, <1>8
<1> DEFINE ra == Tasks("DeviceRetire", r)
           fa == Tasks("DeviceReset", f)
           aa == Tasks("Event", a)
<1>11. TasksOf("DeviceRetire", r, ra) /\ TasksOf("DeviceReset", f, fa) /\ TasksOf("Event", a, aa)
  BY ZenonT(30), <1>2, <1>9, <1>10, TasksPlaces
<1>12. ra \in Seq(TaskSet) /\ fa \in Seq(TaskSet) /\ aa \in Seq(TaskSet)
  BY ZenonT(30), <1>11 DEF TasksOf
<1>13. /\ \A i \in 1..Len(ra) : i \in 1..Len(r) /\ ra[i].op = "DeviceRetire" /\ ra[i].port = r[i]
       /\ \A i \in 1..Len(aa) : aa[i].op = "Event"
  BY ZenonT(30), <1>11 DEF TasksOf
<1>14. todo' = (ra \o fa) \o aa
  BY ZenonT(30), <1>3
<1> HIDE DEF ra, fa, aa
<1>15. ra \o fa \in Seq(TaskSet) /\ Joined(ra, fa, ra \o fa)
  BY ZenonT(30), <1>12, ConcatPlaces
<1>16. todo' \in Seq(TaskSet) /\ Joined(ra \o fa, aa, todo')
  BY ZenonT(30), <1>12, <1>14, <1>15, ConcatPlaces
<1> DEFINE both == ra \o fa
<1> HIDE DEF both
<1>17. Joined(ra, fa, both) /\ Joined(both, aa, todo')
  BY ZenonT(30), <1>15, <1>16 DEF both
<1>18. ASSUME NEW i \in 1..Len(todo')
       PROVE  \/ i \in 1..Len(ra) /\ i \in 1..Len(both) /\ todo'[i] = ra[i]
              \/ todo'[i].op = "DeviceReset" /\ todo'[i].id # 0
              \/ todo'[i].op = "Event"
  <2>1. CASE i \in 1..Len(both) /\ todo'[i] = both[i]
    <3>1. \/ i \in 1..Len(ra) /\ both[i] = ra[i]
          \/ i - Len(ra) \in 1..Len(fa) /\ both[i] = fa[i - Len(ra)]
      BY ZenonT(30), <1>17, <2>1 DEF Joined
    <3>2. CASE i \in 1..Len(ra) /\ both[i] = ra[i]
      BY ZenonT(30), <2>1, <3>2
    <3>3. CASE i - Len(ra) \in 1..Len(fa) /\ both[i] = fa[i - Len(ra)]
      <4>1. PICK h \in 1..Len(fa) : both[i] = fa[h]
        BY ZenonT(30), <3>3
      <4>2. h \in 1..Len(f) /\ fa[h].op = "DeviceReset" /\ fa[h].id = kb[f[h]].id
        BY ZenonT(30), <1>11 DEF TasksOf
      <4> QED
        BY ZenonT(30), <1>5, <1>8, <2>1, <4>1, <4>2
    <3> QED
      BY ZenonT(30), <3>1, <3>2, <3>3
  <2>2. CASE i - Len(both) \in 1..Len(aa) /\ todo'[i] = aa[i - Len(both)]
    BY ZenonT(30), <1>13, <2>2
  <2> QED
    BY ZenonT(30), <1>17, <2>1, <2>2 DEF Joined
<1>19. ASSUME NEW j \in 1..Len(todo'), todo'[j].op = "DeviceRetire"
       PROVE  /\ proxies'[todo'[j].port].gen # 0
              /\ \A i \in 1..Len(todo') : i < j => todo'[i].op = "DeviceRetire" /\ todo'[i].port # todo'[j].port
  <2>1. j \in 1..Len(ra) /\ j \in 1..Len(both) /\ todo'[j] = ra[j]
    BY ZenonT(30), <1>18, <1>19
  <2>2. todo'[j].port = r[j] /\ j \in 1..Len(r) /\ r[j] \in gone
    BY ZenonT(30), <1>7, <1>13, <2>1
  <2>3. proxies'[todo'[j].port].gen # 0
    BY ZenonT(30), <1>4, <1>5, <2>2 DEF Proxied
  <2>4. ASSUME NEW i \in 1..Len(todo'), i < j
        PROVE  todo'[i].op = "DeviceRetire" /\ todo'[i].port # todo'[j].port
    <3>1. i \in 1..Len(both)
      BY ZenonT(30), <1>17, <2>1, <2>4 DEF Joined
    <3>2. i \in 1..Len(ra)
      BY ZenonT(30), <1>17, <2>1, <2>4, <3>1 DEF Joined
    <3>3. todo'[i] = both[i] /\ both[i] = ra[i]
      BY ZenonT(30), <1>17, <3>1, <3>2 DEF Joined
    <3>4. i \in 1..Len(r) /\ todo'[i].op = "DeviceRetire" /\ todo'[i].port = r[i]
      BY ZenonT(30), <1>13, <3>2, <3>3
    <3> QED
      BY ZenonT(30), <1>7, <2>2, <2>4, <3>4
  <2> QED
    BY ZenonT(30), <2>3, <2>4
<1>20. \A i \in 1..Len(todo') : /\ todo'[i].op \notin {"Reset", "SnapshotKey"}
                                /\ todo'[i].op = "DeviceReset" => todo'[i].id # 0
  BY ZenonT(30), <1>13, <1>18
<1>21. TodoShape'
  BY ZenonT(30), <1>19, <1>20 DEF TodoShape, Proxied
<1>22. \A d \in Ports : ~Pending(d) /\ ~Pending(d)'
  <2>1. ASSUME todo' # <<>> PROVE Head(todo') = todo'[1] /\ 1 \in 1..Len(todo')
    BY SMTT(30), <1>16, <2>1
  <2> QED
    BY ZenonT(30), <1>2, <1>4, <1>20, <2>1 DEF Pending
<1>23. \A d \in Ports : Snapshots(d)' = Snapshots(d)
  <2>1. \A i \in 1..Len(todo) : todo[i].op # "SnapshotKey"
    BY SMTT(30), <1>2
  <2>2. \A d \in Ports : Snapshots(d) = {}
    BY ZenonT(30), <2>1, NoSnapshots
  <2>3. \A d \in Ports : Snapshots(d)' = {}
    BY ZenonT(30), <1>20 DEF Snapshots
  <2> QED
    BY ZenonT(30), <2>2, <2>3
<1> QED
  BY ZenonT(30), <1>2, <1>4, <1>16, <1>21, <1>22, <1>23, TodoInv

\* The list without its first task.
LEMMA TodoTail ==
  ASSUME todo \in Seq(TaskSet), todo # <<>>
  PROVE  /\ Tail(todo) \in Seq(TaskSet)
         /\ \A j \in 1..Len(Tail(todo)) : j + 1 \in 1..Len(todo) /\ Tail(todo)[j] = todo[j + 1] /\ 1 < j + 1
         /\ \A i \in 1..Len(todo) : i # 1 => i - 1 \in 1..Len(Tail(todo)) /\ Tail(todo)[i - 1] = todo[i] /\ 1 < i
<1>1. Tail(todo) \in Seq(TaskSet) /\ Len(todo) = Len(Tail(todo)) + 1
  BY SMTT(30)
<1>2. \A j \in 1..Len(Tail(todo)) : j + 1 \in 1..Len(todo) /\ Tail(todo)[j] = todo[j + 1] /\ 1 < j + 1
  BY SMTT(30)
<1>3. \A i \in 1..Len(todo) : i # 1 => i - 1 \in 1..Len(Tail(todo)) /\ i = (i - 1) + 1 /\ 1 < i
  BY SMTT(30), <1>1
<1> QED
  BY ZenonT(30), <1>1, <1>2, <1>3

\* Past the retirements and without a resynchronisation, the tasks are announcements and
\* pumps.
LEMMA PlainTasks ==
  ASSUME TodoShape, todo \in Seq(TaskSet), todo # <<>>, Head(todo).op \in {"DeviceReset", "Event"}
  PROVE  \A i \in 1..Len(todo) : /\ todo[i].op \notin {"DeviceRetire", "Reset", "SnapshotKey"}
                                 /\ todo[i].op = "DeviceReset" => todo[i].id # 0
<1>1. Head(todo) = todo[1] /\ 1 \in 1..Len(todo)
  BY ZenonT(30), TodoHead
<1> SUFFICES ASSUME NEW i \in 1..Len(todo)
             PROVE  /\ todo[i].op \notin {"DeviceRetire", "Reset", "SnapshotKey"}
                    /\ todo[i].op = "DeviceReset" => todo[i].id # 0
  BY ZenonT(30)
<1>2. CASE i = 1
  BY ZenonT(30), <1>1, <1>2 DEF TodoShape
<1>3. CASE i # 1
  <2>1. 1 < i
    BY ZenonT(30), <1>3, TodoTail
  <2> QED
    BY ZenonT(30), <1>1, <2>1 DEF TodoShape
<1> QED
  BY ZenonT(30), <1>2, <1>3

\* An idle keyboard is passed over.
LEMMA PumpIdleInv ==
  ASSUME BrokerInv, PumpIdle
  PROVE  BrokerInv'
<1>1. BrokerTypeOK /\ TodoShape
  BY ZenonT(30) DEF BrokerInv
<1>2. /\ pc = "serve" /\ todo # <<>> /\ Head(todo).op = "Event" /\ req = None /\ rep = None
      /\ todo \in Seq(TaskSet) /\ todo' = Tail(todo)
      /\ UNCHANGED <<pc, proxies, generation, req, rep, client, environment>> /\ req' = req /\ rep' = rep
  BY ZenonT(30), <1>1 DEF PumpIdle, Working, BrokerTypeOK
<1>3. \A i \in 1..Len(todo) : /\ todo[i].op \notin {"DeviceRetire", "Reset", "SnapshotKey"}
                              /\ todo[i].op = "DeviceReset" => todo[i].id # 0
  BY ZenonT(30), <1>1, <1>2, PlainTasks
<1>4. /\ todo' \in Seq(TaskSet)
      /\ \A j \in 1..Len(todo') : j + 1 \in 1..Len(todo) /\ todo'[j] = todo[j + 1]
  BY ZenonT(30), <1>2, TodoTail
<1>5. \A i \in 1..Len(todo') : /\ todo'[i].op \notin {"DeviceRetire", "Reset", "SnapshotKey"}
                               /\ todo'[i].op = "DeviceReset" => todo'[i].id # 0
  BY ZenonT(30), <1>3, <1>4
<1>6. TodoShape'
  BY ZenonT(30), <1>5 DEF TodoShape
<1>7. \A d \in Ports : ~Pending(d) /\ ~Pending(d)'
  <2>1. ASSUME todo' # <<>> PROVE Head(todo') = todo'[1] /\ 1 \in 1..Len(todo')
    BY SMTT(30), <1>4, <2>1
  <2> QED
    BY ZenonT(30), <1>2, <1>5, <2>1 DEF Pending
<1>8. \A d \in Ports : Snapshots(d) = {} /\ Snapshots(d)' = {}
  BY ZenonT(30), <1>3, <1>5 DEF Snapshots
<1> QED
  BY ZenonT(30), <1>2, <1>4, <1>6, <1>7, <1>8, TodoInv

-----------------------------------------------------------------------------
(* The broker sends.                                                       *)

\* m is a message, of these fields.
MessageOf(m, p, op, d, k, value) ==
  /\ m \in Message /\ m # None
  /\ m.op = op /\ m.port = d /\ m.gen = p.gen /\ m.epoch = p.epoch /\ m.seq = p.seq
  /\ m.key = k /\ m.value = value

\* A message's fields are what it was made of.
LEMMA RequestFields ==
  ASSUME NEW op \in {"DeviceReset", "DeviceRetire", "SnapshotKey", "Event"}, NEW d \in Ports,
         NEW p \in ProxyStates, p.gen # 0, NEW k \in Codes \cup {None}, NEW value \in {0, 1},
         NEW m, m = Request(p, op, d, k, value)
  PROVE  MessageOf(m, p, op, d, k, value)
<1>1. p.gen \in 0..MaxReplugs + 1 /\ p.epoch \in Nat /\ p.seq \in Nat
  BY ZenonT(30) DEF ProxyStates
<1>2. p.gen \in Gens
  BY SMTT(30), <1>1, BrokerAssumption DEF Gens
<1>3. /\ m.op = op /\ m.port = d /\ m.gen = p.gen /\ m.epoch = p.epoch /\ m.seq = p.seq
      /\ m.key = k /\ m.value = value
  BY ZenonT(30) DEF Request
<1>4. m \in Message
  BY SMTT(30), <1>1, <1>2 DEF Request, Message
<1> QED
  BY ZenonT(30), <1>3, <1>4, BrokerAssumption DEF MessageOf

\* p and q are a proxy before and after a message, but for the sequence number.
SameBut(p, q) ==
  /\ q.gen = p.gen /\ q.id = p.id /\ q.epoch = p.epoch
  /\ q.physical = p.physical /\ q.output = p.output /\ q.swallowed = p.swallowed

\* Every message takes the next sequence number.
LEMMA Bumped ==
  ASSUME NEW p \in ProxyStates, NEW q, q = [p EXCEPT !.seq = @ + 1]
  PROVE  /\ q \in ProxyStates /\ SameBut(p, q) /\ q.seq = p.seq + 1
         /\ p.seq <= q.seq /\ p.seq \in Nat /\ q.seq \in Nat
<1>1. p.seq \in Nat
  BY ZenonT(30) DEF ProxyStates
<1>2. p.seq + 1 \in Nat /\ p.seq <= p.seq + 1
  BY SMTT(30), <1>1
<1>3. q = [p EXCEPT !.seq = p.seq + 1]
  BY ZenonT(30)
<1>4. q \in ProxyStates /\ q.seq = p.seq + 1
  BY SMTT(30), <1>2, <1>3 DEF ProxyStates
<1>5. SameBut(p, q)
  BY SMTT(30), <1>3 DEF ProxyStates, SameBut
<1> QED
  BY ZenonT(30), <1>1, <1>2, <1>4, <1>5

\* What the proxies' owners and identities say is kept by a message.
LEMMA SameProxies ==
  ASSUME NEW q, proxies' = q, \A e \in Ports : SameBut(proxies[e], q[e]),
         \A e \in Ports : kb'[e].id = kb[e].id, generation' = generation, plugs' = plugs,
         OneOwnerEach, ProxiesApart
  PROVE  OneOwnerEach' /\ ProxiesApart' /\ \A e \in Ports : Proxied(e)' <=> Proxied(e)
<1>1. \A e \in Ports : Proxied(e)' <=> Proxied(e)
  BY ZenonT(30) DEF Proxied, SameBut
<1>2. OneOwnerEach'
  BY ZenonT(30) DEF OneOwnerEach, SameBut
<1>3. ASSUME NEW e \in Ports
      PROVE  /\ proxies'[e].gen = proxies[e].gen /\ proxies'[e].epoch = proxies[e].epoch
             /\ proxies'[e].id = proxies[e].id
  BY ZenonT(30) DEF SameBut
<1>4. ASSUME NEW e \in Ports
      PROVE  /\ Proxied(e)' => /\ proxies'[e].gen <= generation'
                               /\ proxies'[e].epoch >= 1 /\ proxies'[e].id \in 1..plugs'
             /\ kb'[e].id <= plugs'
  <2>1. /\ Proxied(e) => /\ proxies[e].gen <= generation
                         /\ proxies[e].epoch >= 1 /\ proxies[e].id \in 1..plugs
        /\ kb[e].id <= plugs
    BY ZenonT(30) DEF ProxiesApart
  <2> QED
    BY ZenonT(30), <1>1, <1>3, <2>1
<1>5. ASSUME NEW e \in Ports, NEW f \in Ports, Proxied(e)', proxies'[e].gen = proxies'[f].gen PROVE e = f
  <2>1. Proxied(e) /\ proxies[e].gen = proxies[f].gen
    BY ZenonT(30), <1>1, <1>3, <1>5
  <2> QED
    BY ZenonT(30), <2>1 DEF ProxiesApart
<1>6. ProxiesApart'
  BY ZenonT(30), <1>4, <1>5 DEF ProxiesApart
<1> QED
  BY ZenonT(30), <1>1, <1>2, <1>6

\* The list's shape is kept while the same keyboards are captured.
LEMMA SameShape ==
  ASSUME TodoShape, todo \in Seq(TaskSet), todo' = todo, req = None,
         \A e \in Ports : Proxied(e)' <=> Proxied(e)
  PROVE  TodoShape'
<1>1. \A j \in 1..Len(todo) : todo[j] \in TaskSet
  BY SMTT(30)
<1>2. \A j \in 1..Len(todo) : todo[j].port \in Ports
  BY ZenonT(30), <1>1 DEF TaskSet
<1>3. ASSUME NEW j \in 1..Len(todo), Proxied(todo[j].port) PROVE proxies'[todo[j].port].gen # 0
  BY ZenonT(30), <1>2, <1>3 DEF Proxied
<1> QED
  BY SMTT(30), <1>3 DEF TodoShape, Proxied

\* A message for the head of the list, of a keyboard the daemon has heard of.
LEMMA SendInv ==
  ASSUME BrokerInv, pc = "serve", todo # <<>>, req = None, rep = None,
         Head(todo).op \in {"Reset", "SnapshotKey", "Event"}, Proxied(Port),
         NEW p, p = [proxies[Port] EXCEPT !.seq = @ + 1], proxies' = [proxies EXCEPT ![Port] = p],
         NEW op, op = IF Head(todo).op = "Reset" THEN "DeviceReset" ELSE Head(todo).op,
         NEW k \in Codes \cup {None}, NEW value \in {0, 1}, req' = Request(p, op, Port, k, value),
         op = "SnapshotKey" => k = Head(todo).key, op = "Event" => k \in Codes,
         UNCHANGED <<allowed, pc, todo, generation, rep, client, moves, plugs, starts>>,
         kb' \in [Ports -> Keyboards], \A e \in Ports : kb'[e].id = kb[e].id, QueuesFresh'
  PROVE  BrokerInv'
<1>1. /\ allowed' = allowed /\ pc' = pc /\ todo' = todo /\ generation' = generation /\ rep' = rep
      /\ client' = client /\ moves' = moves /\ plugs' = plugs /\ starts' = starts
  BY ZenonT(30)
<1>2. /\ BrokerTypeOK /\ OneOwnerEach /\ ProxiesApart /\ TodoShape /\ DevicesKnown /\ DevicesTracked
  BY ZenonT(30) DEF BrokerInv
<1>3. todo \in Seq(TaskSet) /\ proxies \in [Ports -> ProxyStates]
  BY ZenonT(30), <1>2 DEF BrokerTypeOK
<1>4. Head(todo) = todo[1] /\ Port \in Ports /\ proxies[Port] \in ProxyStates
  BY ZenonT(30), <1>3, TodoHead
<1>5. /\ p \in ProxyStates /\ SameBut(proxies[Port], p) /\ p.seq = proxies[Port].seq + 1
      /\ proxies[Port].seq <= p.seq /\ proxies[Port].seq \in Nat /\ p.seq \in Nat
  BY ZenonT(30), <1>4, Bumped
<1>6. proxies' \in [Ports -> ProxyStates] /\ proxies'[Port] = p /\ \A e \in Ports : e # Port => proxies'[e] = proxies[e]
  BY ZenonT(30), <1>3, <1>4, <1>5
<1>7. p.gen = proxies[Port].gen /\ p.epoch = proxies[Port].epoch /\ p.gen # 0
  BY ZenonT(30), <1>5 DEF SameBut, Proxied
<1>8. op \in {"DeviceReset", "SnapshotKey", "Event"}
  BY ZenonT(30)
<1>9. /\ req' \in Message /\ req' # None
      /\ req'.op = op /\ req'.port = Port /\ req'.gen = p.gen /\ req'.epoch = p.epoch /\ req'.seq = p.seq
      /\ req'.key = k /\ req'.value = value
  <2>1. op \in {"DeviceReset", "DeviceRetire", "SnapshotKey", "Event"} /\ p \in ProxyStates /\ Port \in Ports
    BY ZenonT(30), <1>4, <1>5, <1>8
  <2>2. MessageOf(req', p, op, Port, k, value)
    BY ZenonT(30), <1>7, <2>1, RequestFields
  <2> QED
    BY ZenonT(30), <2>2 DEF MessageOf
<1>10. \A e \in Ports : SameBut(proxies[e], proxies'[e])
  BY ZenonT(30), <1>5, <1>6 DEF SameBut
<1>11. OneOwnerEach' /\ ProxiesApart' /\ \A e \in Ports : Proxied(e)' <=> Proxied(e)
  BY ZenonT(30), <1>1, <1>2, <1>10, SameProxies
<1>12. BrokerTypeOK'
  BY ZenonT(30), <1>1, <1>2, <1>6, <1>9 DEF BrokerTypeOK
<1>13. NothingLeftGrabbed'
  BY ZenonT(30), <1>1 DEF NothingLeftGrabbed
<1>14. TodoShape'
  BY ZenonT(30), <1>1, <1>2, <1>3, <1>11, SameShape
<1>15. Port' = Port /\ Proxied(Port)'
  BY ZenonT(30), <1>1, <1>6, <1>7 DEF Port, Proxied
<1>16. WireAgrees'
  <2>1. req'.op = IF Head(todo').op = "Reset" THEN "DeviceReset" ELSE Head(todo').op
    BY ZenonT(30), <1>1, <1>9
  <2>2. /\ proxies'[Port'].gen # 0 /\ req'.gen = proxies'[Port'].gen
        /\ req'.epoch = proxies'[Port'].epoch /\ req'.seq = proxies'[Port'].seq
    BY ZenonT(30), <1>6, <1>7, <1>9, <1>15
  <2>3. req'.op # "DeviceRetire" /\ (req'.op = "SnapshotKey" => req'.key = Head(todo').key)
        /\ (req'.op = "Event" => req'.key \in Codes) /\ req'.port = Port' /\ todo' # <<>>
    BY ZenonT(30), <1>1, <1>8, <1>9, <1>15
  <2> QED
    BY ZenonT(30), <1>1, <2>1, <2>2, <2>3 DEF WireAgrees, Proxied
<1>17. \A e \in Ports : Pending(e)' <=> Pending(e)
  BY ZenonT(30), <1>1, <1>15 DEF Pending
<1>18. ASSUME client.pc = "serving"
       PROVE  ~Stale(req)' /\ DevicesKnown' /\ DevicesTracked'
  <2> DEFINE dev == client.dev[proxies[Port].gen]
  <2>1. DeviceKnown(Port)
    BY ZenonT(30), <1>2, <1>4, <1>18 DEF DevicesKnown
  <2>2. dev.seq <= proxies[Port].seq /\ dev.epoch <= proxies[Port].epoch /\ dev.epoch # 0
    BY ZenonT(30), <2>1 DEF DeviceKnown
  <2>3. dev.seq \in Nat /\ dev.epoch \in Nat /\ proxies[Port].epoch \in Nat
    <3>1. proxies[Port].gen \in 0..MaxReplugs + 1 /\ proxies[Port].gen # 0 /\ proxies[Port].epoch \in Nat
      BY ZenonT(30), <1>4 DEF ProxyStates, Proxied
    <3>2. proxies[Port].gen \in Gens
      BY SMTT(30), <3>1, BrokerAssumption DEF Gens
    <3>3. dev \in Devices
      BY ZenonT(30), <1>2, <3>2 DEF BrokerTypeOK
    <3> QED
      BY ZenonT(30), <3>1, <3>3 DEF Devices
  <2> HIDE DEF dev
  <2>4. ~(dev.seq >= p.seq) /\ ~(dev.epoch > proxies[Port].epoch) /\ dev.seq <= p.seq
    BY SMTT(30), <1>5, <2>2, <2>3
  <2>5. ~Stale(req)'
    BY ZenonT(30), <1>1, <1>7, <1>9, <2>2, <2>4 DEF Stale, dev
  <2>6. ASSUME NEW e \in Ports, Proxied(e) PROVE DeviceKnown(e)'
    <3>1. DeviceKnown(e)
      BY ZenonT(30), <1>2, <1>18, <2>6 DEF DevicesKnown
    <3>2. proxies'[e].gen = proxies[e].gen /\ proxies'[e].epoch = proxies[e].epoch
      BY ZenonT(30), <1>10 DEF SameBut
    <3>3. client.dev[proxies[e].gen].seq <= proxies'[e].seq
      BY ZenonT(30), <1>6, <2>4, <3>1 DEF DeviceKnown, dev
    <3>4. client.dev[proxies[e].gen].epoch # 0
      BY ZenonT(30), <3>1 DEF DeviceKnown
    <3> QED
      BY ZenonT(30), <1>1, <1>17, <3>1, <3>2, <3>3, <3>4 DEF DeviceKnown
  <2>7. DevicesKnown'
    BY ZenonT(30), <1>1, <1>2, <1>11, <1>18, <2>6 DEF DevicesKnown
  <2>8. ASSUME NEW e \in Ports, Proxied(e) PROVE DeviceTracked(e)'
    <3>1. DeviceTracked(e)
      BY ZenonT(30), <1>2, <1>18, <2>8 DEF DevicesTracked
    <3>2. Soon(e) = proxies[e] /\ Soon(e)' = proxies'[e] /\ Snapshots(e)' = Snapshots(e)
      BY ZenonT(30), <1>1 DEF Soon, Answering, Snapshots
    <3>3. proxies'[e].gen = proxies[e].gen /\ proxies'[e].physical = proxies[e].physical
          /\ proxies'[e].swallowed = proxies[e].swallowed
      BY ZenonT(30), <1>10 DEF SameBut
    <3> QED
      BY ZenonT(30), <1>1, <1>17, <3>1, <3>2, <3>3 DEF DeviceTracked
  <2>9. DevicesTracked'
    BY ZenonT(30), <1>1, <1>11, <2>8 DEF DevicesTracked
  <2> QED
    BY ZenonT(30), <2>5, <2>7, <2>9
<1>19. NeverStale' /\ DevicesKnown' /\ DevicesTracked'
  BY ZenonT(30), <1>1, <1>18 DEF NeverStale, DevicesKnown, DevicesTracked
<1> QED
  BY ZenonT(30), <1>11, <1>12, <1>13, <1>14, <1>16, <1>19 DEF BrokerInv

\* A control of a resynchronisation.
LEMMA ResyncInv ==
  ASSUME BrokerInv, NEW op, NEW wireOp, NEW value \in {0, 1},
         \/ op = "Reset" /\ wireOp = "DeviceReset"
         \/ op = "SnapshotKey" /\ wireOp = "SnapshotKey",
         Resyncing(op, wireOp, value)
  PROVE  BrokerInv'
<1>1. BrokerTypeOK /\ TodoShape /\ QueuesFresh
  BY ZenonT(30) DEF BrokerInv
<1>2. /\ pc = "serve" /\ todo # <<>> /\ Head(todo).op = op /\ req = None /\ rep = None
      /\ todo \in Seq(TaskSet) /\ proxies \in [Ports -> ProxyStates] /\ kb \in [Ports -> Keyboards]
      /\ proxies' = [proxies EXCEPT ![Port].seq = @ + 1]
      /\ req' = Request(proxies'[Port], wireOp, Port, Head(todo).key, value)
  BY ZenonT(30), <1>1 DEF Resyncing, Working, BrokerTypeOK
<1>3. /\ UNCHANGED <<allowed, pc, todo, generation, rep, client, moves, plugs, starts>>
      /\ kb' = kb /\ pc' = pc
  BY ZenonT(30) DEF Resyncing, environment
<1>4. Head(todo) = todo[1] /\ 1 \in 1..Len(todo) /\ Head(todo) \in TaskSet /\ Port \in Ports
  BY ZenonT(30), <1>2, TodoHead
<1>5. Proxied(Port) /\ Head(todo).key \in Codes \cup {None}
  BY ZenonT(30), <1>1, <1>2, <1>4 DEF TodoShape, Port, TaskSet
<1> DEFINE p == [proxies[Port] EXCEPT !.seq = @ + 1]
<1>6. proxies' = [proxies EXCEPT ![Port] = p]
  BY ZenonT(30), <1>2
<1>7. proxies'[Port] = p /\ \A e \in Ports : e # Port => proxies'[e] = proxies[e]
  BY ZenonT(30), <1>2, <1>4, <1>6
<1>8. p \in ProxyStates /\ SameBut(proxies[Port], p)
  BY ZenonT(30), <1>2, <1>4, Bumped
<1> HIDE DEF p
<1>9. req' = Request(p, wireOp, Port, Head(todo).key, value)
  BY ZenonT(30), <1>2, <1>7
<1>10. req'.op = wireOp
  BY ZenonT(30), <1>9 DEF Request
<1>11. QueuesFresh'
  <2> SUFFICES ASSUME NEW e \in Ports, Proxied(e)' PROVE QueueFresh(e)'
    BY ZenonT(30) DEF QueuesFresh
  <2>1. SameBut(proxies[e], proxies'[e])
    BY ZenonT(30), <1>7, <1>8 DEF SameBut
  <2>2. /\ proxies'[e].id = proxies[e].id /\ proxies'[e].physical = proxies[e].physical
        /\ proxies'[e].gen = proxies[e].gen
    BY ZenonT(30), <2>1 DEF SameBut
  <2>3. Proxied(e) /\ QueueFresh(e)
    BY ZenonT(30), <1>1, <2>2 DEF QueuesFresh, Proxied
  <2>4. ~Sent(e) /\ ~Sent(e)'
    BY ZenonT(30), <1>2, <1>10 DEF Sent
  <2>5. KnownSoon(e)' = KnownSoon(e) /\ (Opened(e)' <=> Opened(e))
    BY ZenonT(30), <1>3, <2>2, <2>4 DEF KnownSoon, Opened, Proxied
  <2> QED
    BY ZenonT(30), <1>3, <2>3, <2>4, <2>5 DEF QueueFresh
<1>12. p = [proxies[Port] EXCEPT !.seq = @ + 1]
  BY ZenonT(30) DEF p
<1>13. wireOp = IF Head(todo).op = "Reset" THEN "DeviceReset" ELSE Head(todo).op
  BY ZenonT(30), <1>2
<1>14. kb' \in [Ports -> Keyboards] /\ \A e \in Ports : kb'[e].id = kb[e].id
  BY ZenonT(30), <1>2, <1>3
<1>15. /\ Head(todo).op \in {"Reset", "SnapshotKey", "Event"} /\ wireOp # "Event"
       /\ wireOp = "SnapshotKey" => Head(todo).key = Head(todo).key
  BY ZenonT(30), <1>2
<1> QED
  BY ZenonT(30), <1>2, <1>3, <1>5, <1>6, <1>9, <1>11, <1>12, <1>13, <1>14, <1>15, SendInv

\* c is the keyboard b, but for its queue.
QueueIs(b, c, q) == c \in Keyboards /\ c.id = b.id /\ c.queue = q /\ c.held = b.held

\* A keyboard whose queue is read.
LEMMA QueueRead ==
  ASSUME NEW b \in Keyboards, NEW q \in Seq(Codes \X {0, 1}), NEW c,
         c = [b EXCEPT !.queue = q]
  PROVE  QueueIs(b, c, q)
<1>1. c \in Keyboards
  BY ZenonT(30) DEF Keyboards
<1>2. c.id = b.id /\ c.queue = q /\ c.held = b.held
  BY SMTT(30) DEF Keyboards
<1> QED
  BY ZenonT(30), <1>1, <1>2 DEF QueueIs

\* A keyboard whose queue is flushed.
LEMMA QueueFlushed ==
  ASSUME NEW b \in Keyboards, NEW c,
         c = [b EXCEPT !.queue = <<>>, !.overflow = FALSE]
  PROVE  QueueIs(b, c, <<>>)
<1> DEFINE m == [b EXCEPT !.queue = <<>>]
<1>1. <<>> \in Seq(Codes \X {0, 1})
  BY SMTT(30)
<1>2. m \in Keyboards /\ m.id = b.id /\ m.queue = <<>> /\ m.held = b.held
  BY ZenonT(30), <1>1, QueueRead DEF QueueIs
<1>3. c = [m EXCEPT !.overflow = FALSE]
  BY ZenonT(30)
<1> HIDE DEF m
<1>4. c \in Keyboards
  BY ZenonT(30), <1>2, <1>3 DEF Keyboards
<1>5. c.id = m.id /\ c.queue = m.queue /\ c.held = m.held
  BY SMTT(30), <1>2, <1>3 DEF Keyboards
<1> QED
  BY ZenonT(30), <1>2, <1>4, <1>5 DEF QueueIs

\* An event is asked about; the rest of the queue waits for its answer.
LEMMA PumpEventInv ==
  ASSUME BrokerInv, PumpEvent
  PROVE  BrokerInv'
<1>1. BrokerTypeOK /\ QueuesFresh
  BY ZenonT(30) DEF BrokerInv
<1>2. /\ pc = "serve" /\ todo # <<>> /\ Head(todo).op = "Event" /\ req = None /\ rep = None
      /\ todo \in Seq(TaskSet) /\ proxies \in [Ports -> ProxyStates] /\ kb \in [Ports -> Keyboards]
      /\ Proxied(Port) /\ kb[Port].id = proxies[Port].id /\ ~kb[Port].overflow /\ kb[Port].queue # <<>>
  BY ZenonT(30), <1>1 DEF PumpEvent, Working, BrokerTypeOK, Readable
<1> DEFINE q == kb[Port].queue
           p == [proxies[Port] EXCEPT !.seq = @ + 1]
           keyboard == [kb[Port] EXCEPT !.queue = Tail(q)]
<1>3. /\ UNCHANGED <<allowed, pc, todo, generation, rep, client, moves, plugs, starts>> /\ pc' = pc
      /\ req' = Request(p, "Event", Port, Head(q)[1], Head(q)[2])
      /\ proxies' = [proxies EXCEPT ![Port] = p]
      /\ kb' = [kb EXCEPT ![Port] = keyboard]
  BY ZenonT(30) DEF PumpEvent
<1>4. Port \in Ports
  BY ZenonT(30), <1>2, TodoHead
<1>5. kb[Port] \in Keyboards /\ q \in Seq(Codes \X {0, 1}) /\ q # <<>>
  BY ZenonT(30), <1>2, <1>4 DEF Keyboards
<1>6. p \in ProxyStates /\ SameBut(proxies[Port], p)
  BY ZenonT(30), <1>2, <1>4, Bumped
<1>7. p = [proxies[Port] EXCEPT !.seq = @ + 1]
  BY ZenonT(30)
<1> HIDE DEF q, p
<1>8. Tail(q) \in Seq(Codes \X {0, 1}) /\ Head(q) = q[1] /\ 1 \in 1..Len(q)
  BY ZenonT(30), <1>5, QueueTail
<1>9. keyboard = [kb[Port] EXCEPT !.queue = Tail(q)]
  BY ZenonT(30)
<1> HIDE DEF keyboard
<1>10. keyboard \in Keyboards /\ keyboard.id = kb[Port].id /\ keyboard.queue = Tail(q)
      /\ keyboard.held = kb[Port].held
  <2>1. QueueIs(kb[Port], keyboard, Tail(q))
    BY ZenonT(30), <1>5, <1>8, <1>9, QueueRead
  <2> QED
    BY ZenonT(30), <2>1 DEF QueueIs
<1>11. /\ kb' \in [Ports -> Keyboards] /\ kb'[Port] = keyboard
       /\ \A e \in Ports : e # Port => kb'[e] = kb[e]
  BY ZenonT(30), <1>2, <1>3, <1>4, <1>10
<1>12. \A e \in Ports : kb'[e].id = kb[e].id
  BY ZenonT(30), <1>10, <1>11
<1>13. q[1][1] \in Codes /\ q[1][2] \in {0, 1}
  BY SMTT(30), <1>5, <1>8
<1>14. req' = Request(p, "Event", Port, q[1][1], q[1][2])
  BY ZenonT(30), <1>3, <1>8
<1>15. req'.op = "Event" /\ req'.port = Port /\ req'.key = q[1][1] /\ req'.value = q[1][2]
  BY ZenonT(30), <1>14 DEF Request
<1>16. proxies'[Port] = p /\ \A e \in Ports : e # Port => proxies'[e] = proxies[e]
  BY ZenonT(30), <1>2, <1>3, <1>4
<1>17. /\ p.id = proxies[Port].id /\ p.physical = proxies[Port].physical
  BY ZenonT(30), <1>6 DEF SameBut
<1>18. Opened(Port) /\ PressesFresh(q, proxies[Port].physical, kb[Port].held)
  BY ZenonT(30), <1>1, <1>2, <1>4 DEF QueuesFresh, QueueFresh, Opened, KnownSoon, Sent, q
<1>19. /\ q[1][2] = 1 => q[1][1] \notin proxies[Port].physical
       /\ PressesFresh(Tail(q), Applies(proxies[Port].physical, q[1]), kb[Port].held)
  BY ZenonT(30), <1>5, <1>18, FreshTail
<1>20. QueuesFresh'
  <2> SUFFICES ASSUME NEW e \in Ports, Proxied(e)' PROVE QueueFresh(e)'
    BY ZenonT(30) DEF QueuesFresh
  <2>1. CASE e = Port
    <3>1. Sent(e)' /\ req'.value = 1 => req'.key \notin proxies'[e].physical
      BY ZenonT(30), <1>15, <1>16, <1>17, <1>19, <2>1
    <3>3. Sent(e)'
      <4>1. req' # None
        <5>1. p.gen # 0 /\ "Event" \in {"DeviceReset", "DeviceRetire", "SnapshotKey", "Event"}
          BY ZenonT(30), <1>2, <1>6 DEF SameBut, Proxied
        <5>2. MessageOf(req', p, "Event", Port, q[1][1], q[1][2])
          BY ZenonT(30), <1>4, <1>6, <1>13, <1>14, <5>1, RequestFields
        <5> QED
          BY ZenonT(30), <5>2 DEF MessageOf
      <4> QED
        BY ZenonT(30), <1>2, <1>3, <1>15, <2>1, <4>1 DEF Sent
    <3>4. KnownSoon(e)' = Applies(proxies[Port].physical, q[1])
      BY ZenonT(30), <1>15, <1>16, <1>17, <2>1, <3>3 DEF KnownSoon, Applies
    <3>5. PressesFresh(kb'[e].queue, KnownSoon(e)', kb'[e].held)
      BY ZenonT(30), <1>10, <1>11, <1>19, <2>1, <3>4
    <3> QED
      BY ZenonT(30), <3>1, <3>5 DEF QueueFresh
  <2>2. CASE e # Port
    <3>1. kb'[e] = kb[e] /\ proxies'[e] = proxies[e]
      BY ZenonT(30), <1>11, <1>16, <2>2
    <3>2. Proxied(e) /\ QueueFresh(e)
      BY ZenonT(30), <1>1, <3>1 DEF QueuesFresh, Proxied
    <3>3. ~Sent(e) /\ ~Sent(e)'
      BY ZenonT(30), <1>2, <1>15, <2>2 DEF Sent
    <3>4. KnownSoon(e)' = KnownSoon(e) /\ (Opened(e)' <=> Opened(e))
      BY ZenonT(30), <3>1, <3>3 DEF KnownSoon, Opened, Proxied
    <3> QED
      BY ZenonT(30), <3>1, <3>2, <3>3, <3>4 DEF QueueFresh
  <2> QED
    BY ZenonT(30), <2>1, <2>2
<1>21. q[1][1] \in Codes \cup {None} /\ "Event" = (IF Head(todo).op = "Reset" THEN "DeviceReset" ELSE Head(todo).op)
       /\ Head(todo).op \in {"Reset", "SnapshotKey", "Event"}
  BY ZenonT(30), <1>2, <1>13
<1> QED
  BY ZenonT(30), <1>2, <1>3, <1>7, <1>11, <1>12, <1>13, <1>14, <1>20, <1>21, SendInv

\* What the daemon keeps of a captured keyboard.
LEMMA DeviceTyped ==
  ASSUME BrokerTypeOK, NEW d \in Ports, Proxied(d)
  PROVE  /\ proxies[d] \in ProxyStates /\ proxies[d].gen \in Gens /\ proxies[d].gen \in Nat
         /\ proxies[d].epoch \in Nat /\ proxies[d].seq \in Nat
         /\ client.dev[proxies[d].gen] \in Devices
         /\ client.dev[proxies[d].gen].seq \in Nat /\ client.dev[proxies[d].gen].epoch \in Nat
<1>1. proxies[d] \in ProxyStates
  BY ZenonT(30) DEF BrokerTypeOK
<1>2. proxies[d].gen \in 0..MaxReplugs + 1 /\ proxies[d].gen # 0 /\ proxies[d].epoch \in Nat /\ proxies[d].seq \in Nat
  BY ZenonT(30), <1>1 DEF ProxyStates, Proxied
<1>3. proxies[d].gen \in Gens /\ proxies[d].gen \in Nat
  BY SMTT(30), <1>2, BrokerAssumption DEF Gens
<1>4. client.dev[proxies[d].gen] \in Devices
  BY ZenonT(30), <1>3 DEF BrokerTypeOK
<1> QED
  BY ZenonT(30), <1>1, <1>2, <1>3, <1>4 DEF Devices

\* A keyboard that went is retired: its proxy is dropped with the last message of its
\* generation.
LEMMA RetireInv ==
  ASSUME BrokerInv, RetireClient
  PROVE  BrokerInv'
<1>1. BrokerTypeOK /\ OneOwnerEach /\ ProxiesApart /\ TodoShape /\ DevicesKnown /\ DevicesTracked /\ QueuesFresh
  BY ZenonT(30) DEF BrokerInv
<1>2. /\ pc = "serve" /\ todo # <<>> /\ Head(todo).op = "DeviceRetire" /\ req = None /\ rep = None
      /\ todo \in Seq(TaskSet) /\ proxies \in [Ports -> ProxyStates]
  BY ZenonT(30), <1>1 DEF RetireClient, Working, BrokerTypeOK
<1>3. /\ pc' = pc /\ todo' = todo /\ generation' = generation /\ rep' = rep /\ client' = client
      /\ kb' = kb /\ allowed' = allowed /\ moves' = moves /\ plugs' = plugs /\ starts' = starts
  BY ZenonT(30) DEF RetireClient, environment
<1>4. Head(todo) = todo[1] /\ 1 \in 1..Len(todo) /\ Port \in Ports /\ todo[1].port = Port
  BY ZenonT(30), <1>2, TodoHead DEF Port
<1>5. Proxied(Port)
  BY ZenonT(30), <1>1, <1>2, <1>4 DEF TodoShape
<1> DEFINE p == [proxies[Port] EXCEPT !.seq = @ + 1]
<1>6. /\ p \in ProxyStates /\ SameBut(proxies[Port], p) /\ p.seq = proxies[Port].seq + 1
      /\ proxies[Port].seq \in Nat
  BY ZenonT(30), <1>2, <1>4, Bumped
<1>7. req' = Request(p, "DeviceRetire", Port, None, 0) /\ proxies' = [proxies EXCEPT ![Port] = NoProxy]
  BY ZenonT(30) DEF RetireClient
<1> HIDE DEF p
<1>8. p.gen = proxies[Port].gen /\ p.epoch = proxies[Port].epoch /\ p.gen # 0
  BY ZenonT(30), <1>5, <1>6 DEF SameBut, Proxied
<1>9. /\ req' \in Message /\ req' # None /\ req'.op = "DeviceRetire" /\ req'.port = Port
      /\ req'.gen = p.gen /\ req'.epoch = p.epoch /\ req'.seq = p.seq
  <2>1. /\ None \in Codes \cup {None} /\ 0 \in {0, 1}
        /\ "DeviceRetire" \in {"DeviceReset", "DeviceRetire", "SnapshotKey", "Event"}
    BY ZenonT(30)
  <2>2. MessageOf(req', p, "DeviceRetire", Port, None, 0)
    BY ZenonT(30), <1>4, <1>6, <1>7, <1>8, <2>1, RequestFields
  <2> QED
    BY ZenonT(30), <2>2 DEF MessageOf
<1>10. /\ proxies' \in [Ports -> ProxyStates] /\ proxies'[Port] = NoProxy
       /\ \A e \in Ports : e # Port => proxies'[e] = proxies[e]
  BY ZenonT(30), <1>2, <1>4, <1>7, TornDown
<1>11. ~Proxied(Port)' /\ \A e \in Ports : Proxied(e)' => e # Port /\ Proxied(e) /\ proxies'[e] = proxies[e]
  <2>1. proxies'[Port].gen = 0
    BY ZenonT(30), <1>10, TornDown
  <2>2. ASSUME NEW e \in Ports, Proxied(e)' PROVE e # Port /\ Proxied(e) /\ proxies'[e] = proxies[e]
    <3>1. e # Port
      BY ZenonT(30), <2>1, <2>2 DEF Proxied
    <3> QED
      BY ZenonT(30), <1>10, <2>2, <3>1 DEF Proxied
  <2>3. Port' = Port
    BY ZenonT(30), <1>3 DEF Port
  <2> QED
    BY ZenonT(30), <2>1, <2>2, <2>3 DEF Proxied
<1>12. BrokerTypeOK'
  BY ZenonT(30), <1>1, <1>3, <1>9, <1>10 DEF BrokerTypeOK
<1>13. OneOwnerEach'
  BY ZenonT(30), <1>1, <1>10, TornDown DEF OneOwnerEach
<1>14. ProxiesApart'
  <2>1. ASSUME NEW e \in Ports, Proxied(e)'
        PROVE  proxies'[e].gen <= generation' /\ proxies'[e].epoch >= 1 /\ proxies'[e].id \in 1..plugs'
    BY ZenonT(30), <1>1, <1>3, <1>11, <2>1 DEF ProxiesApart
  <2>2. ASSUME NEW e \in Ports, NEW f \in Ports, Proxied(e)', proxies'[e].gen = proxies'[f].gen PROVE e = f
    <3>1. Proxied(e) /\ proxies'[e] = proxies[e] /\ proxies[e].gen # 0
      BY ZenonT(30), <1>11, <2>2 DEF Proxied
    <3>2. proxies'[f] = proxies[f]
      BY ZenonT(30), <1>10, <2>2, <3>1, TornDown
    <3> QED
      BY ZenonT(30), <1>1, <2>2, <3>1, <3>2 DEF ProxiesApart
  <2>3. \A e \in Ports : kb'[e].id <= plugs'
    BY ZenonT(30), <1>1, <1>3 DEF ProxiesApart
  <2> QED
    BY ZenonT(30), <2>1, <2>2, <2>3 DEF ProxiesApart
<1>15. TodoShape'
  <2>1. ASSUME NEW j \in 1..Len(todo), todo[j].op = "DeviceRetire"
        PROVE  /\ \A i \in 1..Len(todo) : i < j => todo[i].op = "DeviceRetire" /\ todo[i].port # todo[j].port
               /\ j > 1 => proxies'[todo[j].port].gen # 0
    <3>1. \A i \in 1..Len(todo) : i < j => todo[i].op = "DeviceRetire" /\ todo[i].port # todo[j].port
      BY ZenonT(30), <1>1, <2>1 DEF TodoShape
    <3>2. ASSUME j > 1 PROVE proxies'[todo[j].port].gen # 0
      <4>1. 1 < j
        BY SMTT(30), <3>2
      <4>2. todo[j].port # Port
        BY ZenonT(30), <1>4, <3>1, <4>1
      <4>3. Proxied(todo[j].port)
        BY ZenonT(30), <1>1, <1>2, <2>1 DEF TodoShape
      <4>4. todo[j] \in TaskSet
        BY SMTT(30), <1>2
      <4>5. todo[j].port \in Ports
        BY ZenonT(30), <4>4 DEF TaskSet
      <4> QED
        BY ZenonT(30), <1>10, <4>2, <4>3, <4>5 DEF Proxied
    <3> QED
      BY ZenonT(30), <3>1, <3>2
  <2>2. ASSUME NEW j \in 1..Len(todo) PROVE todo[j].op \notin {"Reset", "SnapshotKey"}
    <3>1. CASE j = 1
      BY ZenonT(30), <1>2, <1>4, <3>1
    <3>2. CASE j # 1
      <4>1. 1 < j
        BY ZenonT(30), <1>2, <3>2, TodoTail
      <4> QED
        BY ZenonT(30), <1>1, <1>2, <1>4, <4>1 DEF TodoShape
    <3> QED
      BY ZenonT(30), <3>1, <3>2
  <2>3. \A j \in 1..Len(todo) : todo[j].op = "DeviceReset" => todo[j].id # 0
    BY ZenonT(30), <1>1 DEF TodoShape
  <2> QED
    BY SMTT(30), <1>3, <1>9, <2>1, <2>2, <2>3 DEF TodoShape, Proxied
<1>16. Port' = Port
  BY ZenonT(30), <1>3 DEF Port
<1>17. WireAgrees'
  <2>1. req'.gen <= generation'
    BY ZenonT(30), <1>1, <1>3, <1>4, <1>5, <1>8, <1>9 DEF ProxiesApart
  <2>2. \A e \in Ports : proxies'[e].gen # req'.gen
    <3> SUFFICES ASSUME NEW e \in Ports, proxies'[e].gen = req'.gen PROVE FALSE
      BY ZenonT(30)
    <3>1. Proxied(e)'
      BY ZenonT(30), <1>8, <1>9 DEF Proxied
    <3>2. e # Port /\ Proxied(e) /\ proxies[e].gen = proxies[Port].gen
      BY ZenonT(30), <1>8, <1>9, <1>11, <3>1
    <3> QED
      BY ZenonT(30), <1>1, <1>4, <3>2 DEF ProxiesApart
  <2>3. /\ req'.op = IF Head(todo').op = "Reset" THEN "DeviceReset" ELSE Head(todo').op
        /\ req'.port = Port' /\ todo' # <<>> /\ proxies'[Port'].gen = 0
    BY ZenonT(30), <1>2, <1>3, <1>9, <1>10, <1>16, TornDown
  <2> QED
    BY ZenonT(30), <1>2, <1>3, <1>9, <2>1, <2>2, <2>3 DEF WireAgrees, Proxied
<1>18. \A e \in Ports : ~Pending(e) /\ ~Pending(e)'
  BY ZenonT(30), <1>2, <1>3 DEF Pending
<1>19. ASSUME client.pc = "serving" PROVE ~Stale(req)' /\ DevicesKnown' /\ DevicesTracked'
  <2> DEFINE dev == client.dev[proxies[Port].gen]
  <2>1. dev.seq <= proxies[Port].seq /\ dev.epoch <= proxies[Port].epoch /\ dev.epoch # 0
    BY ZenonT(30), <1>1, <1>2, <1>4, <1>5, <1>19 DEF DevicesKnown, DeviceKnown
  <2>2. dev.seq \in Nat /\ dev.epoch \in Nat /\ proxies[Port].epoch \in Nat
    BY ZenonT(30), <1>1, <1>4, <1>5, DeviceTyped
  <2> HIDE DEF dev
  <2>3. ~(dev.seq >= p.seq) /\ ~(dev.epoch > proxies[Port].epoch)
    BY SMTT(30), <1>6, <2>1, <2>2
  <2>4. ~Stale(req)'
    BY ZenonT(30), <1>3, <1>8, <1>9, <2>1, <2>3 DEF Stale, dev
  <2>5. ASSUME NEW e \in Ports, Proxied(e)' PROVE DeviceKnown(e)' /\ DeviceTracked(e)'
    <3>1. Proxied(e) /\ proxies'[e] = proxies[e] /\ DeviceKnown(e) /\ DeviceTracked(e)
      BY ZenonT(30), <1>1, <1>2, <1>11, <1>19, <2>5 DEF DevicesKnown, DevicesTracked
    <3>2. Soon(e) = proxies[e] /\ Soon(e)' = proxies'[e] /\ Snapshots(e)' = Snapshots(e)
      BY ZenonT(30), <1>2, <1>3 DEF Soon, Answering, Snapshots
    <3>3. DeviceKnown(e)'
      BY ZenonT(30), <1>2, <1>3, <1>18, <3>1 DEF DeviceKnown
    <3>4. DeviceTracked(e)'
      BY ZenonT(30), <1>2, <1>3, <1>18, <3>1, <3>2 DEF DeviceTracked
    <3> QED
      BY ZenonT(30), <3>3, <3>4
  <2>6. DevicesKnown'
    BY ZenonT(30), <1>1, <1>2, <1>3, <1>19, <2>5 DEF DevicesKnown
  <2>7. DevicesTracked'
    BY ZenonT(30), <2>5 DEF DevicesTracked
  <2> QED
    BY ZenonT(30), <2>4, <2>6, <2>7
<1>20. NeverStale' /\ DevicesKnown' /\ DevicesTracked' /\ NothingLeftGrabbed'
  BY ZenonT(30), <1>2, <1>3, <1>19 DEF NeverStale, DevicesKnown, DevicesTracked, NothingLeftGrabbed
<1>21. QueuesFresh'
  <2> SUFFICES ASSUME NEW e \in Ports, Proxied(e)' PROVE QueueFresh(e)'
    BY ZenonT(30) DEF QueuesFresh
  <2>1. Proxied(e) /\ proxies'[e] = proxies[e] /\ QueueFresh(e)
    BY ZenonT(30), <1>1, <1>11 DEF QueuesFresh
  <2>2. ~Sent(e) /\ ~Sent(e)'
    BY ZenonT(30), <1>2, <1>9 DEF Sent
  <2>3. KnownSoon(e)' = KnownSoon(e) /\ (Opened(e)' <=> Opened(e))
    BY ZenonT(30), <1>3, <2>1, <2>2 DEF KnownSoon, Opened, Proxied
  <2> QED
    BY ZenonT(30), <1>3, <2>1, <2>2, <2>3 DEF QueueFresh
<1> QED
  BY ZenonT(30), <1>12, <1>13, <1>14, <1>15, <1>17, <1>20, <1>21 DEF BrokerInv

\* A proxy of this generation and identity, announced with its first message.
Announced(p, g, id) ==
  /\ p \in ProxyStates /\ p.gen = g /\ p.id = id /\ p.epoch = 1 /\ p.seq = 1
  /\ p.physical = {} /\ p.output = {} /\ p.swallowed = {}

\* A new proxy holds nothing.
LEMMA NewProxy ==
  ASSUME NEW g \in 0..MaxReplugs + 1, NEW id \in Nat, NEW p,
         p = [NoProxy EXCEPT !.gen = g, !.id = id, !.epoch = 1, !.seq = 1]
  PROVE  Announced(p, g, id)
<1>1. p = [gen |-> g, id |-> id, epoch |-> 1, seq |-> 1, physical |-> {}, output |-> {}, swallowed |-> {}]
  BY ZenonT(30) DEF NoProxy
<1>2. 1 \in Nat /\ {} \in SUBSET Codes
  BY SMTT(30)
<1>3. ASSUME NEW r,
             r = [gen |-> g, id |-> id, epoch |-> 1, seq |-> 1, physical |-> {}, output |-> {}, swallowed |-> {}]
      PROVE  Announced(r, g, id)
  <2>1. r \in ProxyStates
    BY SMTT(30), <1>2, <1>3 DEF ProxyStates
  <2>2. r.gen = g /\ r.id = id /\ r.epoch = 1 /\ r.seq = 1
    BY ZenonT(30), <1>3
  <2>3. r.physical = {} /\ r.output = {} /\ r.swallowed = {}
    BY ZenonT(30), <1>3
  <2> QED
    BY ZenonT(30), <2>1, <2>2, <2>3 DEF Announced
<1> QED
  BY ZenonT(30), <1>1, <1>3

\* A keyboard is announced under a generation nobody has had.
LEMMA AdmitInv ==
  ASSUME BrokerInv, Admit
  PROVE  BrokerInv'
<1>1. BrokerTypeOK /\ OneOwnerEach /\ ProxiesApart /\ TodoShape /\ DevicesKnown /\ DevicesTracked /\ QueuesFresh
  BY ZenonT(30) DEF BrokerInv
<1>2. /\ pc = "serve" /\ todo # <<>> /\ Head(todo).op = "DeviceReset" /\ req = None /\ rep = None
      /\ todo \in Seq(TaskSet) /\ proxies \in [Ports -> ProxyStates] /\ kb \in [Ports -> Keyboards]
      /\ ~Proxied(Port) /\ kb[Port].id = Head(todo).id
  BY ZenonT(30), <1>1 DEF Admit, Working, Admissible, BrokerTypeOK
<1> DEFINE g == generation'
           p == [NoProxy EXCEPT !.gen = g, !.id = kb[Port].id, !.epoch = 1, !.seq = 1]
           keyboard == [kb[Port] EXCEPT !.queue = <<>>, !.overflow = FALSE]
<1>3. /\ pc' = pc /\ todo' = todo /\ rep' = rep /\ client' = client
      /\ allowed' = allowed /\ moves' = moves /\ plugs' = plugs /\ starts' = starts
      /\ g = generation + 1 /\ generation <= MaxReplugs
      /\ proxies' = [proxies EXCEPT ![Port] = p] /\ req' = Request(p, "DeviceReset", Port, None, 0)
  BY ZenonT(30) DEF Admit, Admissible
<1>4. kb' = [kb EXCEPT ![Port] = keyboard]
  BY ZenonT(30) DEF Admit
<1>5. Head(todo) = todo[1] /\ 1 \in 1..Len(todo) /\ Port \in Ports
  BY ZenonT(30), <1>2, TodoHead
<1>6. kb[Port] \in Keyboards /\ kb[Port].id \in Nat /\ kb[Port].id # 0 /\ kb[Port].id <= plugs
  <2>1. kb[Port] \in Keyboards /\ kb[Port].id = todo[1].id
    BY ZenonT(30), <1>2, <1>5
  <2>2. todo[1].id # 0
    BY ZenonT(30), <1>1, <1>2, <1>5 DEF TodoShape
  <2>3. kb[Port].id <= plugs
    BY ZenonT(30), <1>1, <1>5 DEF ProxiesApart
  <2>4. kb[Port].id \in Nat
    BY ZenonT(30), <2>1 DEF Keyboards
  <2> QED
    BY ZenonT(30), <2>1, <2>2, <2>3, <2>4
<1>7. generation \in 0..MaxReplugs + 1 /\ plugs \in 0..MaxReplugs
  BY ZenonT(30), <1>1 DEF BrokerTypeOK
<1>8. /\ g \in 0..MaxReplugs + 1 /\ g \in Nat /\ generation \in Nat /\ g # 0 /\ g \in Gens
      /\ kb[Port].id \in 1..plugs /\ g <= g /\ 1 >= 1 /\ ~(0 >= 1) /\ ~(0 > 1) /\ 0 <= 1
      /\ \A n \in Nat : n <= generation => n <= g /\ n # g /\ ~(g <= n) /\ g > n
  BY SMTT(30), <1>3, <1>6, <1>7, BrokerAssumption DEF Gens
<1>9. Announced(p, g, kb[Port].id)
  BY ZenonT(30), <1>6, <1>8, NewProxy
<1>10. QueueIs(kb[Port], keyboard, <<>>)
  BY ZenonT(30), <1>6, QueueFlushed
<1> HIDE DEF p, keyboard, g
<1>11. /\ proxies' \in [Ports -> ProxyStates] /\ proxies'[Port] = p
       /\ \A e \in Ports : e # Port => proxies'[e] = proxies[e]
  BY ZenonT(30), <1>2, <1>3, <1>5, <1>9 DEF Announced
<1>12. /\ kb' \in [Ports -> Keyboards] /\ kb'[Port] = keyboard
       /\ \A e \in Ports : e # Port => kb'[e] = kb[e]
  BY ZenonT(30), <1>2, <1>4, <1>5, <1>10 DEF QueueIs
<1>13. /\ p.gen = g /\ p.id = kb[Port].id /\ p.epoch = 1 /\ p.seq = 1
       /\ p.physical = {} /\ p.output = {} /\ p.swallowed = {} /\ p \in ProxyStates
  BY ZenonT(30), <1>9 DEF Announced
<1>14. /\ req' \in Message /\ req' # None /\ req'.op = "DeviceReset" /\ req'.port = Port
       /\ req'.gen = g /\ req'.epoch = 1 /\ req'.seq = 1
  <2>1. /\ None \in Codes \cup {None} /\ 0 \in {0, 1} /\ p.gen # 0
        /\ "DeviceReset" \in {"DeviceReset", "DeviceRetire", "SnapshotKey", "Event"}
    BY ZenonT(30), <1>8, <1>13
  <2>2. MessageOf(req', p, "DeviceReset", Port, None, 0)
    BY ZenonT(30), <1>3, <1>5, <1>13, <2>1, RequestFields
  <2> QED
    BY ZenonT(30), <1>13, <2>2 DEF MessageOf
<1>15. BrokerTypeOK'
  BY ZenonT(30), <1>1, <1>3, <1>8, <1>11, <1>12, <1>14 DEF BrokerTypeOK, g
<1>16. OneOwnerEach'
  <2>1. {} \cap {} = {} /\ {} \cup {} = {}
    BY ZenonT(30)
  <2> QED
    BY ZenonT(30), <1>1, <1>11, <1>13, <2>1 DEF OneOwnerEach
<1>17. ASSUME NEW e \in Ports, e # Port
       PROVE  /\ Proxied(e)' <=> Proxied(e)
              /\ Proxied(e) => proxies[e].gen <= g /\ proxies[e].gen # g
  <2>1. proxies[e].gen \in 0..MaxReplugs + 1
    BY ZenonT(30), <1>2 DEF ProxyStates
  <2>2. proxies[e].gen \in Nat
    BY SMTT(30), <2>1
  <2>3. Proxied(e) => proxies[e].gen <= generation
    BY ZenonT(30), <1>1 DEF ProxiesApart
  <2> QED
    BY ZenonT(30), <1>8, <1>11, <1>17, <2>2, <2>3 DEF Proxied
<1>18. ProxiesApart'
  <2>1. ASSUME NEW e \in Ports, Proxied(e)'
        PROVE  proxies'[e].gen <= generation' /\ proxies'[e].epoch >= 1 /\ proxies'[e].id \in 1..plugs'
    <3>1. CASE e = Port
      BY ZenonT(30), <1>3, <1>8, <1>11, <1>13, <3>1 DEF g
    <3>2. CASE e # Port
      BY ZenonT(30), <1>1, <1>3, <1>11, <1>17, <2>1, <3>2 DEF g, ProxiesApart
    <3> QED
      BY ZenonT(30), <3>1, <3>2
  <2>2. ASSUME NEW e \in Ports, NEW f \in Ports, Proxied(e)', proxies'[e].gen = proxies'[f].gen PROVE e = f
    <3>1. CASE e = Port
      BY ZenonT(30), <1>8, <1>11, <1>13, <1>17, <2>2, <3>1 DEF Proxied
    <3>2. CASE e # Port
      <4>1. Proxied(e) /\ proxies'[e] = proxies[e]
        BY ZenonT(30), <1>11, <1>17, <2>2, <3>2
      <4>2. f # Port
        BY ZenonT(30), <1>11, <1>13, <1>17, <2>2, <3>2, <4>1
      <4> QED
        BY ZenonT(30), <1>1, <1>11, <2>2, <4>1, <4>2 DEF ProxiesApart
    <3> QED
      BY ZenonT(30), <3>1, <3>2
  <2>3. ASSUME NEW e \in Ports PROVE kb'[e].id <= plugs'
    <3>1. kb'[e].id = kb[e].id
      BY ZenonT(30), <1>10, <1>12 DEF QueueIs
    <3> QED
      BY ZenonT(30), <1>1, <1>3, <3>1 DEF ProxiesApart
  <2> QED
    BY ZenonT(30), <2>1, <2>2, <2>3 DEF ProxiesApart
<1>19. \A i \in 1..Len(todo) : /\ todo[i].op \notin {"DeviceRetire", "Reset", "SnapshotKey"}
                               /\ todo[i].op = "DeviceReset" => todo[i].id # 0
  BY ZenonT(30), <1>1, <1>2, PlainTasks
<1>20. TodoShape'
  BY ZenonT(30), <1>3, <1>19 DEF TodoShape
<1>21. \A e \in Ports : Snapshots(e) = {} /\ Snapshots(e)' = {}
  BY ZenonT(30), <1>3, <1>19 DEF Snapshots
<1>22. Port' = Port
  BY ZenonT(30), <1>3 DEF Port
<1>23. WireAgrees'
  <2>1. /\ req'.op = IF Head(todo').op = "Reset" THEN "DeviceReset" ELSE Head(todo').op
        /\ req'.port = Port' /\ todo' # <<>>
    BY ZenonT(30), <1>2, <1>3, <1>14, <1>22
  <2>2. /\ proxies'[Port'].gen # 0 /\ req'.gen = proxies'[Port'].gen
        /\ req'.epoch = proxies'[Port'].epoch /\ req'.seq = proxies'[Port'].seq
    BY ZenonT(30), <1>8, <1>11, <1>13, <1>14, <1>22
  <2> QED
    BY ZenonT(30), <1>2, <1>3, <1>14, <2>1, <2>2 DEF WireAgrees, Proxied
<1>24. \A e \in Ports : ~Pending(e) /\ (Pending(e)' <=> e = Port)
  BY ZenonT(30), <1>2, <1>3, <1>14, <1>22 DEF Pending
<1>25. ASSUME client.pc = "serving" PROVE ~Stale(req)' /\ DevicesKnown' /\ DevicesTracked'
  <2>1. /\ client.highest <= generation
        /\ \A h \in Gens : h > client.highest => client.dev[h].epoch = 0 /\ client.dev[h].seq = 0
    BY ZenonT(30), <1>1, <1>2, <1>25 DEF DevicesKnown
  <2>2. client.highest \in Nat
    BY ZenonT(30), <1>1 DEF BrokerTypeOK
  <2>3. client.highest <= g /\ ~(g <= client.highest) /\ client.dev[g].epoch = 0 /\ client.dev[g].seq = 0
    BY ZenonT(30), <1>8, <2>1, <2>2
  <2>4. ~Stale(req)'
    BY ZenonT(30), <1>3, <1>8, <1>14, <2>3 DEF Stale
  <2>5. DeviceKnown(Port)'
    <3>1. /\ client'.dev[proxies'[Port'].gen].seq = 0 /\ client'.dev[proxies'[Port'].gen].epoch = 0
          /\ proxies'[Port'].seq = 1 /\ proxies'[Port'].epoch = 1
      BY ZenonT(30), <1>3, <1>11, <1>13, <1>22, <2>3
    <3>2. Pending(Port)'
      BY ZenonT(30), <1>5, <1>22, <1>24
    <3> QED
      BY ZenonT(30), <1>2, <1>3, <1>8, <1>14, <3>1, <3>2 DEF DeviceKnown
  <2>6. DeviceTracked(Port)'
    <3>1. Pending(Port)' /\ Snapshots(Port)' = {} /\ proxies'[Port'].physical = {}
      BY ZenonT(30), <1>5, <1>11, <1>13, <1>21, <1>22, <1>24
    <3> QED
      BY ZenonT(30), <1>2, <1>3, <3>1 DEF DeviceTracked
  <2>7. ASSUME NEW e \in Ports, Proxied(e)', e # Port PROVE DeviceKnown(e)' /\ DeviceTracked(e)'
    <3>1. Proxied(e) /\ proxies'[e] = proxies[e] /\ DeviceKnown(e) /\ DeviceTracked(e)
      BY ZenonT(30), <1>1, <1>2, <1>11, <1>17, <1>25, <2>7 DEF DevicesKnown, DevicesTracked
    <3>2. Soon(e) = proxies[e] /\ Soon(e)' = proxies'[e] /\ Snapshots(e)' = Snapshots(e)
      BY ZenonT(30), <1>2, <1>3, <1>21 DEF Soon, Answering
    <3>3. DeviceKnown(e)'
      BY ZenonT(30), <1>2, <1>3, <1>24, <2>7, <3>1 DEF DeviceKnown
    <3>4. DeviceTracked(e)'
      BY ZenonT(30), <1>2, <1>3, <1>24, <2>7, <3>1, <3>2 DEF DeviceTracked
    <3> QED
      BY ZenonT(30), <3>3, <3>4
  <2>8. ASSUME NEW e \in Ports, Proxied(e)' PROVE DeviceKnown(e)' /\ DeviceTracked(e)'
    <3>1. CASE e = Port
      BY ZenonT(30), <1>22, <2>5, <2>6, <3>1
    <3>2. CASE e # Port
      BY ZenonT(30), <2>7, <2>8, <3>2
    <3> QED
      BY ZenonT(30), <3>1, <3>2
  <2>9. DevicesKnown'
    BY ZenonT(30), <1>3, <2>1, <2>3, <2>8 DEF DevicesKnown, g
  <2>10. DevicesTracked'
    BY ZenonT(30), <2>8 DEF DevicesTracked
  <2> QED
    BY ZenonT(30), <2>4, <2>9, <2>10
<1>26. NeverStale' /\ DevicesKnown' /\ DevicesTracked' /\ NothingLeftGrabbed'
  BY ZenonT(30), <1>2, <1>3, <1>25 DEF NeverStale, DevicesKnown, DevicesTracked, NothingLeftGrabbed
<1>27. QueuesFresh'
  <2> SUFFICES ASSUME NEW e \in Ports, Proxied(e)' PROVE QueueFresh(e)'
    BY ZenonT(30) DEF QueuesFresh
  <2>1. ~Sent(e) /\ ~Sent(e)'
    BY ZenonT(30), <1>2, <1>14 DEF Sent
  <2>2. CASE e = Port
    <3>1. KnownSoon(e)' = {} /\ kb'[e].queue = <<>>
      BY ZenonT(30), <1>10, <1>11, <1>12, <1>13, <2>1, <2>2 DEF KnownSoon, QueueIs
    <3>2. PressesFresh(<<>>, {}, kb'[e].held)
      BY ZenonT(30), FreshEmpty
    <3> QED
      BY ZenonT(30), <2>1, <3>1, <3>2 DEF QueueFresh
  <2>3. CASE e # Port
    <3>1. Proxied(e) /\ proxies'[e] = proxies[e] /\ kb'[e] = kb[e] /\ QueueFresh(e)
      BY ZenonT(30), <1>1, <1>11, <1>12, <1>17, <2>3 DEF QueuesFresh
    <3>2. KnownSoon(e)' = KnownSoon(e) /\ (Opened(e)' <=> Opened(e))
      BY ZenonT(30), <2>1, <3>1 DEF KnownSoon, Opened, Proxied
    <3> QED
      BY ZenonT(30), <2>1, <3>1, <3>2 DEF QueueFresh
  <2> QED
    BY ZenonT(30), <2>2, <2>3
<1> QED
  BY ZenonT(30), <1>15, <1>16, <1>18, <1>20, <1>23, <1>26, <1>27 DEF BrokerInv

\* q is the proxy p resynchronised with these keys.
Resynced(p, q, keys) ==
  /\ q \in ProxyStates /\ q.gen = p.gen /\ q.id = p.id /\ q.seq = p.seq /\ q.epoch = p.epoch + 1
  /\ q.physical = keys /\ q.swallowed = p.swallowed \cap keys /\ q.output = keys \ p.swallowed

\* A resynchronisation keeps the proxy's identity and takes the next epoch.
LEMMA ResyncedProxy ==
  ASSUME NEW p \in ProxyStates, NEW keys \in SUBSET Codes, NEW q,
         q = [p EXCEPT !.epoch = p.epoch + 1, !.physical = keys,
                       !.swallowed = p.swallowed \cap keys, !.output = keys \ p.swallowed]
  PROVE  Resynced(p, q, keys)
<1>1. p.epoch \in Nat /\ p.swallowed \in SUBSET Codes
  BY ZenonT(30) DEF ProxyStates
<1>2. PICK epoch \in Nat : epoch = p.epoch + 1
  BY SMTT(30), <1>1
<1>3. PICK swallowed \in SUBSET Codes : swallowed = p.swallowed \cap keys
  BY ZenonT(30)
<1>4. PICK output \in SUBSET Codes : output = keys \ p.swallowed
  BY ZenonT(30)
<1>5. q = [p EXCEPT !.epoch = epoch, !.physical = keys, !.swallowed = swallowed, !.output = output]
  BY ZenonT(30), <1>2, <1>3, <1>4
<1>6. q \in ProxyStates
  BY ZenonT(30), <1>5 DEF ProxyStates
<1>7. /\ q.gen = p.gen /\ q.id = p.id /\ q.seq = p.seq /\ q.epoch = epoch
      /\ q.physical = keys /\ q.swallowed = swallowed /\ q.output = output
  BY ZenonT(30), <1>5 DEF ProxyStates
<1> QED
  BY ZenonT(30), <1>2, <1>3, <1>4, <1>6, <1>7 DEF Resynced

\* The controls of a resynchronisation, in front of the other tasks.
ResyncList(t, d, order, rest) ==
  /\ t \in Seq(TaskSet) /\ t # <<>> /\ Head(t).op = "Reset" /\ Head(t).port = d
  /\ \A j \in 1..Len(t) :
        \/ j = 1 /\ t[j].op = "Reset" /\ t[j].port = d
        \/ /\ j # 1 /\ t[j].op = "SnapshotKey" /\ t[j].port = d
           /\ \E i \in 1..Len(order) : t[j].key = order[i]
           /\ \A i \in 1..Len(t) : i < j => t[i].op \in {"Reset", "SnapshotKey"} /\ t[i].port = d
        \/ j # 1 /\ \E i \in 1..Len(rest) : t[j] = rest[i]
  /\ \A i \in 1..Len(order) : \E j \in 1..Len(t) : t[j].op = "SnapshotKey" /\ t[j].port = d /\ t[j].key = order[i]

\* resync's controls are a reset and a snapshot of each key.
LEMMA ResyncPlaces ==
  ASSUME NEW d \in Ports, NEW order \in Seq(Codes), NEW rest \in Seq(TaskSet), kb \in [Ports -> Keyboards],
         NEW t, t = <<Task("Reset", d, None)>> \o [i \in 1..Len(order) |-> Task("SnapshotKey", d, order[i])] \o rest
  PROVE  ResyncList(t, d, order, rest)
<1> DEFINE first == <<Task("Reset", d, None)>>
           keys == [i \in 1..Len(order) |-> Task("SnapshotKey", d, order[i])]
           both == first \o keys
<1>1. kb[d].id \in Nat
  BY ZenonT(30) DEF Keyboards
<1>2. /\ Task("Reset", d, None) \in TaskSet
      /\ Task("Reset", d, None).op = "Reset" /\ Task("Reset", d, None).port = d
  BY SMTT(30), <1>1 DEF Task, TaskSet
<1>3. ASSUME NEW k \in Codes
      PROVE  /\ Task("SnapshotKey", d, k) \in TaskSet /\ Task("SnapshotKey", d, k).op = "SnapshotKey"
             /\ Task("SnapshotKey", d, k).port = d /\ Task("SnapshotKey", d, k).key = k
  BY SMTT(30), <1>1 DEF Task, TaskSet
<1>4. Len(order) \in Nat /\ \A i \in 1..Len(order) : order[i] \in Codes
  BY SMTT(30)
<1>5. first \in Seq(TaskSet) /\ Len(first) = 1 /\ first[1] = Task("Reset", d, None)
  <2> DEFINE x == Task("Reset", d, None)
  <2>1. x \in TaskSet
    BY ZenonT(30), <1>2
  <2> HIDE DEF x
  <2>2. <<x>> \in Seq(TaskSet) /\ Len(<<x>>) = 1 /\ <<x>>[1] = x
    BY SMTT(30), <2>1
  <2> QED
    BY ZenonT(30), <2>2 DEF x
<1>6. keys \in [1..Len(order) -> TaskSet]
  BY ZenonT(30), <1>3, <1>4
<1>7. \A i \in 1..Len(order) : keys[i].op = "SnapshotKey" /\ keys[i].port = d /\ keys[i].key = order[i]
  BY ZenonT(30), <1>3, <1>4
<1>8. t = both \o rest
  BY ZenonT(30)
<1> HIDE DEF first, keys, both
<1>9. keys \in Seq(TaskSet) /\ Len(keys) = Len(order)
  BY SMTT(30), <1>4, <1>6
<1>10. both \in Seq(TaskSet) /\ Joined(first, keys, both)
  BY ZenonT(30), <1>5, <1>9, ConcatPlaces DEF both
<1>11. t \in Seq(TaskSet) /\ Joined(both, rest, t)
  BY ZenonT(30), <1>8, <1>10, ConcatPlaces
<1>12. \A n : n \in 1..Len(first) <=> n = 1
  BY SMTT(30), <1>5
<1>13. \A j \in 1..Len(both) :
          \/ j = 1 /\ both[j].op = "Reset" /\ both[j].port = d
          \/ /\ j # 1 /\ both[j].op = "SnapshotKey" /\ both[j].port = d
             /\ \E i \in 1..Len(order) : both[j].key = order[i]
  <2> SUFFICES ASSUME NEW j \in 1..Len(both)
               PROVE  \/ j = 1 /\ both[j].op = "Reset" /\ both[j].port = d
                      \/ /\ j # 1 /\ both[j].op = "SnapshotKey" /\ both[j].port = d
                         /\ \E i \in 1..Len(order) : both[j].key = order[i]
    BY ZenonT(30)
  <2>1. \/ j \in 1..Len(first) /\ both[j] = first[j]
        \/ ~(j \in 1..Len(first)) /\ j - Len(first) \in 1..Len(keys) /\ both[j] = keys[j - Len(first)]
    BY ZenonT(30), <1>10 DEF Joined
  <2>2. CASE j \in 1..Len(first) /\ both[j] = first[j]
    BY ZenonT(30), <1>2, <1>5, <1>12, <2>2
  <2>3. CASE ~(j \in 1..Len(first)) /\ j - Len(first) \in 1..Len(keys) /\ both[j] = keys[j - Len(first)]
    <3>1. PICK i \in 1..Len(order) : both[j] = keys[i]
      BY ZenonT(30), <1>9, <2>3
    <3>2. j # 1
      BY ZenonT(30), <1>12, <2>3
    <3>3. both[j].op = "SnapshotKey" /\ both[j].port = d /\ both[j].key = order[i]
      BY ZenonT(30), <1>7, <3>1
    <3> QED
      BY ZenonT(30), <3>2, <3>3
  <2> QED
    BY ZenonT(30), <2>1, <2>2, <2>3
<1>14. 1 \in 1..Len(both) /\ 1 \in 1..Len(t) /\ t[1] = both[1]
  <2>1. 1 \in 1..Len(both)
    BY ZenonT(30), <1>10, <1>12 DEF Joined
  <2> QED
    BY ZenonT(30), <1>11, <2>1 DEF Joined
<1>15. t # <<>> /\ Head(t) = t[1]
  BY SMTT(30), <1>11, <1>14
<1>16. Head(t).op = "Reset" /\ Head(t).port = d
  BY ZenonT(30), <1>13, <1>14, <1>15
<1>17. \A i \in 1..Len(both) : both[i].op \in {"Reset", "SnapshotKey"} /\ both[i].port = d
  BY ZenonT(30), <1>13
<1>18. \A i \in 1..Len(both) : i \in 1..Len(t) /\ t[i] = both[i]
  BY ZenonT(30), <1>11 DEF Joined
<1>19. ASSUME NEW j \in 1..Len(t)
       PROVE  \/ j = 1 /\ t[j].op = "Reset" /\ t[j].port = d
              \/ /\ j # 1 /\ t[j].op = "SnapshotKey" /\ t[j].port = d
                 /\ \E i \in 1..Len(order) : t[j].key = order[i]
                 /\ \A i \in 1..Len(t) : i < j => t[i].op \in {"Reset", "SnapshotKey"} /\ t[i].port = d
              \/ j # 1 /\ \E i \in 1..Len(rest) : t[j] = rest[i]
  <2>1. \/ j \in 1..Len(both) /\ t[j] = both[j]
        \/ ~(j \in 1..Len(both)) /\ j - Len(both) \in 1..Len(rest) /\ t[j] = rest[j - Len(both)]
    BY ZenonT(30), <1>11 DEF Joined
  <2>2. CASE j \in 1..Len(both) /\ t[j] = both[j]
    <3>1. \A i \in 1..Len(t) : i < j => t[i].op \in {"Reset", "SnapshotKey"} /\ t[i].port = d
      <4> SUFFICES ASSUME NEW i \in 1..Len(t), i < j PROVE t[i].op \in {"Reset", "SnapshotKey"} /\ t[i].port = d
        BY ZenonT(30)
      <4>1. i \in 1..Len(both)
        BY ZenonT(30), <1>11, <2>2 DEF Joined
      <4> QED
        BY ZenonT(30), <1>17, <1>18, <4>1
    <3> QED
      BY ZenonT(30), <1>13, <2>2, <3>1
  <2>3. CASE ~(j \in 1..Len(both)) /\ j - Len(both) \in 1..Len(rest) /\ t[j] = rest[j - Len(both)]
    BY ZenonT(30), <1>14, <2>3
  <2> QED
    BY ZenonT(30), <2>1, <2>2, <2>3
<1>20. ASSUME NEW i \in 1..Len(order)
       PROVE  \E j \in 1..Len(t) : t[j].op = "SnapshotKey" /\ t[j].port = d /\ t[j].key = order[i]
  <2>1. i + Len(first) \in 1..Len(both) /\ both[i + Len(first)] = keys[i]
    BY ZenonT(30), <1>9, <1>10 DEF Joined
  <2>2. i + Len(first) \in 1..Len(t) /\ t[i + Len(first)] = keys[i]
    BY ZenonT(30), <1>18, <2>1
  <2> QED
    BY ZenonT(30), <1>7, <2>2
<1> QED
  BY ZenonT(30), <1>11, <1>15, <1>16, <1>19, <1>20 DEF ResyncList

\* After an overflow the kernel's keys are resynchronised, and the daemon is to be told.
LEMMA PumpResyncInv ==
  ASSUME BrokerInv, PumpResync
  PROVE  BrokerInv'
<1>1. BrokerTypeOK /\ OneOwnerEach /\ ProxiesApart /\ TodoShape /\ DevicesKnown /\ DevicesTracked /\ QueuesFresh
  BY ZenonT(30) DEF BrokerInv
<1>2. /\ pc = "serve" /\ todo # <<>> /\ Head(todo).op = "Event" /\ req = None /\ rep = None /\ Proxied(Port)
      /\ todo \in Seq(TaskSet) /\ proxies \in [Ports -> ProxyStates] /\ kb \in [Ports -> Keyboards]
  BY ZenonT(30), <1>1 DEF PumpResync, Working, Readable, BrokerTypeOK
<1> DEFINE d == Port
           keys == kb[d].held
           p == proxies[d]
           q == [p EXCEPT !.epoch = p.epoch + 1, !.physical = keys,
                          !.swallowed = p.swallowed \cap keys, !.output = keys \ p.swallowed]
           keyboard == [kb[d] EXCEPT !.queue = <<>>, !.overflow = FALSE]
           rest == Tail(todo)
<1>3. /\ pc' = pc /\ generation' = generation /\ req' = req /\ rep' = rep /\ client' = client
      /\ allowed' = allowed /\ moves' = moves /\ plugs' = plugs /\ starts' = starts
  BY ZenonT(30) DEF PumpResync
<1>4. proxies' = [proxies EXCEPT ![d] = q]
  BY ZenonT(30) DEF PumpResync
<1>5. kb' = [kb EXCEPT ![d] = keyboard]
  BY ZenonT(30) DEF PumpResync
<1>6. PICK order \in InOrder(keys, Cardinality(Codes)) :
         todo' = <<Task("Reset", d, None)>>
                 \o [i \in 1..Len(order) |-> Task("SnapshotKey", d, order[i])] \o rest
  BY ZenonT(30) DEF PumpResync
<1>7. d \in Ports /\ p \in ProxyStates /\ kb[d] \in Keyboards /\ keys \in SUBSET Codes
  <2>1. Port \in Ports
    BY ZenonT(30), <1>2, TodoHead
  <2>2. kb[d] \in Keyboards
    BY ZenonT(30), <1>2, <2>1
  <2> QED
    BY ZenonT(30), <1>2, <2>1, <2>2 DEF Keyboards
<1>8. Resynced(p, q, keys)
  BY ZenonT(30), <1>7, ResyncedProxy
<1>9. QueueIs(kb[d], keyboard, <<>>)
  BY ZenonT(30), <1>7, QueueFlushed
<1>10. d = Port /\ keys = kb[d].held /\ p = proxies[d] /\ rest = Tail(todo)
  BY ZenonT(30)
<1> HIDE DEF d, keys, p, q, keyboard, rest
<1>11. /\ order \in Seq(keys) /\ \A i \in 1..Len(order) : order[i] \in keys
       /\ \A x \in keys : \E i \in 1..Len(order) : order[i] = x
  <2>1. keys \subseteq Nat /\ Cardinality(Codes) \in Nat
    BY ZenonT(30), <1>7, BrokerAssumption
  <2> QED
    BY ZenonT(30), <2>1, OrderedSeq
<1>12. order \in Seq(Codes)
  BY SMTT(30), <1>7, <1>11
<1>13. /\ rest \in Seq(TaskSet)
       /\ \A j \in 1..Len(rest) : j + 1 \in 1..Len(todo) /\ rest[j] = todo[j + 1]
  BY ZenonT(30), <1>2, <1>10, TodoTail
<1>14. ResyncList(todo', d, order, rest)
  BY ZenonT(30), <1>2, <1>6, <1>7, <1>12, <1>13, ResyncPlaces
<1>15. \A i \in 1..Len(todo) : /\ todo[i].op \notin {"DeviceRetire", "Reset", "SnapshotKey"}
                               /\ todo[i].op = "DeviceReset" => todo[i].id # 0
  BY ZenonT(30), <1>1, <1>2, PlainTasks
<1>16. \A i \in 1..Len(rest) : /\ rest[i].op \notin {"DeviceRetire", "Reset", "SnapshotKey"}
                               /\ rest[i].op = "DeviceReset" => rest[i].id # 0
  BY ZenonT(30), <1>13, <1>15
<1>17. /\ proxies' \in [Ports -> ProxyStates] /\ proxies'[d] = q
       /\ \A e \in Ports : e # d => proxies'[e] = proxies[e]
  BY ZenonT(30), <1>2, <1>4, <1>7, <1>8 DEF Resynced
<1>18. /\ kb' \in [Ports -> Keyboards] /\ kb'[d] = keyboard
       /\ \A e \in Ports : e # d => kb'[e] = kb[e]
  BY ZenonT(30), <1>2, <1>5, <1>7, <1>9 DEF QueueIs
<1>19. /\ q.gen = p.gen /\ q.id = p.id /\ q.seq = p.seq /\ q.epoch = p.epoch + 1
       /\ q.physical = keys /\ q.swallowed = p.swallowed \cap keys /\ q.output = keys \ p.swallowed
  BY ZenonT(30), <1>8 DEF Resynced
<1>20. \A e \in Ports : Proxied(e)' <=> Proxied(e)
  BY ZenonT(30), <1>10, <1>17, <1>19 DEF Proxied
<1>21. BrokerTypeOK'
  BY ZenonT(30), <1>1, <1>3, <1>14, <1>17, <1>18 DEF BrokerTypeOK, ResyncList
<1>22. OneOwnerEach'
  <2>1. q.output \cap q.swallowed = {} /\ q.output \cup q.swallowed = q.physical
    BY ZenonT(30), <1>19
  <2> QED
    BY ZenonT(30), <1>1, <1>17, <2>1 DEF OneOwnerEach
<1>23. ProxiesApart'
  <2>1. \A e \in Ports : proxies'[e].gen = proxies[e].gen /\ proxies'[e].id = proxies[e].id
    BY ZenonT(30), <1>10, <1>17, <1>19
  <2>2. ASSUME NEW e \in Ports, Proxied(e)' PROVE proxies'[e].epoch >= 1
    <3>1. Proxied(e) /\ proxies[e].epoch >= 1 /\ proxies[e].epoch \in Nat
      BY ZenonT(30), <1>1, <1>20, <2>2, DeviceTyped DEF ProxiesApart
    <3>2. proxies[e].epoch + 1 >= 1
      BY SMTT(30), <3>1
    <3> QED
      BY ZenonT(30), <1>10, <1>17, <1>19, <3>1, <3>2
  <2>3. ASSUME NEW e \in Ports, Proxied(e)' PROVE proxies'[e].gen <= generation' /\ proxies'[e].id \in 1..plugs'
    BY ZenonT(30), <1>1, <1>3, <1>20, <2>1, <2>3 DEF ProxiesApart
  <2>4. ASSUME NEW e \in Ports, NEW f \in Ports, Proxied(e)', proxies'[e].gen = proxies'[f].gen PROVE e = f
    BY ZenonT(30), <1>1, <1>20, <2>1, <2>4 DEF ProxiesApart
  <2>5. ASSUME NEW e \in Ports PROVE kb'[e].id <= plugs'
    <3>1. kb'[e].id = kb[e].id
      BY ZenonT(30), <1>9, <1>18 DEF QueueIs
    <3> QED
      BY ZenonT(30), <1>1, <1>3, <3>1 DEF ProxiesApart
  <2> QED
    BY ZenonT(30), <2>2, <2>3, <2>4, <2>5 DEF ProxiesApart
<1>24. proxies'[d].gen # 0
  BY ZenonT(30), <1>2, <1>7, <1>10, <1>17, <1>19 DEF Proxied
<1>25. TodoShape'
  <2> SUFFICES ASSUME NEW j \in 1..Len(todo')
               PROVE  /\ todo'[j].op # "DeviceRetire"
                      /\ todo'[j].op = "DeviceReset" => todo'[j].id # 0
                      /\ todo'[j].op \in {"Reset", "SnapshotKey"} =>
                            /\ proxies'[todo'[j].port].gen # 0
                            /\ \A i \in 1..Len(todo') : i < j => todo'[i].op \in {"Reset", "SnapshotKey"}
                                                                 /\ todo'[i].port = todo'[j].port
                      /\ todo'[j].op = "Reset" => j = 1
                      /\ todo'[j].op = "SnapshotKey" => todo'[j].key \in Codes
    BY ZenonT(30) DEF TodoShape, Proxied
  <2>1. CASE j = 1 /\ todo'[j].op = "Reset" /\ todo'[j].port = d
    <3>1. \A i \in 1..Len(todo') : ~(i < 1)
      BY SMTT(30)
    <3> QED
      BY ZenonT(30), <1>17, <1>24, <2>1, <3>1
  <2>2. ASSUME todo'[j].op = "SnapshotKey", todo'[j].port = d, \E i \in 1..Len(order) : todo'[j].key = order[i],
               \A i \in 1..Len(todo') : i < j => todo'[i].op \in {"Reset", "SnapshotKey"} /\ todo'[i].port = d
        PROVE  /\ proxies'[todo'[j].port].gen # 0 /\ todo'[j].key \in Codes
               /\ \A i \in 1..Len(todo') : i < j => todo'[i].op \in {"Reset", "SnapshotKey"}
                                                    /\ todo'[i].port = todo'[j].port
    BY ZenonT(30), <1>7, <1>11, <1>24, <2>2
  <2>3. ASSUME NEW i \in 1..Len(rest), todo'[j] = rest[i]
        PROVE  /\ todo'[j].op \notin {"DeviceRetire", "Reset", "SnapshotKey"}
               /\ todo'[j].op = "DeviceReset" => todo'[j].id # 0
    BY ZenonT(30), <1>16, <2>3
  <2>4. \/ j = 1 /\ todo'[j].op = "Reset" /\ todo'[j].port = d
        \/ /\ j # 1 /\ todo'[j].op = "SnapshotKey" /\ todo'[j].port = d
           /\ \E i \in 1..Len(order) : todo'[j].key = order[i]
           /\ \A i \in 1..Len(todo') : i < j => todo'[i].op \in {"Reset", "SnapshotKey"} /\ todo'[i].port = d
        \/ j # 1 /\ \E i \in 1..Len(rest) : todo'[j] = rest[i]
    BY ZenonT(30), <1>14 DEF ResyncList
  <2> QED
    BY ZenonT(30), <2>1, <2>2, <2>3, <2>4
<1>26. WireAgrees' /\ NeverStale' /\ NothingLeftGrabbed'
  BY ZenonT(30), <1>2, <1>3 DEF WireAgrees, NeverStale, NothingLeftGrabbed
<1>27. \A e \in Ports : ~Pending(e) /\ (Pending(e)' <=> e = d)
  <2>1. todo' # <<>> /\ Head(todo').op = "Reset" /\ Head(todo').port = d
    BY ZenonT(30), <1>14 DEF ResyncList
  <2> QED
    BY ZenonT(30), <1>2, <1>3, <2>1 DEF Pending, Port
<1>28. \A e \in Ports : Snapshots(e) = {}
  BY ZenonT(30), <1>15 DEF Snapshots
<1>29. \A j \in 1..Len(todo') : todo'[j].op = "SnapshotKey" =>
           todo'[j].port = d /\ \E i \in 1..Len(order) : todo'[j].key = order[i]
  <2> SUFFICES ASSUME NEW j \in 1..Len(todo'), todo'[j].op = "SnapshotKey"
               PROVE  todo'[j].port = d /\ \E i \in 1..Len(order) : todo'[j].key = order[i]
    BY ZenonT(30)
  <2>1. ~\E i \in 1..Len(rest) : todo'[j] = rest[i]
    BY ZenonT(30), <1>16
  <2>2. todo'[j].op # "Reset"
    BY ZenonT(30)
  <2> QED
    BY ZenonT(30), <1>14, <2>1, <2>2 DEF ResyncList
<1>30. \A e \in Ports : e # d => Snapshots(e)' = {}
  BY ZenonT(30), <1>29 DEF Snapshots
<1>31. Snapshots(d)' = keys
  <2>1. d' = d
    <3>1. Head(todo').port = d
      BY ZenonT(30), <1>14 DEF ResyncList
    <3> QED
      BY ZenonT(30), <3>1 DEF d, Port
  <2>2. ASSUME NEW x \in keys PROVE x \in Snapshots(d)'
    <3>1. PICK i \in 1..Len(order) : order[i] = x
      BY ZenonT(30), <1>11
    <3>2. PICK j \in 1..Len(todo') : todo'[j].op = "SnapshotKey" /\ todo'[j].port = d /\ todo'[j].key = order[i]
      BY ZenonT(30), <1>14 DEF ResyncList
    <3> QED
      BY ZenonT(30), <2>1, <3>1, <3>2 DEF Snapshots
  <2>3. ASSUME NEW x \in Snapshots(d)' PROVE x \in keys
    <3>1. PICK j \in 1..Len(todo') : todo'[j].op = "SnapshotKey" /\ x = todo'[j].key
      BY ZenonT(30) DEF Snapshots
    <3> QED
      BY ZenonT(30), <1>11, <1>29, <3>1
  <2> QED
    BY ZenonT(30), <2>2, <2>3
<1>32. d' = d
  <2>1. Head(todo').port = d
    BY ZenonT(30), <1>14 DEF ResyncList
  <2> QED
    BY ZenonT(30), <2>1 DEF d, Port
<1>33. ASSUME client.pc = "serving" PROVE DevicesKnown' /\ DevicesTracked'
  <2>1. ASSUME NEW e \in Ports, Proxied(e)', e # d PROVE DeviceKnown(e)' /\ DeviceTracked(e)'
    <3>1. Proxied(e) /\ proxies'[e] = proxies[e] /\ DeviceKnown(e) /\ DeviceTracked(e)
      BY ZenonT(30), <1>1, <1>2, <1>17, <1>20, <1>33, <2>1 DEF DevicesKnown, DevicesTracked
    <3>2. Soon(e) = proxies[e] /\ Soon(e)' = proxies'[e] /\ Snapshots(e)' = Snapshots(e)
      BY ZenonT(30), <1>2, <1>3, <1>28, <1>30, <2>1 DEF Soon, Answering
    <3>3. DeviceKnown(e)'
      BY ZenonT(30), <1>2, <1>3, <1>27, <2>1, <3>1 DEF DeviceKnown
    <3>4. DeviceTracked(e)'
      BY ZenonT(30), <1>2, <1>3, <1>27, <2>1, <3>1, <3>2 DEF DeviceTracked
    <3> QED
      BY ZenonT(30), <3>3, <3>4
  <2>2. DeviceKnown(d)'
    <3> DEFINE dev == client.dev[proxies[d].gen]
    <3>1. dev.seq <= proxies[d].seq /\ dev.epoch <= proxies[d].epoch /\ dev.epoch # 0
      BY ZenonT(30), <1>1, <1>2, <1>7, <1>10, <1>33 DEF DevicesKnown, DeviceKnown
    <3>2. dev.epoch \in Nat /\ proxies[d].epoch \in Nat
      BY ZenonT(30), <1>1, <1>2, <1>7, <1>10, DeviceTyped
    <3>3. dev.epoch <= proxies[d].epoch + 1
      BY SMTT(30), <3>1, <3>2
    <3>4. /\ client'.dev[proxies'[d'].gen] = dev /\ proxies'[d'].seq = proxies[d].seq
          /\ proxies'[d'].epoch = proxies[d].epoch + 1
      BY ZenonT(30), <1>3, <1>10, <1>17, <1>19, <1>32
    <3>5. Pending(d)'
      BY ZenonT(30), <1>7, <1>27, <1>32
    <3> HIDE DEF dev
    <3> QED
      BY ZenonT(30), <3>1, <3>3, <3>4, <3>5 DEF DeviceKnown
  <2>3. DeviceTracked(d)'
    <3>1. Pending(d)' /\ Snapshots(d)' = proxies'[d'].physical /\ rep' = None
      BY ZenonT(30), <1>2, <1>3, <1>7, <1>17, <1>19, <1>27, <1>31, <1>32
    <3> QED
      BY ZenonT(30), <3>1 DEF DeviceTracked
  <2>4. ASSUME NEW e \in Ports, Proxied(e)' PROVE DeviceKnown(e)' /\ DeviceTracked(e)'
    <3>1. CASE e = d
      BY ZenonT(30), <1>32, <2>2, <2>3, <3>1
    <3>2. CASE e # d
      BY ZenonT(30), <2>1, <2>4, <3>2
    <3> QED
      BY ZenonT(30), <3>1, <3>2
  <2>5. DevicesKnown'
    BY ZenonT(30), <1>1, <1>2, <1>3, <1>33, <2>4 DEF DevicesKnown
  <2>6. DevicesTracked'
    BY ZenonT(30), <2>4 DEF DevicesTracked
  <2> QED
    BY ZenonT(30), <2>5, <2>6
<1>34. DevicesKnown' /\ DevicesTracked'
  BY ZenonT(30), <1>3, <1>33 DEF DevicesKnown, DevicesTracked
<1>35. QueuesFresh'
  <2> SUFFICES ASSUME NEW e \in Ports, Proxied(e)' PROVE QueueFresh(e)'
    BY ZenonT(30) DEF QueuesFresh
  <2>1. ~Sent(e) /\ ~Sent(e)'
    BY ZenonT(30), <1>2, <1>3 DEF Sent
  <2>2. CASE e = d
    <3>1. KnownSoon(e)' = keys /\ kb'[e].queue = <<>> /\ kb'[e].held = keys
      BY ZenonT(30), <1>9, <1>10, <1>17, <1>18, <1>19, <2>1, <2>2 DEF KnownSoon, QueueIs
    <3>2. PressesFresh(<<>>, keys, keys)
      BY ZenonT(30), FreshEmpty
    <3> QED
      BY ZenonT(30), <2>1, <3>1, <3>2 DEF QueueFresh
  <2>3. CASE e # d
    <3>1. Proxied(e) /\ proxies'[e] = proxies[e] /\ kb'[e] = kb[e] /\ QueueFresh(e)
      BY ZenonT(30), <1>1, <1>17, <1>18, <1>20, <2>3 DEF QueuesFresh
    <3>2. KnownSoon(e)' = KnownSoon(e) /\ (Opened(e)' <=> Opened(e))
      BY ZenonT(30), <2>1, <3>1 DEF KnownSoon, Opened, Proxied
    <3> QED
      BY ZenonT(30), <2>1, <3>1, <3>2 DEF QueueFresh
  <2> QED
    BY ZenonT(30), <2>2, <2>3
<1> QED
  BY ZenonT(30), <1>21, <1>22, <1>23, <1>25, <1>26, <1>34, <1>35 DEF BrokerInv

-----------------------------------------------------------------------------
(* The broker applies an answer.                                           *)

\* q is the proxy p with an event of k applied as decided.
AppliedTo(p, q, k, value, decision) ==
  /\ q \in ProxyStates /\ q.gen = p.gen /\ q.id = p.id /\ q.epoch = p.epoch /\ q.seq = p.seq
  /\ q.physical = IF value = 0 THEN p.physical \ {k} ELSE p.physical \cup {k}
  /\ q.output = IF value = 0 THEN p.output \ {k} ELSE IF decision = "Pass" THEN p.output \cup {k} ELSE p.output
  /\ q.swallowed = IF value = 0 THEN p.swallowed \ {k}
                   ELSE IF decision = "Swallow" THEN p.swallowed \cup {k} ELSE p.swallowed

\* KeyState::apply on a release, or on the press of a key that was up.
LEMMA AppliedFields ==
  ASSUME NEW p \in ProxyStates, NEW k \in Codes, NEW value \in {0, 1}, NEW decision,
         value = 1 => k \notin p.physical, NEW q, q = Applied(p, k, value, decision)
  PROVE  AppliedTo(p, q, k, value, decision)
<1>1. p.physical \in SUBSET Codes /\ p.output \in SUBSET Codes /\ p.swallowed \in SUBSET Codes
  BY ZenonT(30) DEF ProxyStates
<1>2. PICK physical \in SUBSET Codes :
         physical = IF value = 0 THEN p.physical \ {k} ELSE p.physical \cup {k}
  BY ZenonT(30), <1>1
<1>3. PICK output \in SUBSET Codes :
         output = IF value = 0 THEN p.output \ {k} ELSE IF decision = "Pass" THEN p.output \cup {k} ELSE p.output
  BY ZenonT(30), <1>1
<1>4. PICK swallowed \in SUBSET Codes :
         swallowed = IF value = 0 THEN p.swallowed \ {k}
                     ELSE IF decision = "Swallow" THEN p.swallowed \cup {k} ELSE p.swallowed
  BY ZenonT(30), <1>1
<1>5. q = [p EXCEPT !.physical = physical, !.output = output, !.swallowed = swallowed]
  <2>1. CASE value = 0
    BY ZenonT(30), <1>2, <1>3, <1>4, <2>1 DEF Applied
  <2>2. CASE value # 0
    <3>1. value = 1 /\ k \notin p.physical
      BY ZenonT(30), <2>2
    <3> QED
      BY ZenonT(30), <1>2, <1>3, <1>4, <2>2, <3>1 DEF Applied
  <2> QED
    BY ZenonT(30), <2>1, <2>2
<1>6. q \in ProxyStates
  BY ZenonT(30), <1>5 DEF ProxyStates
<1>7. /\ q.gen = p.gen /\ q.id = p.id /\ q.seq = p.seq /\ q.epoch = p.epoch
      /\ q.physical = physical /\ q.swallowed = swallowed /\ q.output = output
  BY ZenonT(30), <1>5 DEF ProxyStates
<1> QED
  BY ZenonT(30), <1>2, <1>3, <1>4, <1>6, <1>7 DEF AppliedTo

\* Each key of this proxy has one owner.
OneOwner(p) == p.output \cap p.swallowed = {} /\ p.output \cup p.swallowed = p.physical

\* An applied event leaves each key one owner.
LEMMA AppliedOwners ==
  ASSUME NEW p, NEW q, NEW k, NEW value \in {0, 1}, NEW decision \in {"Pass", "Swallow"},
         AppliedTo(p, q, k, value, decision), value = 1 => k \notin p.physical, OneOwner(p)
  PROVE  OneOwner(q)
<1> USE DEF OneOwner
<1>1. /\ q.physical = IF value = 0 THEN p.physical \ {k} ELSE p.physical \cup {k}
      /\ q.output = IF value = 0 THEN p.output \ {k} ELSE IF decision = "Pass" THEN p.output \cup {k} ELSE p.output
      /\ q.swallowed = IF value = 0 THEN p.swallowed \ {k}
                       ELSE IF decision = "Swallow" THEN p.swallowed \cup {k} ELSE p.swallowed
  BY ZenonT(30) DEF AppliedTo
<1>2. CASE value = 0
  BY ZenonT(30), <1>1, <1>2
<1>3. CASE value # 0 /\ decision = "Pass"
  <2>1. q.physical = p.physical \cup {k} /\ q.output = p.output \cup {k} /\ q.swallowed = p.swallowed
    BY ZenonT(30), <1>1, <1>3
  <2>2. k \notin p.swallowed
    BY ZenonT(30), <1>3
  <2> QED
    BY ZenonT(30), <2>1, <2>2
<1>4. CASE value # 0 /\ decision = "Swallow"
  <2>1. q.physical = p.physical \cup {k} /\ q.swallowed = p.swallowed \cup {k} /\ q.output = p.output
    BY ZenonT(30), <1>1, <1>4
  <2>2. k \notin p.output
    BY ZenonT(30), <1>4
  <2> QED
    BY ZenonT(30), <2>1, <2>2
<1> QED
  BY ZenonT(30), <1>2, <1>3, <1>4

\* The answer on the socket, as the invariant has it.
LEMMA OnWire ==
  ASSUME BrokerTypeOK, WireAgrees, pc = "serve", req # None
  PROVE  /\ req \in Message /\ todo \in Seq(TaskSet) /\ todo # <<>> /\ req.port = Port /\ Port \in Ports
         /\ Head(todo) = todo[1] /\ 1 \in 1..Len(todo)
         /\ req.op = "Event" <=> Head(todo).op = "Event"
         /\ req.op = "SnapshotKey" <=> Head(todo).op = "SnapshotKey"
         /\ req.op = "DeviceRetire" <=> Head(todo).op = "DeviceRetire"
         /\ req.op = "DeviceReset" <=> Head(todo).op \in {"Reset", "DeviceReset"}
<1>1. req \in Message /\ todo \in Seq(TaskSet) /\ todo # <<>> /\ req.port = Port
  BY ZenonT(30) DEF WireAgrees, BrokerTypeOK
<1>2. Head(todo) = todo[1] /\ 1 \in 1..Len(todo) /\ Port \in Ports
  BY ZenonT(30), <1>1, TodoHead
<1>3. req.op = IF Head(todo).op = "Reset" THEN "DeviceReset" ELSE Head(todo).op
  BY ZenonT(30) DEF WireAgrees
<1>4. req.op = "Event" <=> Head(todo).op = "Event"
  BY ZenonT(30), <1>3
<1>5. req.op = "SnapshotKey" <=> Head(todo).op = "SnapshotKey"
  BY ZenonT(30), <1>3
<1>6. req.op = "DeviceRetire" <=> Head(todo).op = "DeviceRetire"
  BY ZenonT(30), <1>3
<1>7. req.op = "DeviceReset" <=> Head(todo).op \in {"Reset", "DeviceReset"}
  BY ZenonT(30), <1>3
<1> QED
  BY ZenonT(30), <1>1, <1>2, <1>4, <1>5, <1>6, <1>7

\* A key event's answer is applied to its proxy, as the daemon expects.
LEMMA AnsweredEventInv ==
  ASSUME BrokerInv, Answered, req.op = "Event"
  PROVE  BrokerInv'
<1>1. /\ BrokerTypeOK /\ OneOwnerEach /\ ProxiesApart /\ TodoShape /\ WireAgrees
      /\ DevicesKnown /\ DevicesTracked /\ QueuesFresh
  BY ZenonT(30) DEF BrokerInv
<1>2. /\ pc = "serve" /\ rep # None /\ req # None
      /\ proxies \in [Ports -> ProxyStates] /\ rep \in Answer
  BY ZenonT(30), <1>1 DEF Answered, WireAgrees, BrokerTypeOK
<1>3. /\ pc' = pc /\ generation' = generation /\ client' = client /\ req' = None /\ rep' = None /\ todo' = todo
      /\ kb' = kb /\ allowed' = allowed /\ moves' = moves /\ plugs' = plugs /\ starts' = starts
  BY ZenonT(30) DEF Answered, environment
<1>4. /\ req \in Message /\ todo \in Seq(TaskSet) /\ todo # <<>> /\ req.port = Port /\ Port \in Ports
      /\ Head(todo).op = "Event"
  BY ZenonT(30), <1>1, <1>2, OnWire
<1>5. Proxied(Port) /\ req.key \in Codes
  BY ZenonT(30), <1>1, <1>2 DEF WireAgrees
<1> DEFINE d == Port
           p == proxies[d]
           q == Applied(p, req.key, req.value, rep.op)
<1>6. proxies' = [proxies EXCEPT ![d] = q]
  BY ZenonT(30), <1>4 DEF Answered
<1>7. req.value \in {0, 1} /\ rep.op \in {"Pass", "Swallow"}
  BY ZenonT(30), <1>2, <1>4 DEF Message, Answer
<1>8. Sent(d) /\ QueueFresh(d)
  BY ZenonT(30), <1>1, <1>2, <1>4, <1>5 DEF QueuesFresh, Sent
<1>9. req.value = 1 => req.key \notin p.physical
  BY ZenonT(30), <1>8 DEF QueueFresh
<1>10. p \in ProxyStates
  BY ZenonT(30), <1>2, <1>4
<1>11. AppliedTo(p, q, req.key, req.value, rep.op)
  BY ZenonT(30), <1>5, <1>7, <1>9, <1>10, AppliedFields
<1>12. OneOwner(p)
  BY ZenonT(30), <1>1, <1>4 DEF OneOwnerEach, OneOwner
<1>13. d = Port /\ p = proxies[d] /\ d' = d /\ Soon(d) = q
  BY ZenonT(30), <1>2, <1>3, <1>4 DEF Port, Soon, Answering
<1>14. KnownSoon(d) = q.physical
  BY ZenonT(30), <1>8, <1>11 DEF KnownSoon, AppliedTo
<1> HIDE DEF d, p, q
<1>15. OneOwner(q)
  BY SMTT(30), <1>7, <1>9, <1>11, <1>12, AppliedOwners
<1>16. d \in Ports /\ Proxied(d)
  BY ZenonT(30), <1>4, <1>5, <1>13
<1>17. q \in ProxyStates /\ q.gen = p.gen /\ q.id = p.id /\ q.epoch = p.epoch /\ q.seq = p.seq
  BY ZenonT(30), <1>11 DEF AppliedTo
<1>18. /\ proxies' \in [Ports -> ProxyStates] /\ proxies'[d] = q
       /\ \A e \in Ports : e # d => proxies'[e] = proxies[e]
  BY ZenonT(30), <1>2, <1>6, <1>16, <1>17
<1>19. \A e \in Ports : /\ proxies'[e].gen = proxies[e].gen /\ proxies'[e].id = proxies[e].id
                        /\ proxies'[e].epoch = proxies[e].epoch /\ proxies'[e].seq = proxies[e].seq
  BY ZenonT(30), <1>13, <1>17, <1>18
<1>20. \A e \in Ports : Proxied(e)' <=> Proxied(e)
  BY ZenonT(30), <1>19 DEF Proxied
<1>21. BrokerTypeOK'
  BY ZenonT(30), <1>1, <1>3, <1>18 DEF BrokerTypeOK
<1>22. OneOwnerEach'
  BY ZenonT(30), <1>1, <1>15, <1>18 DEF OneOwnerEach, OneOwner
<1>23. ProxiesApart'
  <2>1. ASSUME NEW e \in Ports, Proxied(e)'
        PROVE  proxies'[e].gen <= generation' /\ proxies'[e].epoch >= 1 /\ proxies'[e].id \in 1..plugs'
    BY ZenonT(30), <1>1, <1>3, <1>19, <1>20, <2>1 DEF ProxiesApart
  <2>2. ASSUME NEW e \in Ports, NEW f \in Ports, Proxied(e)', proxies'[e].gen = proxies'[f].gen PROVE e = f
    BY SMTT(30), <1>1, <1>19, <1>20, <2>2 DEF ProxiesApart
  <2>3. \A e \in Ports : kb'[e].id <= plugs'
    BY ZenonT(30), <1>1, <1>3 DEF ProxiesApart
  <2> QED
    BY ZenonT(30), <2>1, <2>2, <2>3 DEF ProxiesApart
<1>24. \A i \in 1..Len(todo) : /\ todo[i].op \notin {"DeviceRetire", "Reset", "SnapshotKey"}
                               /\ todo[i].op = "DeviceReset" => todo[i].id # 0
  BY ZenonT(30), <1>1, <1>4, PlainTasks
<1>25. TodoShape'
  BY ZenonT(30), <1>3, <1>24 DEF TodoShape
<1>26. WireAgrees' /\ NeverStale' /\ NothingLeftGrabbed'
  BY ZenonT(30), <1>2, <1>3 DEF WireAgrees, NeverStale, NothingLeftGrabbed
<1>27. \A e \in Ports : ~Pending(e) /\ ~Pending(e)'
  BY ZenonT(30), <1>3, <1>4 DEF Pending
<1>28. ASSUME client.pc = "serving" PROVE DevicesKnown' /\ DevicesTracked'
  <2>1. ASSUME NEW e \in Ports, Proxied(e)' PROVE DeviceKnown(e)' /\ DeviceTracked(e)'
    <3>1. Proxied(e) /\ DeviceKnown(e) /\ DeviceTracked(e)
      BY ZenonT(30), <1>1, <1>2, <1>20, <1>28, <2>1 DEF DevicesKnown, DevicesTracked
    <3>2. Soon(e)' = proxies'[e] /\ Snapshots(e)' = Snapshots(e)
      BY ZenonT(30), <1>3 DEF Soon, Answering, Snapshots
    <3>3. Soon(e)' = Soon(e)
      <4>1. CASE e = d
        BY ZenonT(30), <1>13, <1>18, <3>2, <4>1
      <4>2. CASE e # d
        <5>1. Soon(e) = proxies[e]
          BY ZenonT(30), <1>4, <1>13, <4>2 DEF Soon, Answering
        <5> QED
          BY ZenonT(30), <1>18, <3>2, <4>2, <5>1
      <4> QED
        BY ZenonT(30), <4>1, <4>2
    <3>4. DeviceKnown(e)'
      BY ZenonT(30), <1>3, <1>4, <1>19, <1>27, <3>1 DEF DeviceKnown
    <3>5. DeviceTracked(e)'
      BY ZenonT(30), <1>3, <1>19, <1>27, <3>1, <3>2, <3>3 DEF DeviceTracked
    <3> QED
      BY ZenonT(30), <3>4, <3>5
  <2>2. DevicesKnown'
    BY ZenonT(30), <1>1, <1>2, <1>3, <1>28, <2>1 DEF DevicesKnown
  <2>3. DevicesTracked'
    BY ZenonT(30), <2>1 DEF DevicesTracked
  <2> QED
    BY ZenonT(30), <2>2, <2>3
<1>29. DevicesKnown' /\ DevicesTracked'
  BY ZenonT(30), <1>3, <1>28 DEF DevicesKnown, DevicesTracked
<1>30. QueuesFresh'
  <2> SUFFICES ASSUME NEW e \in Ports, Proxied(e)' PROVE QueueFresh(e)'
    BY ZenonT(30) DEF QueuesFresh
  <2>1. Proxied(e) /\ QueueFresh(e) /\ ~Sent(e)'
    BY ZenonT(30), <1>1, <1>3, <1>20 DEF QueuesFresh, Sent
  <2>2. KnownSoon(e)' = KnownSoon(e)
    <3>1. KnownSoon(e)' = proxies'[e].physical
      BY ZenonT(30), <2>1 DEF KnownSoon
    <3>2. CASE e = d
      BY ZenonT(30), <1>14, <1>18, <3>1, <3>2
    <3>3. CASE e # d
      <4>1. ~Sent(e)
        BY ZenonT(30), <1>4, <1>13, <3>3 DEF Sent
      <4> QED
        BY ZenonT(30), <1>18, <3>1, <3>3, <4>1 DEF KnownSoon
    <3> QED
      BY ZenonT(30), <3>2, <3>3
  <2>3. Opened(e)' <=> Opened(e)
    BY ZenonT(30), <1>3, <1>19 DEF Opened, Proxied
  <2> QED
    BY ZenonT(30), <1>3, <2>1, <2>2, <2>3 DEF QueueFresh
<1> QED
  BY ZenonT(30), <1>21, <1>22, <1>23, <1>25, <1>26, <1>29, <1>30 DEF BrokerInv

\* A control is acknowledged: its task is done.
LEMMA AnsweredControlInv ==
  ASSUME BrokerInv, Answered, req.op # "Event"
  PROVE  BrokerInv'
<1>1. /\ BrokerTypeOK /\ OneOwnerEach /\ ProxiesApart /\ TodoShape /\ WireAgrees
      /\ DevicesKnown /\ DevicesTracked /\ QueuesFresh
  BY ZenonT(30) DEF BrokerInv
<1>2. pc = "serve" /\ rep # None /\ req # None
  BY ZenonT(30), <1>1 DEF Answered, WireAgrees
<1>3. /\ pc' = pc /\ generation' = generation /\ client' = client /\ req' = None /\ rep' = None
      /\ todo' = Tail(todo) /\ proxies' = proxies
      /\ kb' = kb /\ allowed' = allowed /\ moves' = moves /\ plugs' = plugs /\ starts' = starts
  BY ZenonT(30) DEF Answered, environment
<1>4. /\ todo \in Seq(TaskSet) /\ todo # <<>> /\ Port \in Ports
      /\ Head(todo) = todo[1] /\ 1 \in 1..Len(todo)
      /\ req.op = "SnapshotKey" <=> Head(todo).op = "SnapshotKey"
  BY ZenonT(30), <1>1, <1>2, OnWire
<1>5. /\ todo' \in Seq(TaskSet)
      /\ \A j \in 1..Len(todo') : j + 1 \in 1..Len(todo) /\ todo'[j] = todo[j + 1] /\ 1 < j + 1
      /\ \A i \in 1..Len(todo) : i # 1 => i - 1 \in 1..Len(todo') /\ todo'[i - 1] = todo[i]
  BY ZenonT(30), <1>3, <1>4, TodoTail
<1>6. BrokerTypeOK'
  BY ZenonT(30), <1>1, <1>3, <1>5 DEF BrokerTypeOK
<1>7. OneOwnerEach'
  BY ZenonT(30), <1>1, <1>3 DEF OneOwnerEach
<1>8. ProxiesApart'
  BY SMTT(30), <1>1, <1>3 DEF ProxiesApart, Proxied
<1>9. WireAgrees' /\ NeverStale' /\ NothingLeftGrabbed'
  BY ZenonT(30), <1>2, <1>3 DEF WireAgrees, NeverStale, NothingLeftGrabbed
<1>10. \A i, j \in 1..Len(todo') : i < j => i + 1 < j + 1
  BY SMTT(30)
<1>11. \A j \in 1..Len(todo') : todo'[j].op # "Reset"
  <2> SUFFICES ASSUME NEW j \in 1..Len(todo'), todo'[j].op = "Reset" PROVE FALSE
    BY ZenonT(30)
  <2>1. PICK i \in 1..Len(todo) : i = j + 1 /\ todo[i].op = "Reset" /\ 1 < i
    BY ZenonT(30), <1>5
  <2>2. i = 1
    BY ZenonT(30), <1>1, <2>1 DEF TodoShape
  <2> QED
    BY SMTT(30), <2>1, <2>2
<1>12. TodoShape'
  <2> SUFFICES ASSUME NEW j \in 1..Len(todo')
               PROVE  /\ todo'[j].op = "DeviceRetire" =>
                            /\ \A i \in 1..Len(todo') :
                                  i < j => todo'[i].op = "DeviceRetire" /\ todo'[i].port # todo'[j].port
                            /\ proxies'[todo'[j].port].gen # 0
                      /\ todo'[j].op = "DeviceReset" => todo'[j].id # 0
                      /\ todo'[j].op \in {"Reset", "SnapshotKey"} =>
                            /\ proxies'[todo'[j].port].gen # 0
                            /\ \A i \in 1..Len(todo') : i < j => todo'[i].op \in {"Reset", "SnapshotKey"}
                                                                 /\ todo'[i].port = todo'[j].port
                      /\ todo'[j].op = "SnapshotKey" => todo'[j].key \in Codes
    BY ZenonT(30), <1>11 DEF TodoShape, Proxied
  <2>1. j + 1 \in 1..Len(todo) /\ todo'[j] = todo[j + 1] /\ 1 < j + 1
    BY ZenonT(30), <1>5
  <2>2. j + 1 > 1
    BY SMTT(30)
  <2>3. ASSUME todo'[j].op = "DeviceRetire"
        PROVE  /\ \A i \in 1..Len(todo') :
                     i < j => todo'[i].op = "DeviceRetire" /\ todo'[i].port # todo'[j].port
               /\ proxies'[todo'[j].port].gen # 0
    <3>1. todo[j + 1].op = "DeviceRetire"
      BY ZenonT(30), <2>1, <2>3
    <3>2. /\ \A i \in 1..Len(todo) :
                i < j + 1 => todo[i].op = "DeviceRetire" /\ todo[i].port # todo[j + 1].port
          /\ Proxied(todo[j + 1].port)
      BY ZenonT(30), <1>1, <2>1, <2>2, <3>1 DEF TodoShape
    <3>3. ASSUME NEW i \in 1..Len(todo'), i < j
          PROVE  todo'[i].op = "DeviceRetire" /\ todo'[i].port # todo'[j].port
      <4>1. i + 1 \in 1..Len(todo) /\ todo'[i] = todo[i + 1] /\ i + 1 < j + 1
        BY ZenonT(30), <1>5, <1>10, <3>3
      <4> QED
        BY ZenonT(30), <2>1, <3>2, <4>1
    <3> QED
      BY ZenonT(30), <1>3, <2>1, <3>2, <3>3 DEF Proxied
  <2>4. ASSUME todo'[j].op = "SnapshotKey"
        PROVE  /\ proxies'[todo'[j].port].gen # 0 /\ todo'[j].key \in Codes
               /\ \A i \in 1..Len(todo') : i < j => todo'[i].op \in {"Reset", "SnapshotKey"}
                                                    /\ todo'[i].port = todo'[j].port
    <3>1. todo[j + 1].op = "SnapshotKey"
      BY ZenonT(30), <2>1, <2>4
    <3>2. /\ Proxied(todo[j + 1].port) /\ todo[j + 1].key \in Codes
          /\ \A i \in 1..Len(todo) : i < j + 1 => todo[i].op \in {"Reset", "SnapshotKey"}
                                                  /\ todo[i].port = todo[j + 1].port
      BY ZenonT(30), <1>1, <2>1, <3>1 DEF TodoShape
    <3>3. ASSUME NEW i \in 1..Len(todo'), i < j
          PROVE  todo'[i].op \in {"Reset", "SnapshotKey"} /\ todo'[i].port = todo'[j].port
      <4>1. i + 1 \in 1..Len(todo) /\ todo'[i] = todo[i + 1] /\ i + 1 < j + 1
        BY ZenonT(30), <1>5, <1>10, <3>3
      <4> QED
        BY ZenonT(30), <2>1, <3>2, <4>1
    <3> QED
      BY ZenonT(30), <1>3, <2>1, <3>2, <3>3 DEF Proxied
  <2>5. todo'[j].op = "DeviceReset" => todo'[j].id # 0
    BY ZenonT(30), <1>1, <2>1 DEF TodoShape
  <2> QED
    BY ZenonT(30), <1>11, <2>3, <2>4, <2>5
<1>13. \A e \in Ports : ~Pending(e)
  BY ZenonT(30), <1>2 DEF Pending
<1>14. \A e \in Ports : ~Pending(e)'
  <2>1. ASSUME todo' # <<>> PROVE Head(todo') = todo'[1] /\ 1 \in 1..Len(todo')
    BY SMTT(30), <1>5, <2>1
  <2> QED
    BY ZenonT(30), <1>3, <1>11, <2>1 DEF Pending
<1>15. ASSUME NEW e \in Ports PROVE Snapshots(e)' \subseteq Snapshots(e)
  <2> SUFFICES ASSUME NEW x \in Snapshots(e)' PROVE x \in Snapshots(e)
    BY ZenonT(30)
  <2>1. PICK j \in 1..Len(todo') : todo'[j].op = "SnapshotKey" /\ todo'[j].port = e /\ x = todo'[j].key
    BY ZenonT(30) DEF Snapshots
  <2>2. j + 1 \in 1..Len(todo) /\ todo'[j] = todo[j + 1]
    BY ZenonT(30), <1>5
  <2> QED
    BY ZenonT(30), <2>1, <2>2 DEF Snapshots
<1>16. ASSUME NEW e \in Ports, NEW x \in Snapshots(e)
       PROVE  x \in Snapshots(e)' \/ (Head(todo).op = "SnapshotKey" /\ Port = e /\ x = Head(todo).key)
  <2>1. PICK i \in 1..Len(todo) : todo[i].op = "SnapshotKey" /\ todo[i].port = e /\ x = todo[i].key
    BY ZenonT(30), <1>16 DEF Snapshots
  <2>2. CASE i = 1
    BY ZenonT(30), <1>4, <2>1, <2>2 DEF Port
  <2>3. CASE i # 1
    <3>1. i - 1 \in 1..Len(todo') /\ todo'[i - 1] = todo[i]
      BY ZenonT(30), <1>5, <2>3
    <3>2. x \in Snapshots(e)'
      BY ZenonT(30), <2>1, <3>1 DEF Snapshots
    <3> QED
      BY ZenonT(30), <3>2
  <2> QED
    BY ZenonT(30), <2>2, <2>3
<1>17. ASSUME client.pc = "serving" PROVE DevicesKnown' /\ DevicesTracked'
  <2>1. ASSUME NEW e \in Ports, Proxied(e)' PROVE DeviceKnown(e)' /\ DeviceTracked(e)'
    <3> DEFINE dev == client.dev[proxies[e].gen]
    <3>1. Proxied(e) /\ DeviceKnown(e) /\ DeviceTracked(e)
      BY ZenonT(30), <1>1, <1>2, <1>3, <1>17, <2>1 DEF DevicesKnown, DevicesTracked, Proxied
    <3>2. Soon(e) = proxies[e] /\ Soon(e)' = proxies'[e]
      BY ZenonT(30), <1>3 DEF Soon, Answering
    <3>3. dev.epoch # 0
      <4>1. proxies[e].epoch >= 1 /\ proxies[e].epoch \in Nat
        BY ZenonT(30), <1>1, <3>1, DeviceTyped DEF ProxiesApart
      <4>2. proxies[e].epoch # 0
        BY SMTT(30), <4>1
      <4> QED
        BY ZenonT(30), <1>13, <3>1, <4>2 DEF DeviceKnown
    <3>4. DeviceKnown(e)'
      BY ZenonT(30), <1>3, <1>13, <3>1, <3>3 DEF DeviceKnown
    <3>5. /\ dev.physical \cup Snapshots(e) = proxies[e].physical
          /\ dev.swallowed \subseteq proxies[e].swallowed
          /\ req.op = "SnapshotKey" /\ Port = e => req.key \in dev.physical
      BY ZenonT(30), <1>2, <1>13, <3>1, <3>2 DEF DeviceTracked
    <3>6. Head(todo).op = "SnapshotKey" /\ Port = e => Head(todo).key \in dev.physical
      <4>1. req.op = "SnapshotKey" => req.key = Head(todo).key
        BY ZenonT(30), <1>1, <1>2 DEF WireAgrees
      <4> QED
        BY ZenonT(30), <1>4, <3>5, <4>1
    <3> HIDE DEF dev
    <3>7. dev.physical \cup Snapshots(e)' = proxies[e].physical
      BY ZenonT(30), <1>15, <1>16, <3>5, <3>6
    <3>8. DeviceTracked(e)'
      BY ZenonT(30), <1>3, <1>14, <3>2, <3>5, <3>7 DEF DeviceTracked, dev
    <3> QED
      BY ZenonT(30), <3>4, <3>8
  <2>2. DevicesKnown'
    BY ZenonT(30), <1>1, <1>2, <1>3, <1>17, <2>1 DEF DevicesKnown
  <2>3. DevicesTracked'
    BY ZenonT(30), <2>1 DEF DevicesTracked
  <2> QED
    BY ZenonT(30), <2>2, <2>3
<1>18. DevicesKnown' /\ DevicesTracked'
  BY ZenonT(30), <1>3, <1>17 DEF DevicesKnown, DevicesTracked
<1>19. QueuesFresh'
  <2> SUFFICES ASSUME NEW e \in Ports, Proxied(e)' PROVE QueueFresh(e)'
    BY ZenonT(30) DEF QueuesFresh
  <2>1. Proxied(e) /\ QueueFresh(e) /\ ~Sent(e)' /\ ~Sent(e)
    BY ZenonT(30), <1>1, <1>3 DEF QueuesFresh, Sent, Proxied
  <2>2. KnownSoon(e)' = KnownSoon(e) /\ (Opened(e)' <=> Opened(e))
    BY ZenonT(30), <1>3, <2>1 DEF KnownSoon, Opened, Proxied
  <2> QED
    BY ZenonT(30), <1>3, <2>1, <2>2 DEF QueueFresh
<1> QED
  BY ZenonT(30), <1>6, <1>7, <1>8, <1>9, <1>12, <1>18, <1>19 DEF BrokerInv

-----------------------------------------------------------------------------
(* The daemon answers.                                                     *)

\* What validate and dispatch make of a device, by the message.
DeviceAfter(dev, h, m) ==
  /\ h.dev \in Devices /\ h.op \in {"Pass", "Swallow"} /\ (m.op # "Event" => h.op = "Pass")
  /\ m.op # "DeviceRetire" => h.dev.epoch = dev.epoch /\ h.dev.seq = dev.seq
  /\ m.op = "DeviceReset" => h.dev.physical = {} /\ h.dev.swallowed = {}
  /\ m.op = "SnapshotKey" => h.dev.physical = dev.physical \cup {m.key} /\ h.dev.swallowed = dev.swallowed
  /\ m.op = "Event" =>
        /\ h.dev.physical = IF m.value = 0 THEN dev.physical \ {m.key} ELSE dev.physical \cup {m.key}
        /\ h.dev.swallowed = IF m.value = 0 \/ h.op = "Pass" THEN dev.swallowed \ {m.key}
                             ELSE dev.swallowed \cup {m.key}

\* c is the device dev with these keys.
DeviceIs(dev, c, physical, swallowed) ==
  /\ c \in Devices /\ c.epoch = dev.epoch /\ c.seq = dev.seq
  /\ c.physical = physical /\ c.swallowed = swallowed

\* A device with other keys.
LEMMA DeviceSet ==
  ASSUME NEW dev \in Devices, NEW physical \in SUBSET Codes, NEW swallowed \in SUBSET Codes, NEW c,
         c = [dev EXCEPT !.physical = physical, !.swallowed = swallowed]
  PROVE  DeviceIs(dev, c, physical, swallowed)
<1>1. c \in Devices
  BY ZenonT(30) DEF Devices
<1>2. c.epoch = dev.epoch /\ c.seq = dev.seq /\ c.physical = physical /\ c.swallowed = swallowed
  BY ZenonT(30) DEF Devices
<1> QED
  BY ZenonT(30), <1>1, <1>2 DEF DeviceIs

\* serve, by the message.
LEMMA HandledFields ==
  ASSUME NEW dev \in Devices, NEW m \in Message, m.op \in {"SnapshotKey", "Event"} => m.key \in Codes,
         NEW h \in Handled(dev, m)
  PROVE  DeviceAfter(dev, h, m)
<1>1. dev.physical \in SUBSET Codes /\ dev.swallowed \in SUBSET Codes
  BY ZenonT(30) DEF Devices
<1>2. m.op \in {"DeviceReset", "DeviceRetire", "SnapshotKey", "Event"}
  BY ZenonT(30) DEF Message
<1>3. CASE m.op = "DeviceReset"
  <2>1. PICK c : h = [dev |-> c, op |-> "Pass"] /\ c = [dev EXCEPT !.physical = {}, !.swallowed = {}]
    BY ZenonT(30), <1>3 DEF Handled
  <2>2. h.dev = c /\ h.op = "Pass" /\ {} \in SUBSET Codes
    BY ZenonT(30), <2>1
  <2>3. DeviceIs(dev, c, {}, {})
    BY ZenonT(30), <2>1, <2>2, DeviceSet
  <2> QED
    BY ZenonT(30), <1>3, <2>2, <2>3 DEF DeviceAfter, DeviceIs
<1>4. CASE m.op = "DeviceRetire"
  <2>1. h = [dev |-> NoDevice, op |-> "Pass"]
    BY ZenonT(30), <1>4 DEF Handled
  <2>2. h.dev = NoDevice /\ h.op = "Pass"
    BY ZenonT(30), <2>1
  <2>3. NoDevice \in Devices
    BY SMTT(30) DEF NoDevice, Devices
  <2> QED
    BY ZenonT(30), <1>4, <2>2, <2>3 DEF DeviceAfter
<1>5. CASE m.op = "SnapshotKey"
  <2>1. PICK c : h = [dev |-> c, op |-> "Pass"] /\ c = [dev EXCEPT !.physical = @ \cup {m.key}]
    BY ZenonT(30), <1>5 DEF Handled
  <2>2. h.dev = c /\ h.op = "Pass"
    BY ZenonT(30), <2>1
  <2>3. PICK physical \in SUBSET Codes : physical = dev.physical \cup {m.key}
    BY ZenonT(30), <1>1, <1>5
  <2>4. c = [dev EXCEPT !.physical = physical]
    BY ZenonT(30), <2>1, <2>3
  <2>5. c \in Devices
    BY ZenonT(30), <2>4 DEF Devices
  <2>6. c.epoch = dev.epoch /\ c.seq = dev.seq /\ c.physical = physical /\ c.swallowed = dev.swallowed
    BY ZenonT(30), <2>4 DEF Devices
  <2> QED
    BY ZenonT(30), <1>5, <2>2, <2>3, <2>5, <2>6 DEF DeviceAfter
<1>6. CASE m.op = "Event"
  <2>1. PICK v \in Verdicts(dev, m) : h = [dev |-> Dispatched(dev, m, v), op |-> v]
    BY ZenonT(30), <1>6 DEF Handled
  <2>2. h.dev = Dispatched(dev, m, v) /\ h.op = v /\ v \in {"Pass", "Swallow"}
    BY ZenonT(30), <2>1 DEF Verdicts
  <2>3. PICK physical \in SUBSET Codes :
           physical = IF m.value = 0 THEN dev.physical \ {m.key} ELSE dev.physical \cup {m.key}
    BY ZenonT(30), <1>1, <1>6
  <2>4. PICK swallowed \in SUBSET Codes :
           swallowed = IF m.value = 0 \/ v = "Pass" THEN dev.swallowed \ {m.key} ELSE dev.swallowed \cup {m.key}
    BY ZenonT(30), <1>1, <1>6
  <2>5. h.dev = [dev EXCEPT !.physical = physical, !.swallowed = swallowed]
    BY ZenonT(30), <2>2, <2>3, <2>4 DEF Dispatched
  <2>6. DeviceIs(dev, h.dev, physical, swallowed)
    BY ZenonT(30), <2>5, DeviceSet
  <2> QED
    BY ZenonT(30), <1>6, <2>2, <2>3, <2>4, <2>6 DEF DeviceAfter, DeviceIs
<1> QED
  BY ZenonT(30), <1>2, <1>3, <1>4, <1>5, <1>6

\* validate, of a message of the device's own epoch and of a new one.
LEMMA ValidatedFields ==
  ASSUME NEW m \in Message, client.dev[m.gen] \in Devices
  PROVE  /\ Validated(m) \in Devices /\ Validated(m).epoch = m.epoch /\ Validated(m).seq = m.seq
         /\ client.dev[m.gen].epoch = m.epoch =>
               /\ Validated(m).physical = client.dev[m.gen].physical
               /\ Validated(m).swallowed = client.dev[m.gen].swallowed
<1> DEFINE dev == client.dev[m.gen]
           moved == dev.epoch \notin {0, m.epoch}
           physical == IF moved THEN {} ELSE dev.physical
           swallowed == IF moved THEN {} ELSE dev.swallowed
<1>1. m.epoch \in Nat /\ m.seq \in Nat
  BY ZenonT(30) DEF Message
<1>2. physical \in SUBSET Codes /\ swallowed \in SUBSET Codes
  BY ZenonT(30) DEF Devices
<1>3. dev.epoch = m.epoch => physical = dev.physical /\ swallowed = dev.swallowed
  BY ZenonT(30)
<1>4. Validated(m) = [physical |-> physical, epoch |-> m.epoch, seq |-> m.seq, swallowed |-> swallowed]
  BY ZenonT(30) DEF Validated
<1> HIDE DEF physical, swallowed
<1>5. ASSUME NEW c, c = [physical |-> physical, epoch |-> m.epoch, seq |-> m.seq, swallowed |-> swallowed]
      PROVE  /\ c \in Devices /\ c.epoch = m.epoch /\ c.seq = m.seq
             /\ c.physical = physical /\ c.swallowed = swallowed
  <2>1. c \in Devices
    BY SMTT(30), <1>1, <1>2, <1>5 DEF Devices
  <2>2. c.epoch = m.epoch /\ c.seq = m.seq /\ c.physical = physical /\ c.swallowed = swallowed
    BY ZenonT(30), <1>5
  <2> QED
    BY ZenonT(30), <2>1, <2>2
<1>6. PICK c : c = Validated(m) /\ c = [physical |-> physical, epoch |-> m.epoch, seq |-> m.seq, swallowed |-> swallowed]
  BY ZenonT(30), <1>4
<1>7. c \in Devices /\ c.epoch = m.epoch /\ c.seq = m.seq /\ c.physical = physical /\ c.swallowed = swallowed
  BY ZenonT(30), <1>5, <1>6
<1> QED
  BY ZenonT(30), <1>3, <1>6, <1>7

\* The daemon after a message of generation g was served.
Served(c, g, dev) ==
  /\ c \in [pc : {"serving", "ended"}, highest : Nat, dev : [Gens -> Devices]]
  /\ c.pc = client.pc /\ c.highest = (IF g > client.highest THEN g ELSE client.highest)
  /\ c.dev[g] = dev /\ \A h \in Gens : h # g => c.dev[h] = client.dev[h]

\* serve stores the device it changed.
LEMMA ServedFields ==
  ASSUME client \in [pc : {"serving", "ended"}, highest : Nat, dev : [Gens -> Devices]],
         NEW g \in Gens, NEW dev \in Devices, NEW c,
         c = [client EXCEPT !.highest = IF g > @ THEN g ELSE @, !.dev[g] = dev]
  PROVE  Served(c, g, dev)
<1>1. g \in Nat
  BY SMTT(30), BrokerAssumption DEF Gens
<1>2. client.highest \in Nat /\ client.dev \in [Gens -> Devices]
  BY ZenonT(30)
<1>3. PICK highest \in Nat : highest = IF g > client.highest THEN g ELSE client.highest
  BY ZenonT(30), <1>1, <1>2
<1>4. PICK devs \in [Gens -> Devices] : devs = [client.dev EXCEPT ![g] = dev]
  BY ZenonT(30), <1>2
<1>5. c = [client EXCEPT !.highest = highest, !.dev = devs]
  BY SMTT(30), <1>3, <1>4
<1>6. c \in [pc : {"serving", "ended"}, highest : Nat, dev : [Gens -> Devices]]
  BY ZenonT(30), <1>5
<1>7. c.pc = client.pc /\ c.highest = highest /\ c.dev = devs
  BY ZenonT(30), <1>5
<1>8. devs[g] = dev /\ \A h \in Gens : h # g => devs[h] = client.dev[h]
  BY ZenonT(30), <1>2, <1>4
<1> QED
  BY ZenonT(30), <1>3, <1>6, <1>7, <1>8 DEF Served

\* A message that is not stale is applied to its device, and the broker will agree.
LEMMA ServeInv ==
  ASSUME BrokerInv, client.pc = "serving", req # None, rep = None, pc = "serve",
         NEW h \in Handled(Validated(req), req), NEW c, Served(c, req.gen, h.dev), client' = c,
         rep' = [req |-> req, op |-> h.op], req' = req,
         UNCHANGED <<pc, todo, proxies, generation, environment>>
  PROVE  BrokerInv'
<1>1. /\ BrokerTypeOK /\ NothingLeftGrabbed /\ OneOwnerEach /\ ProxiesApart /\ TodoShape /\ WireAgrees
      /\ DevicesKnown /\ DevicesTracked /\ QueuesFresh
  BY ZenonT(30) DEF BrokerInv
<1>2. /\ pc' = pc /\ todo' = todo /\ proxies' = proxies /\ generation' = generation
      /\ kb' = kb /\ allowed' = allowed /\ moves' = moves /\ plugs' = plugs /\ starts' = starts
  BY ZenonT(30) DEF environment
<1>3. /\ req \in Message /\ todo \in Seq(TaskSet) /\ todo # <<>> /\ req.port = Port /\ Port \in Ports
      /\ Head(todo) = todo[1] /\ 1 \in 1..Len(todo)
      /\ req.op = "Event" <=> Head(todo).op = "Event"
      /\ req.op = "SnapshotKey" <=> Head(todo).op = "SnapshotKey"
      /\ req.op = "DeviceRetire" <=> Head(todo).op = "DeviceRetire"
      /\ req.op = "DeviceReset" <=> Head(todo).op \in {"Reset", "DeviceReset"}
  BY ZenonT(30), <1>1, OnWire
<1>4. /\ req.op = "DeviceRetire" => /\ ~Proxied(Port) /\ req.gen <= generation
                                    /\ \A d \in Ports : proxies[d].gen # req.gen
      /\ req.op # "DeviceRetire" => /\ Proxied(Port) /\ req.gen = proxies[Port].gen
                                    /\ req.epoch = proxies[Port].epoch /\ req.seq = proxies[Port].seq
      /\ req.op = "SnapshotKey" => req.key = Head(todo).key
      /\ req.op = "Event" => req.key \in Codes
  BY ZenonT(30), <1>1 DEF WireAgrees
<1>5. req.op = "SnapshotKey" => Head(todo).key \in Codes
  BY ZenonT(30), <1>1, <1>3 DEF TodoShape
<1>6. req.gen \in Gens /\ client.dev[req.gen] \in Devices
  <2>1. req.gen \in Gens
    BY ZenonT(30), <1>3 DEF Message
  <2> QED
    BY ZenonT(30), <1>1, <2>1 DEF BrokerTypeOK
<1> DEFINE dev == client.dev[req.gen]
           val == Validated(req)
<1>7. /\ val \in Devices /\ val.epoch = req.epoch /\ val.seq = req.seq
      /\ dev.epoch = req.epoch => val.physical = dev.physical /\ val.swallowed = dev.swallowed
  BY ZenonT(30), <1>3, <1>6, ValidatedFields
<1> HIDE DEF val
<1>8. DeviceAfter(val, h, req)
  <2>1. req.op \in {"SnapshotKey", "Event"} => req.key \in Codes
    BY ZenonT(30), <1>4, <1>5
  <2>2. h \in Handled(val, req)
    BY ZenonT(30) DEF val
  <2> QED
    BY ZenonT(30), <1>3, <1>7, <2>1, <2>2, HandledFields
<1> DEFINE new == h.dev
<1>9. /\ new \in Devices /\ h.op \in {"Pass", "Swallow"} /\ (req.op # "Event" => h.op = "Pass")
      /\ req.op # "DeviceRetire" => new.epoch = req.epoch /\ new.seq = req.seq
  BY ZenonT(30), <1>7, <1>8 DEF DeviceAfter
<1>10. rep' \in Answer /\ rep' # None /\ rep'.req = req /\ rep'.op = h.op
  <2>1. rep' \in Answer
    BY ZenonT(30), <1>3, <1>9 DEF Answer
  <2> QED
    BY ZenonT(30), <2>1, BrokerAssumption
<1>11. /\ client' \in [pc : {"serving", "ended"}, highest : Nat, dev : [Gens -> Devices]]
       /\ client'.pc = "serving" /\ client'.highest = IF req.gen > client.highest THEN req.gen ELSE client.highest
       /\ client'.dev[req.gen] = new /\ \A g \in Gens : g # req.gen => client'.dev[g] = client.dev[g]
  BY ZenonT(30) DEF Served
<1> HIDE DEF new
<1>12. BrokerTypeOK'
  BY ZenonT(30), <1>1, <1>2, <1>10, <1>11 DEF BrokerTypeOK
<1>13. NeverStale' /\ NothingLeftGrabbed'
  BY ZenonT(30), <1>2, <1>10 DEF NeverStale, NothingLeftGrabbed
<1>14. OneOwnerEach'
  BY ZenonT(30), <1>1, <1>2 DEF OneOwnerEach
<1>15. ProxiesApart'
  BY SMTT(30), <1>1, <1>2 DEF ProxiesApart, Proxied
<1>16. TodoShape'
  BY SMTT(30), <1>1, <1>2 DEF TodoShape, Proxied
<1>17. WireAgrees'
  <2>1. rep' # None => pc' = "serve" /\ req' # None /\ rep'.req = req' /\ (req'.op # "Event" => rep'.op = "Pass")
    BY ZenonT(30), <1>2, <1>9, <1>10
  <2> QED
    BY ZenonT(30), <1>1, <1>2, <2>1 DEF WireAgrees, Proxied, Port
<1>18. QueuesFresh'
  BY ZenonT(30), <1>1, <1>2 DEF QueuesFresh, QueueFresh, Proxied, Sent, Opened, KnownSoon
<1>19. \A e \in Ports : ~Pending(e)' /\ Snapshots(e)' = Snapshots(e)
  BY ZenonT(30), <1>2, <1>10 DEF Pending, Snapshots
<1>20. ASSUME NEW e \in Ports, Proxied(e), proxies[e].gen # req.gen
       PROVE  /\ ~Pending(e) /\ client'.dev[proxies[e].gen] = client.dev[proxies[e].gen]
              /\ ~(req.op \in {"Event", "SnapshotKey"} /\ Port = e)
  <2>1. Port = e => req.op = "DeviceRetire"
    BY ZenonT(30), <1>4, <1>20
  <2>2. proxies[e].gen \in Gens
    BY ZenonT(30), <1>1, <1>20, DeviceTyped
  <2> QED
    BY ZenonT(30), <1>3, <1>11, <1>20, <2>1, <2>2 DEF Pending
<1>21. ASSUME NEW e \in Ports, Proxied(e), proxies[e].gen = req.gen
       PROVE  e = Port /\ req.op # "DeviceRetire"
  <2>1. req.op # "DeviceRetire"
    BY ZenonT(30), <1>4, <1>21
  <2> QED
    BY ZenonT(30), <1>1, <1>3, <1>4, <1>21, <2>1 DEF ProxiesApart
<1>22. ASSUME NEW e \in Ports, Proxied(e) PROVE proxies[e].epoch # 0
  <2>1. proxies[e].epoch >= 1 /\ proxies[e].epoch \in Nat
    BY ZenonT(30), <1>1, <1>22, DeviceTyped DEF ProxiesApart
  <2> QED
    BY SMTT(30), <2>1
<1>23. ASSUME NEW e \in Ports, Proxied(e) PROVE DeviceKnown(e)'
  <2>1. DeviceKnown(e)
    BY ZenonT(30), <1>1, <1>23 DEF DevicesKnown
  <2>2. CASE proxies[e].gen = req.gen
    <3>1. e = Port /\ req.op # "DeviceRetire"
      BY ZenonT(30), <1>21, <1>23, <2>2
    <3>2. new.epoch = proxies[e].epoch /\ new.seq = proxies[e].seq
      BY ZenonT(30), <1>4, <1>9, <3>1
    <3>3. proxies[e].seq <= proxies[e].seq /\ proxies[e].epoch <= proxies[e].epoch
      <4>1. proxies[e].seq \in Nat /\ proxies[e].epoch \in Nat
        BY ZenonT(30), <1>1, <1>23, DeviceTyped
      <4> QED
        BY SMTT(30), <4>1
    <3>4. client'.dev[proxies'[e].gen] = new /\ proxies'[e] = proxies[e]
      BY ZenonT(30), <1>2, <1>11, <2>2
    <3> QED
      BY ZenonT(30), <1>22, <1>23, <3>2, <3>3, <3>4 DEF DeviceKnown
  <2>3. CASE proxies[e].gen # req.gen
    <3>1. ~Pending(e) /\ client'.dev[proxies'[e].gen] = client.dev[proxies[e].gen]
      BY ZenonT(30), <1>2, <1>20, <1>23, <2>3
    <3>2. client.dev[proxies[e].gen].epoch # 0
      BY ZenonT(30), <1>22, <1>23, <2>1, <3>1 DEF DeviceKnown
    <3> QED
      BY ZenonT(30), <1>2, <2>1, <3>1, <3>2 DEF DeviceKnown
  <2> QED
    BY ZenonT(30), <2>2, <2>3
<1>24. DevicesKnown'
  <2>1. client.highest \in Nat /\ generation \in 0..MaxReplugs + 1 /\ client.highest <= generation
    BY ZenonT(30), <1>1 DEF BrokerTypeOK, DevicesKnown
  <2>2. req.gen <= generation
    BY ZenonT(30), <1>1, <1>3, <1>4 DEF ProxiesApart
  <2>3. client'.highest <= generation'
    BY ZenonT(30), <1>2, <1>11, <2>1, <2>2
  <2>4. \A n \in Gens : n > client'.highest => n # req.gen /\ n > client.highest
    <3>1. Gens \subseteq Nat
      BY SMTT(30), BrokerAssumption DEF Gens
    <3>2. PICK g \in Nat : g = req.gen
      BY ZenonT(30), <1>6, <3>1
    <3>3. PICK top \in Nat : top = client.highest
      BY ZenonT(30), <2>1
    <3>4. client'.highest = IF g > top THEN g ELSE top
      BY ZenonT(30), <1>11, <3>2, <3>3
    <3>5. \A n \in Nat : n > (IF g > top THEN g ELSE top) => n # g /\ n > top
      BY SMTT(30)
    <3> QED
      BY ZenonT(30), <3>1, <3>2, <3>3, <3>4, <3>5
  <2>5. \A n \in Gens : n > client'.highest => client'.dev[n].epoch = 0 /\ client'.dev[n].seq = 0
    BY ZenonT(30), <1>1, <1>11, <2>4 DEF DevicesKnown
  <2> QED
    BY ZenonT(30), <1>2, <1>23, <2>3, <2>5 DEF DevicesKnown, Proxied
<1>25. ASSUME NEW e \in Ports, Proxied(e), proxies[e].gen # req.gen PROVE DeviceTracked(e)'
  <2>1. DeviceTracked(e)
    BY ZenonT(30), <1>1, <1>25 DEF DevicesTracked
  <2>2. /\ ~Pending(e) /\ client'.dev[proxies'[e].gen] = client.dev[proxies[e].gen]
        /\ ~(req.op \in {"Event", "SnapshotKey"} /\ Port = e)
    BY ZenonT(30), <1>2, <1>20, <1>25
  <2>3. Soon(e) = proxies[e] /\ Soon(e)' = proxies[e]
    BY ZenonT(30), <1>2, <1>3, <2>2 DEF Soon, Answering
  <2>4. Port' = Port
    BY ZenonT(30), <1>2 DEF Port
  <2> QED
    BY ZenonT(30), <1>19, <2>1, <2>2, <2>3, <2>4 DEF DeviceTracked
<1>26. ASSUME req.op # "DeviceRetire"
       PROVE  /\ new.physical \cup Snapshots(Port) = Soon(Port)'.physical
              /\ new.swallowed \subseteq Soon(Port)'.swallowed
              /\ req.op = "SnapshotKey" => req.key \in new.physical
  <2>1. Proxied(Port) /\ DeviceTracked(Port) /\ DeviceKnown(Port) /\ dev = client.dev[proxies[Port].gen]
    BY ZenonT(30), <1>1, <1>3, <1>4, <1>26 DEF DevicesTracked, DevicesKnown
  <2>2. Port' = Port
    BY ZenonT(30), <1>2 DEF Port
  <2>3. ~Pending(Port) => /\ dev.epoch = req.epoch
                          /\ dev.physical \cup Snapshots(Port) = proxies[Port].physical
                          /\ dev.swallowed \subseteq proxies[Port].swallowed
    <3>1. Soon(Port) = proxies[Port]
      BY ZenonT(30) DEF Soon, Answering
    <3> QED
      BY ZenonT(30), <1>4, <1>26, <2>1, <3>1 DEF DeviceTracked, DeviceKnown
  <2> HIDE DEF dev
  <2>4. CASE req.op = "DeviceReset"
    <3>1. Pending(Port)
      BY ZenonT(30), <1>3, <2>4 DEF Pending
    <3>2. Snapshots(Port) = proxies[Port].physical
      BY ZenonT(30), <2>1, <3>1 DEF DeviceTracked
    <3>3. Soon(Port)' = proxies[Port]
      BY ZenonT(30), <1>2, <2>2, <2>4 DEF Soon, Answering
    <3>4. new.physical = {} /\ new.swallowed = {}
      BY ZenonT(30), <1>8, <2>4 DEF DeviceAfter, new
    <3> QED
      BY ZenonT(30), <2>4, <3>2, <3>3, <3>4
  <2>5. CASE req.op = "SnapshotKey"
    <3>1. ~Pending(Port)
      BY ZenonT(30), <1>3, <2>5 DEF Pending
    <3>2. Soon(Port)' = proxies[Port]
      BY ZenonT(30), <1>2, <2>2, <2>5 DEF Soon, Answering
    <3>3. new.physical = dev.physical \cup {req.key} /\ new.swallowed = dev.swallowed
      BY ZenonT(30), <1>7, <1>8, <2>3, <2>5, <3>1 DEF DeviceAfter, new, dev
    <3>4. req.key \in Snapshots(Port)
      BY ZenonT(30), <1>3, <1>4, <2>5 DEF Snapshots, Port
    <3> QED
      BY ZenonT(30), <2>3, <3>1, <3>2, <3>3, <3>4
  <2>6. CASE req.op = "Event"
    <3>1. ~Pending(Port)
      BY ZenonT(30), <1>3, <2>6 DEF Pending
    <3>2. Snapshots(Port) = {}
      <4>1. \A i \in 1..Len(todo) : todo[i].op \notin {"DeviceRetire", "Reset", "SnapshotKey"}
        BY ZenonT(30), <1>1, <1>3, <2>6, PlainTasks
      <4> QED
        BY ZenonT(30), <4>1, NoSnapshots
    <3>3. dev.physical = proxies[Port].physical /\ dev.swallowed \subseteq proxies[Port].swallowed
      BY ZenonT(30), <2>3, <3>1, <3>2
    <3>4. /\ new.physical = IF req.value = 0 THEN dev.physical \ {req.key} ELSE dev.physical \cup {req.key}
          /\ new.swallowed = IF req.value = 0 \/ h.op = "Pass" THEN dev.swallowed \ {req.key}
                             ELSE dev.swallowed \cup {req.key}
      BY ZenonT(30), <1>7, <1>8, <2>3, <2>6, <3>1 DEF DeviceAfter, new, dev
    <3>5. Soon(Port)' = Applied(proxies[Port], req.key, req.value, h.op)
      BY ZenonT(30), <1>2, <1>3, <1>10, <2>2, <2>6 DEF Soon, Answering
    <3>6. req.value \in {0, 1} /\ proxies[Port] \in ProxyStates /\ req.key \in Codes
      BY ZenonT(30), <1>1, <1>3, <1>4, <2>1, <2>6, DeviceTyped DEF Message
    <3>7. req.value = 1 => req.key \notin proxies[Port].physical
      BY ZenonT(30), <1>1, <1>3, <2>1, <2>6 DEF QueuesFresh, QueueFresh, Sent
    <3>8. PICK q : q = Soon(Port)' /\ AppliedTo(proxies[Port], q, req.key, req.value, h.op)
      BY ZenonT(30), <3>5, <3>6, <3>7, AppliedFields
    <3>9. /\ q.physical = IF req.value = 0 THEN proxies[Port].physical \ {req.key}
                          ELSE proxies[Port].physical \cup {req.key}
          /\ q.swallowed = IF req.value = 0 THEN proxies[Port].swallowed \ {req.key}
                           ELSE IF h.op = "Swallow" THEN proxies[Port].swallowed \cup {req.key}
                           ELSE proxies[Port].swallowed
      BY ZenonT(30), <3>8 DEF AppliedTo
    <3>10. new.physical \cup Snapshots(Port) = q.physical
      BY ZenonT(30), <3>2, <3>3, <3>4, <3>9
    <3>11. new.swallowed \subseteq q.swallowed
      <4>1. CASE req.value = 0
        BY ZenonT(30), <3>3, <3>4, <3>9, <4>1
      <4>2. CASE req.value # 0 /\ h.op = "Pass"
        BY ZenonT(30), <3>3, <3>4, <3>9, <4>2
      <4>3. CASE req.value # 0 /\ h.op = "Swallow"
        BY ZenonT(30), <3>3, <3>4, <3>9, <4>3
      <4> QED
        BY ZenonT(30), <1>9, <4>1, <4>2, <4>3
    <3> QED
      BY ZenonT(30), <2>6, <3>8, <3>10, <3>11
  <2>7. req.op \in {"DeviceReset", "DeviceRetire", "SnapshotKey", "Event"}
    BY ZenonT(30), <1>3 DEF Message
  <2> QED
    BY ZenonT(30), <1>26, <2>4, <2>5, <2>6, <2>7
<1>27. ASSUME NEW e \in Ports, Proxied(e), proxies[e].gen = req.gen PROVE DeviceTracked(e)'
  <2>1. e = Port /\ req.op # "DeviceRetire"
    BY ZenonT(30), <1>21, <1>27
  <2>2. client'.dev[proxies'[e].gen] = new
    BY ZenonT(30), <1>2, <1>11, <1>27
  <2>3. Port' = Port
    BY ZenonT(30), <1>2 DEF Port
  <2>4. new.physical \cup Snapshots(e)' = Soon(e)'.physical /\ new.swallowed \subseteq Soon(e)'.swallowed
    BY ZenonT(30), <1>19, <1>26, <2>1, <2>3
  <2>5. req'.op = "SnapshotKey" => req'.key \in new.physical
    BY ZenonT(30), <1>26, <2>1
  <2> QED
    BY ZenonT(30), <1>19, <2>2, <2>4, <2>5 DEF DeviceTracked
<1>28. DevicesTracked'
  BY ZenonT(30), <1>2, <1>25, <1>27 DEF DevicesTracked, Proxied
<1> QED
  BY ZenonT(30), <1>12, <1>13, <1>14, <1>15, <1>16, <1>17, <1>18, <1>24, <1>28 DEF BrokerInv

\* serve on a message: it is applied, or, stale or nobody's, ends the daemon.
LEMMA HandleInv ==
  ASSUME BrokerInv, Handle
  PROVE  BrokerInv'
<1>1. /\ client.pc = "serving" /\ req # None /\ rep = None
      /\ UNCHANGED <<pc, todo, proxies, generation, environment>>
  BY ZenonT(30) DEF Handle
<1>2. CASE pc = "serve" /\ ~Stale(req)
  <2>1. PICK h \in Handled(Validated(req), req) :
           /\ client' = [client EXCEPT !.highest = IF req.gen > @ THEN req.gen ELSE @, !.dev[req.gen] = h.dev]
           /\ rep' = [req |-> req, op |-> h.op] /\ req' = req
    BY ZenonT(30), <1>2 DEF Handle
  <2>2. BrokerTypeOK /\ WireAgrees /\ TodoShape
    BY ZenonT(30) DEF BrokerInv
  <2>3. req \in Message
    BY ZenonT(30), <1>1, <2>2 DEF BrokerTypeOK
  <2>4. req.gen \in Gens
    BY ZenonT(30), <2>3 DEF Message
  <2>5. h.dev \in Devices
    <3>1. client.dev[req.gen] \in Devices
      BY ZenonT(30), <2>2, <2>4 DEF BrokerTypeOK
    <3>2. Validated(req) \in Devices
      BY ZenonT(30), <2>3, <3>1, ValidatedFields
    <3>3. req.op \in {"SnapshotKey", "Event"} => req.key \in Codes
      <4>1. /\ todo # <<>> /\ todo \in Seq(TaskSet)
            /\ req.op = "SnapshotKey" => Head(todo).op = "SnapshotKey" /\ req.key = Head(todo).key
            /\ req.op = "Event" => req.key \in Codes
        BY ZenonT(30), <1>1, <1>2, <2>2, OnWire DEF WireAgrees
      <4>2. Head(todo) = todo[1] /\ 1 \in 1..Len(todo)
        BY ZenonT(30), <4>1, TodoHead
      <4> QED
        BY ZenonT(30), <2>2, <4>1, <4>2 DEF TodoShape
    <3>4. DeviceAfter(Validated(req), h, req)
      BY ZenonT(30), <2>3, <3>2, <3>3, HandledFields
    <3> QED
      BY ZenonT(30), <3>4 DEF DeviceAfter
  <2>6. PICK c : client' = c /\ Served(c, req.gen, h.dev)
    BY ZenonT(30), <2>1, <2>2, <2>4, <2>5, ServedFields DEF BrokerTypeOK
  <2> QED
    BY ZenonT(30), <1>1, <1>2, <2>1, <2>6, ServeInv
<1>3. CASE ~(pc = "serve" /\ ~Stale(req))
  <2>1. /\ client' = [NewClient EXCEPT !.pc = "ended"] /\ rep' = rep
        /\ req' = IF pc = "serve" THEN req ELSE None
    BY ZenonT(30), <1>1, <1>3 DEF Handle
  <2> QED
    BY ZenonT(30), <1>1, <2>1, GoneInv
<1> QED
  BY ZenonT(30), <1>2, <1>3

\* Every step of the broker keeps the invariant.
LEMMA BrokerStep ==
  ASSUME BrokerInv, Broker
  PROVE  BrokerInv'
<1>1. CASE Accept
  BY ZenonT(30), <1>1, AcceptInv
<1>2. CASE StepBegins
  BY ZenonT(30), <1>2, StepBeginsInv
<1>3. CASE RetireClient
  BY ZenonT(30), <1>3, RetireInv
<1>4. CASE Admit
  BY ZenonT(30), <1>4, AdmitInv
<1>5. CASE PumpIdle
  BY ZenonT(30), <1>5, PumpIdleInv
<1>6. CASE PumpEvent
  BY ZenonT(30), <1>6, PumpEventInv
<1>7. CASE PumpResync
  BY ZenonT(30), <1>7, PumpResyncInv
<1>8. CASE ResyncReset
  <2>1. Resyncing("Reset", "DeviceReset", 0) /\ 0 \in {0, 1}
    BY ZenonT(30), <1>8 DEF ResyncReset
  <2> QED
    BY ZenonT(30), <2>1, ResyncInv
<1>9. CASE ResyncKey
  <2>1. Resyncing("SnapshotKey", "SnapshotKey", 1) /\ 1 \in {0, 1}
    BY ZenonT(30), <1>9 DEF ResyncKey
  <2> QED
    BY ZenonT(30), <2>1, ResyncInv
<1>10. CASE Answered
  BY ZenonT(30), <1>10, AnsweredEventInv, AnsweredControlInv
<1>11. CASE StepFails
  <2>1. Fails
    BY ZenonT(30), <1>11 DEF StepFails
  <2> QED
    BY ZenonT(30), <2>1, FailsInv
<1> QED
  BY ZenonT(30), <1>1, <1>2, <1>3, <1>4, <1>5, <1>6, <1>7, <1>8, <1>9, <1>10, <1>11 DEF Broker

\* So does every step of the keyboards, the session and the daemon.
LEMMA BrokerNext ==
  ASSUME BrokerInv, [Next]_vars
  PROVE  BrokerInv'
<1>1. ASSUME NEW d \in Ports, Plug(d) \/ Unplug(d) \/ \E k \in Codes : Move(d, k)
      PROVE  BrokerInv'
  BY ZenonT(30), <1>1, PlugInv, UnplugInv, MoveInv
<1>2. CASE Authority
  <2>1. UNCHANGED <<kb, pc, todo, proxies, generation, req, rep, client, moves, plugs, starts>>
    BY ZenonT(30), <1>2 DEF Authority
  <2>2. allowed' \in BOOLEAN
    BY ZenonT(30), <1>2 DEF Authority
  <2> QED
    BY ZenonT(30), <2>1, <2>2, QuietInv
<1>3. CASE Broker
  BY ZenonT(30), <1>3, BrokerStep
<1>4. CASE Handle
  BY ZenonT(30), <1>4, HandleInv
<1>5. CASE ClientEnds
  <2>1. /\ client' = [NewClient EXCEPT !.pc = "ended"] /\ req' = IF pc = "serve" THEN req ELSE None
        /\ UNCHANGED <<pc, todo, proxies, generation, rep, environment>>
    BY ZenonT(30), <1>5 DEF ClientEnds
  <2> QED
    BY ZenonT(30), <2>1, GoneInv
<1>6. CASE UNCHANGED vars
  <2>1. UNCHANGED <<kb, pc, todo, proxies, generation, req, rep, client, moves, plugs, starts>> /\ allowed' = allowed
    BY ZenonT(30), <1>6 DEF vars, environment
  <2>2. allowed' \in BOOLEAN
    BY ZenonT(30), <2>1, InvParts DEF BrokerTypeOK
  <2> QED
    BY ZenonT(30), <2>1, <2>2, QuietInv
<1> QED
  BY ZenonT(30), <1>1, <1>2, <1>3, <1>4, <1>5, <1>6 DEF Next

\* The broker's invariant holds of every set of ports and keys and any number of moves,
\* replugs and daemons: no message is stale to the daemon (ClientState::validate), a broker
\* without a client has nothing grabbed (run's drop of the proxies), and a press has one
\* owner (KeyState::apply).
THEOREM BrokerSound == Spec => []BrokerInv
<1>1. Init => BrokerInv
  BY ZenonT(30), BrokerInit
<1>2. BrokerInv /\ [Next]_vars => BrokerInv'
  BY ZenonT(30), BrokerNext
<1> QED
  BY <1>1, <1>2, PTL DEF Spec

\* Between messages nothing is pending and no answer is on its way, so the daemon's keys are
\* the broker's: DevicesTracked, without the snapshots a resynchronisation has still to send.
LEMMA TracksWhenSettled ==
  ASSUME BrokerInv
  PROVE  ClientTracks
<1>1. SUFFICES ASSUME Settled, NEW d \in Ports, Proxied(d),
                      \A i \in 1..Len(todo) : todo[i].port = d => todo[i].op \notin {"Reset", "SnapshotKey"}
               PROVE  /\ client.dev[proxies[d].gen].physical = proxies[d].physical
                      /\ client.dev[proxies[d].gen].swallowed \subseteq proxies[d].swallowed
  BY ZenonT(30) DEF ClientTracks
<1>2. BrokerTypeOK /\ DevicesTracked
  BY ZenonT(30) DEF BrokerInv
<1>3. DeviceTracked(d)
  BY ZenonT(30), <1>1, <1>2 DEF Settled, DevicesTracked
<1>4. ~Pending(d)
  <2>1. todo # <<>> => Head(todo) = todo[1] /\ 1 \in 1..Len(todo)
    BY ZenonT(30), <1>2, TodoHead DEF BrokerTypeOK
  <2> QED
    BY ZenonT(30), <1>1, <2>1 DEF Pending, Port, Settled
<1>5. Snapshots(d) = {}
  BY ZenonT(30), <1>1 DEF Snapshots
<1>6. Soon(d) = proxies[d]
  BY ZenonT(30), <1>1 DEF Soon, Answering, Settled
<1> QED
  BY ZenonT(30), <1>3, <1>4, <1>5, <1>6 DEF DeviceTracked

\* Between messages the daemon knows the keys every captured keyboard holds (dispatch's
\* physical set follows KeyState's), also after SYN_DROPPED, a replug or a daemon restart.
THEOREM DaemonTracksKeys == Spec => []ClientTracks
BY BrokerSound, TracksWhenSettled, PTL

=============================================================================
