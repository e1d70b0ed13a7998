------------------------- MODULE HttpClient_proofs -------------------------
(***************************************************************************)
(* Theorems about HttpClient and the MessageQueue below it, for any finite *)
(* set of producers: types, by how much the queue of callbacks can exceed  *)
(* its limit, that the client is a CallbackChannel, that the queue loses   *)
(* no wake-up, and that the client uses it as the queue allows.            *)
(***************************************************************************)
EXTENDS HttpClient, FiniteSetTheorems, SequenceTheorems, TLAPS

USE HttpClientAssumption

(* A producer in push() has a request to push, and the worker sends one    *)
(* that was taken from the queue.                                          *)
Carried ==
  /\ \A p \in Producer : ppc[p] # "idle" => count[p] > 0
  /\ wpc = "send" => sending \in Msg

(* Every step keeps the types.                                             *)
LEMMA TypesStep ==
  TypeOK /\ Carried /\ [Next]_vars => TypeOK' /\ Carried'
<1> SUFFICES ASSUME TypeOK, Carried, [Next]_vars PROVE TypeOK' /\ Carried'
  OBVIOUS
<1> USE DEF TypeOK, Carried, QueueTypeOK, Popping, Awake, Enter, Leave, queue,
            producers, worker
<1>1. ASSUME NEW p \in Producer, Create(p) PROVE TypeOK' /\ Carried'
  BY <1>1 DEF Create
<1>2. ASSUME NEW p \in Producer, CheckSize(p) PROVE TypeOK' /\ Carried'
  BY <1>2 DEF CheckSize, Pop
<1>3. ASSUME NEW p \in Producer, Discard(p) PROVE TypeOK' /\ Carried'
  <2>1. CASE Take(p)
    <3>1. m_msg' \in Seq(Msg)
      BY <2>1 DEF Take
    <3> QED
      BY <1>3, <2>1, <3>1 DEF Discard, Take
  <2>2. CASE (Sleep(p) \/ WakeSpuriously(p)) /\ UNCHANGED ppc
    BY <1>3, <2>2 DEF Discard, Sleep, WakeSpuriously
  <2> QED
    BY <1>3, <2>1, <2>2 DEF Discard
<1>4. ASSUME NEW p \in Producer, Push(p) PROVE TypeOK' /\ Carried'
  <2>1. <<p, count[p]>> \in Msg
    BY <1>4 DEF Push, Msg
  <2>2. m_msg' \in Seq(Msg)
    BY <1>4, <2>1 DEF Push, PushBack
  <2> QED
    BY <1>4, <2>2 DEF Push, PushBack
<1>5. ASSUME NEW p \in Producer, Notify(p) PROVE TypeOK' /\ Carried'
  BY <1>5 DEF Notify, NotifyOne
<1>6. CASE TestRuning \/ WorkerNothing
  BY <1>6 DEF TestRuning, WorkerNothing, TimedPop, GiveUp
<1>7. CASE WorkerPop
  <2>1. CASE Take(Worker) /\ sending' = Head(m_msg) /\ wpc' = "send"
    <3>1. m_msg' \in Seq(Msg) /\ sending' \in Msg
      BY <2>1 DEF Take
    <3> QED
      BY <1>7, <2>1, <3>1 DEF WorkerPop, Take
  <2>2. CASE (Sleep(Worker) \/ WakeSpuriously(Worker))
             /\ UNCHANGED <<sending, wpc>>
    BY <1>7, <2>2 DEF WorkerPop, Sleep, WakeSpuriously
  <2> QED
    BY <1>7, <2>1, <2>2 DEF WorkerPop
<1>8. CASE WorkerTimeOut
  BY <1>8 DEF WorkerTimeOut, TimeOut
<1>9. CASE Send
  <2>1. sent' \in Seq(Msg)
    <3>1. sent \in Seq(Msg) /\ Append(sent, sending) \in Seq(Msg)
      BY <1>9 DEF Send
    <3> QED
      BY <1>9, <3>1 DEF Send, action
  <2> QED
    BY <1>9, <2>1 DEF Send
<1>10. CASE NewClient \/ Open \/ Close \/ Joined
  BY <1>10 DEF NewClient, Open, Close, Joined
<1>11. CASE UNCHANGED vars
  BY <1>11 DEF vars
<1> QED
  BY <1>1, <1>2, <1>3, <1>4, <1>5, <1>6, <1>7, <1>8, <1>9, <1>10, <1>11
  DEF Next, PushStep, WorkerStep

(* The producers that have asked for the size, or made room, and are about *)
(* to push.                                                                *)
Pushers == {p \in Producer : ppc[p] = "push"}

Bounded ==
  Len(m_msg) + Cardinality(Pushers) < MaxMsgSize + Cardinality(Producer)

(* One more or one less of them when one comes or goes.                    *)
LEMMA Counts ==
  ASSUME NEW S \in SUBSET Producer
  PROVE  /\ Cardinality(S) \in Nat
         /\ Cardinality(S) <= Cardinality(Producer)
         /\ \A p \in Producer \ S : Cardinality(S \cup {p}) = Cardinality(S) + 1
         /\ \A p \in S : Cardinality(S \ {p}) = Cardinality(S) - 1
<1>1. IsFiniteSet(S)
  BY FS_Subset
<1> QED
  BY <1>1, FS_Subset, FS_CardinalityType, FS_AddElement, FS_RemoveElement

(* Whoever pushes has seen the queue below its limit, or has taken one     *)
(* message out of it.                                                      *)
LEMMA BoundedStep ==
  ASSUME TypeOK, Carried, Bounded, [Next]_vars
  PROVE  Bounded'
<1> DEFINE n == Cardinality(Pushers)
<1>0. /\ TypeOK' /\ Pushers \in SUBSET Producer /\ Pushers' \in SUBSET Producer
      /\ Len(m_msg) \in Nat /\ Len(m_msg') \in Nat
  BY TypesStep DEF Pushers, TypeOK, QueueTypeOK
<1>1. /\ n \in Nat /\ Cardinality(Pushers') \in Nat
      /\ Cardinality(Producer) \in Nat
      /\ Cardinality(Pushers') <= Cardinality(Producer)
  BY <1>0, Counts
<1>u. ASSUME Pushers' = Pushers, Len(m_msg') <= Len(m_msg) PROVE Bounded'
  BY <1>0, <1>1, <1>u DEF Bounded
<1> USE DEF TypeOK, QueueTypeOK, queue, producers, worker
<1>2. ASSUME NEW p \in Producer, Create(p) \/ Notify(p) PROVE Bounded'
  <2>1. Pushers' = Pushers /\ m_msg' = m_msg
    BY <1>2 DEF Create, Notify, NotifyOne, Pushers
  <2> QED
    BY <1>0, <1>u, <2>1
<1>3. ASSUME NEW p \in Producer, CheckSize(p) PROVE Bounded'
  <2>1. CASE Len(m_msg) >= MaxMsgSize /\ Pop(p)
               /\ ppc' = [ppc EXCEPT ![p] = "discard"]
    <3>1. Pushers' = Pushers /\ m_msg' = m_msg
      BY <1>3, <2>1 DEF CheckSize, Pop, Pushers
    <3> QED
      BY <1>0, <1>u, <3>1
  <2>2. CASE Len(m_msg) < MaxMsgSize /\ UNCHANGED queue
    BY <1>0, <1>1, <2>2 DEF Bounded
  <2> QED
    BY <1>3, <2>1, <2>2 DEF CheckSize
<1>4. ASSUME NEW p \in Producer, Discard(p) PROVE Bounded'
  <2>1. CASE Take(p) /\ ppc' = [ppc EXCEPT ![p] = "push"]
    <3>1. Pushers' = Pushers \cup {p} /\ p \notin Pushers
      BY <1>4, <2>1 DEF Discard, Pushers
    <3>2. Len(m_msg') = Len(m_msg) - 1
      BY <2>1 DEF Take
    <3>3. Cardinality(Pushers') = n + 1
      BY <1>0, <1>4, <3>1, Counts
    <3> HIDE DEF n
    <3>4. MaxMsgSize \in Nat
      OBVIOUS
    <3> QED
      BY <1>0, <1>1, <3>2, <3>3, <3>4 DEF Bounded, n
  <2>2. CASE (Sleep(p) \/ WakeSpuriously(p)) /\ UNCHANGED ppc
    <3>1. Pushers' = Pushers /\ m_msg' = m_msg
      BY <2>2 DEF Sleep, WakeSpuriously, Pushers
    <3> QED
      BY <1>0, <1>u, <3>1
  <2> QED
    BY <1>4, <2>1, <2>2 DEF Discard
<1>5. ASSUME NEW p \in Producer, Push(p) PROVE Bounded'
  <2>1. Pushers' = Pushers \ {p} /\ p \in Pushers
    BY <1>5 DEF Push, Pushers
  <2>2. Len(m_msg') = Len(m_msg) + 1
    BY <1>5 DEF Push, PushBack
  <2>3. Cardinality(Pushers') = n - 1
    BY <1>0, <2>1, Counts
  <2> HIDE DEF n
  <2> QED
    BY <1>0, <1>1, <2>2, <2>3 DEF Bounded, n
<1>6. CASE \/ WorkerStep \/ WorkerTimeOut
           \/ NewClient \/ Open \/ Close \/ Joined \/ UNCHANGED vars
  <2>1. ppc' = ppc /\ (m_msg' = m_msg \/ (m_msg # <<>> /\ m_msg' = Tail(m_msg)))
    BY <1>6
    DEF WorkerStep, TestRuning, WorkerPop, WorkerNothing, Send, WorkerTimeOut,
        NewClient, Open, Close, Joined, vars, TimedPop, Take, Sleep,
        WakeSpuriously, GiveUp, TimeOut
  <2>2. Pushers' = Pushers
    BY <2>1 DEF Pushers
  <2>3. Len(m_msg') <= Len(m_msg)
    BY <1>0, <2>1
  <2> QED
    BY <1>u, <2>2, <2>3
<1> QED
  BY <1>2, <1>3, <1>4, <1>5, <1>6 DEF Next, PushStep

LEMMA Invariance == Spec => [](TypeOK /\ Carried /\ Bounded)
<1>1. Init => TypeOK /\ Carried /\ Bounded
  <2> SUFFICES ASSUME Init PROVE TypeOK /\ Carried /\ Bounded
    OBVIOUS
  <2>1. Pushers = {} /\ m_msg = <<>>
    BY DEF Init, QueueInit, Pushers
  <2>2. Bounded
    <3>1. Cardinality(Pushers) = 0 /\ Cardinality(Producer) \in Nat
      BY <2>1, FS_EmptySet, FS_CardinalityType
    <3> QED
      BY <2>1, <3>1 DEF Bounded
  <2>3. m_msg \in Seq(Msg) /\ sent \in Seq(Msg)
    BY DEF Init, QueueInit
  <2>4. QueueTypeOK
    BY <2>3 DEF Init, QueueInit, QueueTypeOK, Popping
  <2>5. /\ ppc \in [Producer ->
                    {"idle", "size", "discard", "push", "notify"}]
        /\ count \in [Producer -> 0..MaxSubmit]
    BY DEF Init
  <2>6. TypeOK
    <3>1. m_runing \in BOOLEAN
      BY Zenon DEF Init
    <3>2. /\ phase \in {"none", "created", "open", "closing", "closed"}
          /\ wpc \in {"none", "test", "pop", "send", "exit"}
          /\ sending \in Msg \cup {NoMsg}
      BY DEF Init
    <3> QED
      BY <2>3, <2>4, <2>5, <3>1, <3>2 DEF TypeOK
  <2>7. Carried
    BY DEF Init, Carried
  <2> QED
    BY <2>2, <2>6, <2>7
<1>2. /\ TypeOK /\ Carried /\ Bounded
      /\ [Next]_vars
      => (TypeOK /\ Carried /\ Bounded)'
  BY TypesStep, BoundedStep
<1> QED
  BY <1>1, <1>2, PTL DEF Spec

(* The types.                                                              *)
THEOREM TypesCorrect == Spec => []TypeOK
BY Invariance, PTL

(* HttpClient::push asks for the size and pushes in two critical sections: *)
(* however many producers do so at once, the queue stays below MAXMSGSIZE  *)
(* and one message for each of them.                                       *)
THEOREM OverrunBounded == Spec => []OverrunByProducersOnly
<1>1. TypeOK /\ Bounded => OverrunByProducersOnly
  <2> SUFFICES ASSUME TypeOK, Bounded PROVE OverrunByProducersOnly
    OBVIOUS
  <2>1. Cardinality(Pushers) \in Nat /\ Len(m_msg) \in Nat
    BY Counts DEF Pushers, TypeOK, QueueTypeOK
  <2>2. Cardinality(Producer) \in Nat
    BY FS_CardinalityType
  <2> QED
    BY <2>1, <2>2 DEF Bounded, OverrunByProducersOnly
<1> QED
  BY <1>1, Invariance, PTL

-----------------------------------------------------------------------------
(* The callbacks as a channel: what was pushed is neither waiting nor sent *)
(* already, since each request is one of its own.                          *)

Elems(s) == {s[i] : i \in DOMAIN s}

(* The requests that were pushed and are not lost.                         *)
Known ==
  Elems(m_msg) \cup Elems(sent) \cup (IF wpc = "send" THEN {sending} ELSE {})

(* The last callback that a producer has pushed.                           *)
Last(p) ==
  IF ppc[p] \in {"size", "discard", "push"} THEN count[p] - 1 ELSE count[p]

ChannelInv ==
  /\ \A m \in Known : m[2] <= Last(m[1])
  /\ phase \in {"none", "created"} => wpc = "none"

(* What is in a sequence that grew or shrank at an end.                    *)
LEMMA ElemsOf ==
  ASSUME NEW S, NEW s \in Seq(S)
  PROVE  /\ Elems(s) \in SUBSET S
         /\ \A e \in S : Elems(Append(s, e)) = Elems(s) \cup {e}
         /\ s # <<>> => /\ Elems(Tail(s)) \subseteq Elems(s)
                        /\ Head(s) \in Elems(s)
<1>1. Elems(s) \in SUBSET S
  BY DEF Elems
<1>2. ASSUME NEW e \in S PROVE Elems(Append(s, e)) = Elems(s) \cup {e}
  <2>1. /\ DOMAIN Append(s, e) = DOMAIN s \cup {Len(s) + 1}
        /\ \A i \in DOMAIN s : Append(s, e)[i] = s[i]
        /\ Append(s, e)[Len(s) + 1] = e
    OBVIOUS
  <2> QED
    BY <2>1, Zenon DEF Elems
<1>3. ASSUME s # <<>>
      PROVE  Elems(Tail(s)) \subseteq Elems(s) /\ Head(s) \in Elems(s)
  <2>1. \A i \in DOMAIN Tail(s) : i + 1 \in DOMAIN s /\ Tail(s)[i] = s[i + 1]
    BY <1>3
  <2>2. 1 \in DOMAIN s /\ Head(s) = s[1]
    BY <1>3
  <2> QED
    BY <2>1, <2>2 DEF Elems
<1> QED
  BY <1>1, <1>2, <1>3

(* A step that pushes nothing knows of no other requests than before, and  *)
(* a producer's last callback is never taken back.                         *)
LEMMA KnownStep ==
  ASSUME TypeOK, Carried, ChannelInv, [Next]_vars
  PROVE  ChannelInv'
<1>0. /\ m_msg \in Seq(Msg) /\ sent \in Seq(Msg)
      /\ wpc = "send" => sending \in Msg
      /\ \A p \in Producer : count[p] \in Nat
      /\ ppc \in [Producer -> {"idle", "size", "discard", "push", "notify"}]
      /\ count \in [Producer -> 0..MaxSubmit]
  BY DEF TypeOK, Carried, QueueTypeOK
<1>k. Known \in SUBSET Msg
  BY <1>0, ElemsOf DEF Known
<1>l. \A p \in Producer : Last(p) \in Int
  BY <1>0 DEF Last
<1>e. m_msg # <<>> => /\ Elems(Tail(m_msg)) \subseteq Elems(m_msg)
                      /\ Head(m_msg) \in Elems(m_msg)
  BY <1>0, ElemsOf
<1>u. ASSUME Known' \in SUBSET Known,
             \A p \in Producer : Last(p)' \in Int /\ Last(p) <= Last(p)',
             phase' \in {"none", "created"} => wpc' = "none"
      PROVE  ChannelInv'
  <2> SUFFICES ASSUME NEW m \in Known' PROVE m[2] <= Last(m[1])'
    BY <1>u DEF ChannelInv
  <2>1. m \in Known /\ m[1] \in Producer /\ m[2] \in Int
    BY <1>k, <1>u DEF Msg
  <2>2. m[2] <= Last(m[1])
    BY <2>1 DEF ChannelInv
  <2> QED
    BY <1>u, <1>l, <2>1, <2>2
<1>2. ASSUME NEW p \in Producer, Create(p) PROVE ChannelInv'
  <2>1. Known' = Known /\ phase' = phase /\ wpc' = wpc
    BY <1>2 DEF Create, queue, worker, Known
  <2>2. \A q \in Producer : Last(q)' \in Int /\ Last(q) <= Last(q)'
    BY <1>0, <1>2 DEF Create, Last
  <2> QED
    BY <1>u, <2>1, <2>2 DEF ChannelInv
<1>3. ASSUME NEW p \in Producer, CheckSize(p) \/ Discard(p) \/ Notify(p)
      PROVE  ChannelInv'
  <2>1. /\ m_msg' = m_msg \/ (m_msg # <<>> /\ m_msg' = Tail(m_msg))
        /\ UNCHANGED <<phase, wpc, sending, sent, count>>
        /\ \E x \in {"discard", "push", "idle"} :
              /\ ppc' = ppc \/ ppc' = [ppc EXCEPT ![p] = x]
              /\ x = "idle" => ppc[p] = "notify"
              /\ x # "idle" => ppc[p] \in {"size", "discard"}
    BY <1>3
    DEF CheckSize, Discard, Notify, queue, worker, Pop, Take, Sleep,
        WakeSpuriously, NotifyOne
  <2>2. Known' \in SUBSET Known
    BY <1>e, <2>1 DEF Known
  <2>3. \A q \in Producer : Last(q)' = Last(q)
    BY <1>0, <2>1 DEF Last
  <2> QED
    BY <1>u, <1>l, <2>1, <2>2, <2>3 DEF ChannelInv
<1>4. ASSUME NEW p \in Producer, Push(p) PROVE ChannelInv'
  <2>0. PICK m : m = <<p, count[p]>>
    OBVIOUS
  <2>1. /\ m_msg' = Append(m_msg, m) /\ UNCHANGED <<phase, wpc, sending, sent>>
        /\ count' = count /\ ppc[p] = "push"
        /\ ppc' = [ppc EXCEPT ![p] = "notify"]
    BY <1>4, <2>0 DEF Push, PushBack, worker
  <2>2. m \in Msg
    <3>1. count[p] \in 1..MaxSubmit
      <4>1. count[p] \in 0..MaxSubmit /\ ppc[p] = "push"
        BY <1>0, <2>1
      <4>2. count[p] > 0
        BY <4>1 DEF Carried
      <4> QED
        BY <4>1, <4>2
    <3> QED
      BY <2>0, <3>1 DEF Msg
  <2>3. Known' = Known \cup {m}
    BY <1>0, <2>1, <2>2, ElemsOf DEF Known
  <2>4. \A q \in Producer : Last(q)' \in Int /\ Last(q) <= Last(q)'
    BY <1>0, <2>1 DEF Last
  <2>5. m[2] <= Last(m[1])'
    <3>1. m[1] = p /\ m[2] = count[p]
      BY <2>0
    <3>2. Last(p)' = count[p]
      BY <1>0, <2>1 DEF Last
    <3> QED
      BY <1>0, <3>1, <3>2
  <2> SUFFICES ASSUME NEW k \in Known PROVE k[2] <= Last(k[1])'
    BY <2>1, <2>3, <2>5 DEF ChannelInv
  <2>6. k[1] \in Producer /\ k[2] \in Int /\ k[2] <= Last(k[1])
    BY <1>k DEF Msg, ChannelInv
  <2> QED
    BY <1>l, <2>4, <2>6
<1>5. CASE \/ WorkerStep \/ WorkerTimeOut
           \/ NewClient \/ Open \/ Close \/ Joined \/ UNCHANGED vars
  <2>1. ppc' = ppc /\ count' = count
    BY <1>5
    DEF WorkerStep, TestRuning, WorkerPop, WorkerNothing, Send, WorkerTimeOut,
        NewClient, Open, Close, Joined, vars, producers
  <2>2. \A q \in Producer : Last(q)' \in Int /\ Last(q) <= Last(q)'
    BY <1>0, <2>1 DEF Last
  <2>3. /\ Known' \in SUBSET Known
        /\ phase' \in {"none", "created"} => wpc' = "none"
    <3>1. CASE Send
      <4>1. sent' = sent \/ sent' = Append(sent, sending)
        BY <3>1 DEF Send, action
      <4>2. Elems(sent') \in SUBSET (Elems(sent) \cup {sending})
        <5>1. sending \in Msg /\ sent \in Seq(Msg)
          BY <1>0, <3>1 DEF Send
        <5>2. Elems(Append(sent, sending)) = Elems(sent) \cup {sending}
          BY <5>1, ElemsOf
        <5> QED
          BY <4>1, <5>2
      <4> QED
        BY <3>1, <4>2 DEF Send, Known, ChannelInv, queue
    <3>2. CASE WorkerPop
      BY <1>e, <3>2
      DEF WorkerPop, Take, Sleep, WakeSpuriously, Known, ChannelInv
    <3>3. CASE TestRuning \/ WorkerNothing \/ WorkerTimeOut
      BY <3>3
      DEF TestRuning, WorkerNothing, WorkerTimeOut, TimedPop, GiveUp, TimeOut,
          Known, ChannelInv, queue, worker
    <3>4. CASE NewClient \/ Open \/ Close \/ Joined \/ UNCHANGED vars
      BY <3>4
      DEF NewClient, Open, Close, Joined, vars, queue, worker, Known, ChannelInv
    <3> QED
      BY <1>5, <3>1, <3>2, <3>3, <3>4 DEF WorkerStep
  <2> QED
    BY <1>u, <2>2, <2>3
<1> QED
  BY <1>2, <1>3, <1>4, <1>5 DEF Next, PushStep

LEMMA ChannelInvariance == Spec => []ChannelInv
<1>1. Init => ChannelInv
  BY DEF Init, QueueInit, ChannelInv, Known, Elems
<1>2. TypeOK /\ Carried /\ ChannelInv /\ [Next]_vars => ChannelInv'
  BY KnownStep
<1> QED
  BY <1>1, <1>2, Invariance, PTL DEF Spec

-----------------------------------------------------------------------------
(* The refinement.                                                         *)

LEMMA HeldTypes ==
  ASSUME TypeOK, Carried
  PROVE  /\ Held \in Seq(Msg) /\ m_msg \in Seq(Msg) /\ Waiting \in Seq(Msg)
         /\ Len(Held) = IF wpc = "send" THEN 1 ELSE 0
<1>1. Held \in Seq(Msg) /\ m_msg \in Seq(Msg)
  BY DEF TypeOK, Carried, QueueTypeOK, Held
<1>2. Len(Held) = IF wpc = "send" THEN 1 ELSE 0
  BY DEF Held
<1> QED
  BY <1>1, <1>2, ConcatProperties DEF Waiting

(* The sequence without its element i, as the channel loses it.            *)
LEMMA RemoveFirstOf ==
  ASSUME NEW S, NEW s \in Seq(S), NEW t \in Seq(S), t # <<>>
  PROVE  s \o Tail(t) = SubSeq(s \o t, 1, Len(s))
                        \o SubSeq(s \o t, Len(s) + 2, Len(s \o t))
<1> DEFINE n == Len(s)
<1>1. /\ n \in Nat /\ Len(t) \in Nat /\ Len(t) > 0
      /\ s \o t \in Seq(S) /\ Len(s \o t) = n + Len(t)
  BY ConcatProperties
<1>0. Len(t) = 1 \/ Len(t) > 1
  <2>1. Len(t) \in Nat /\ Len(t) # 0
    OBVIOUS
  <2>2. \A k \in Nat : k = 0 \/ k = 1 \/ k > 1
    OBVIOUS
  <2> QED
    BY <2>1, <2>2, Zenon
<1>2. SubSeq(s \o t, 1, n) = s
  <2>1. CASE n = 0
    BY <2>1, SubSeqEmpty
  <2>2. CASE n > 0
    <3>1. SubSeq(s \o t, 1, n) = SubSeq(s, 1, n)
      BY <1>1, <2>2, SubSeqOfConcat1
    <3> QED
      BY <3>1, SubSeqFull
  <2> QED
    BY <1>1, <2>1, <2>2
<1>3. SubSeq(s \o t, n + 2, n + Len(t)) = Tail(t)
  <2>1. CASE Len(t) = 1
    <3>1. SubSeq(s \o t, n + 2, n + Len(t)) = <<>>
      BY <1>1, <2>1, SubSeqEmpty
    <3>2. SubSeq(t, 2, Len(t)) = <<>>
      BY <2>1, SubSeqEmpty
    <3> QED
      BY <3>1, <3>2, TailIsSubSeq
  <2>2. CASE Len(t) > 1
    <3>1. SubSeq(s \o t, n + 2, n + Len(t)) = SubSeq(t, 2, Len(t))
      BY <1>1, <2>2, SubSeqOfConcat2
    <3> QED
      BY <3>1, TailIsSubSeq
  <2> QED
    BY <1>0, <2>1, <2>2, Zenon
<1> QED
  BY <1>1, <1>2, <1>3

(* What a step of the client is for the channel.                           *)
LEMMA ChannelStep ==
  ASSUME TypeOK, Carried, ChannelInv, [Next]_vars
  PROVE  [Channel!Next]_<<Waiting, sent>>
<1>t. /\ Held \in Seq(Msg) /\ m_msg \in Seq(Msg) /\ Waiting \in Seq(Msg)
      /\ Len(Held) = IF wpc = "send" THEN 1 ELSE 0
  BY HeldTypes
<1>u. ASSUME UNCHANGED <<m_msg, sending, sent>>,
             wpc' = "send" <=> wpc = "send"
      PROVE  UNCHANGED <<Waiting, sent>>
  BY <1>u DEF Waiting, Held
(* The oldest message that is not being sent is discarded.                 *)
<1>1. ASSUME m_msg # <<>>, m_msg' = Tail(m_msg),
             UNCHANGED <<wpc, sending, sent>>
      PROVE  Channel!Lose
  <2>1. Waiting' = Held \o Tail(m_msg)
    BY <1>1 DEF Waiting, Held
  <2>2. /\ Len(Waiting) = Len(Held) + Len(m_msg) /\ Len(Held) \in Nat
        /\ Len(m_msg) \in Nat /\ Len(m_msg) > 0
        /\ DOMAIN Waiting = 1..Len(Waiting)
    BY <1>1, <1>t, ConcatProperties DEF Waiting
  <2>3. Waiting' = SubSeq(Waiting, 1, Len(Held))
                   \o SubSeq(Waiting, Len(Held) + 2, Len(Waiting))
    BY <1>1, <1>t, <2>1, RemoveFirstOf DEF Waiting
  <2>4. Waiting' = Channel!RemoveAt(Waiting, Len(Held) + 1)
    <3>1. \A n \in Nat : (n + 1) - 1 = n /\ n + 1 + 1 = n + 2
      OBVIOUS
    <3>2. (Len(Held) + 1) - 1 = Len(Held) /\ Len(Held) + 1 + 1 = Len(Held) + 2
      BY <2>2, <3>1, Zenon
    <3> QED
      BY <2>3, <3>2, Zenon DEF Channel!RemoveAt
  <2>5. Len(Held) + 1 \in DOMAIN Waiting
    BY <2>2
  <2> QED
    BY <1>1, <2>4, <2>5 DEF Channel!Lose
<1>2. ASSUME NEW p \in Producer, Create(p) \/ CheckSize(p) \/ Notify(p)
      PROVE  UNCHANGED <<Waiting, sent>>
  BY <1>2, <1>u
  DEF Create, CheckSize, Notify, Pop, NotifyOne, queue, worker
<1>3. ASSUME NEW p \in Producer, Discard(p)
      PROVE  Channel!Lose \/ UNCHANGED <<Waiting, sent>>
  BY <1>1, <1>3, <1>u DEF Discard, Take, Sleep, WakeSpuriously, worker
<1>4. ASSUME NEW p \in Producer, Push(p)
      PROVE  \E m \in Msg : Channel!Submit(m)
  <2>0. PICK m : m = <<p, count[p]>>
    OBVIOUS
  <2>1. /\ m_msg' = Append(m_msg, m) /\ UNCHANGED <<wpc, sending, sent>>
        /\ ppc[p] = "push" /\ p \in Producer
        /\ count[p] \in 0..MaxSubmit
    BY <1>4, <2>0 DEF Push, PushBack, worker, TypeOK
  <2>2. m \in Msg
    <3>1. count[p] > 0
      BY <2>1 DEF Carried
    <3> QED
      BY <2>0, <2>1, <3>1 DEF Msg
  <2>3. m \notin Known
    <3>1. m[1] = p /\ m[2] = count[p] /\ Last(p) = count[p] - 1
      BY <2>0, <2>1 DEF Last
    <3> QED
      BY <2>1, <3>1 DEF ChannelInv
  <2>4. \A i \in DOMAIN sent : sent[i] # m
    BY <2>3 DEF Known, Elems
  <2>5. ~Channel!Used(m)
    <3>1. SUFFICES ASSUME NEW i \in DOMAIN Waiting, Waiting[i] = m PROVE FALSE
      BY DEF Channel!Used
    <3>2. /\ Len(Held) \in Nat /\ Len(m_msg) \in Nat
          /\ i \in 1..Len(Held) + Len(m_msg)
          /\ Waiting[i] = IF i <= Len(Held) THEN Held[i]
                          ELSE m_msg[i - Len(Held)]
      <4>1. /\ Len(Held) \in Nat /\ Len(m_msg) \in Nat
            /\ DOMAIN Waiting = 1..Len(Waiting)
        BY <1>t
      <4>2. /\ Len(Waiting) = Len(Held) + Len(m_msg)
            /\ \A k \in 1..Len(Held) + Len(m_msg) : Waiting[k] =
                   IF k <= Len(Held) THEN Held[k] ELSE m_msg[k - Len(Held)]
        BY <1>t, ConcatProperties DEF Waiting
      <4> QED
        BY <3>1, <4>1, <4>2
    <3>3. CASE i <= Len(Held)
      BY <1>t, <2>3, <3>1, <3>2, <3>3 DEF Known, Held
    <3>4. CASE ~(i <= Len(Held))
      <4>1. i - Len(Held) \in DOMAIN m_msg
        BY <1>t, <3>2, <3>4
      <4> QED
        BY <2>3, <3>1, <3>2, <3>4, <4>1 DEF Known, Elems
    <3> QED
      BY <3>3, <3>4
  <2>6. Waiting' = Append(Waiting, m)
    <3>1. /\ Append(m_msg, m) = m_msg \o <<m>> /\ <<m>> \in Seq(Msg)
          /\ Append(Waiting, m) = Waiting \o <<m>>
      BY <1>t, <2>2, AppendIsConcat
    <3>2. Waiting \o <<m>> = Held \o (m_msg \o <<m>>)
      BY <1>t, <3>1, ConcatAssociative DEF Waiting
    <3> QED
      BY <2>1, <3>1, <3>2, Zenon DEF Waiting, Held
  <2> QED
    BY <2>1, <2>2, <2>4, <2>5, <2>6 DEF Channel!Submit
<1>5. ASSUME WorkerPop
      PROVE  UNCHANGED <<Waiting, sent>>
  <2>1. CASE Take(Worker) /\ sending' = Head(m_msg) /\ wpc' = "send"
    <3>1. /\ Held = <<>> /\ Held' = <<Head(m_msg)>> /\ m_msg' = Tail(m_msg)
          /\ m_msg # <<>> /\ sent' = sent
      BY <1>5, <2>1 DEF WorkerPop, Held, Take
    <3>2. m_msg = <<m_msg[1]>> \o SubSeq(m_msg, 2, Len(m_msg))
      <4>1. 1 \in 1..Len(m_msg) /\ Len(m_msg) \in 1..Len(m_msg) /\ 1 + 1 = 2
        BY <1>t, <3>1
      <4>2. SubSeq(m_msg, 1, Len(m_msg)) = m_msg
        BY <1>t, SubSeqFull
      <4> QED
        BY <1>t, <4>1, <4>2, SubSeqRecursiveFirst
    <3>3. Tail(m_msg) = SubSeq(m_msg, 2, Len(m_msg)) /\ Head(m_msg) = m_msg[1]
      BY <1>t, <3>1, TailIsSubSeq
    <3>4. Waiting = m_msg
      BY <1>t, <3>1, ConcatEmptySeq DEF Waiting
    <3>5. Waiting' = <<Head(m_msg)>> \o Tail(m_msg)
      BY <3>1, Zenon DEF Waiting
    <3> QED
      BY <3>1, <3>2, <3>3, <3>4, <3>5, Zenon
  <2>2. CASE (Sleep(Worker) \/ WakeSpuriously(Worker))
             /\ UNCHANGED <<sending, wpc>>
    BY <1>5, <1>u, <2>2 DEF WorkerPop, Sleep, WakeSpuriously
  <2> QED
    BY <1>5, <2>1, <2>2 DEF WorkerPop
(* The oldest request reaches its url, or is lost.                         *)
<1>6. ASSUME Send PROVE Channel!Deliver \/ Channel!Lose
  <2>1. /\ Held = <<sending>> /\ Held' = <<>> /\ m_msg' = m_msg
        /\ sending \in Msg
        /\ sent' = sent \/ sent' = Append(sent, sending)
    BY <1>6 DEF Send, action, Held, Carried, queue
  <2>2. Waiting = <<sending>> \o m_msg /\ Waiting' = m_msg
    <3>1. <<>> \o m_msg = m_msg
      BY <1>t, ConcatEmptySeq
    <3> QED
      BY <2>1, <3>1, Zenon DEF Waiting
  <2>3. /\ Waiting # <<>> /\ Head(Waiting) = sending /\ Tail(Waiting) = m_msg
        /\ 1 \in DOMAIN Waiting
    <3>1. /\ Len(Waiting) = 1 + Len(m_msg) /\ Len(m_msg) \in Nat
          /\ \A i \in 1..1 + Len(m_msg) :
                Waiting[i] = IF i <= 1 THEN <<sending>>[i] ELSE m_msg[i - 1]
      BY <1>t, <2>1, <2>2, ConcatProperties
    <3>2. /\ Waiting # <<>> /\ Waiting[1] = sending /\ 1 \in DOMAIN Waiting
          /\ Head(Waiting) = Waiting[1]
      BY <1>t, <3>1
    <3>3. /\ Tail(Waiting) \in Seq(Msg) /\ Len(Tail(Waiting)) = Len(m_msg)
          /\ \A i \in 1..Len(Tail(Waiting)) : Tail(Waiting)[i] = Waiting[i + 1]
      BY <1>t, <3>1, <3>2, HeadTailProperties
    <3>4. \A i \in 1..Len(m_msg) : Waiting[i + 1] = m_msg[i]
      BY <3>1
    <3>5. Tail(Waiting) = m_msg
      BY <1>t, <3>3, <3>4, SeqEqual
    <3> QED
      BY <3>2, <3>5
  <2>4. CASE sent' = Append(sent, sending)
    BY <2>2, <2>3, <2>4 DEF Channel!Deliver
  <2>5. CASE sent' = sent
    <3>1. /\ Tail(Waiting) = SubSeq(Waiting, 2, Len(Waiting))
          /\ SubSeq(Waiting, 1, 0) = <<>>
      BY <1>t, <2>3, TailIsSubSeq, SubSeqEmpty
    <3>2. <<>> \o m_msg = m_msg
      BY <1>t, ConcatEmptySeq
    <3>3. 1 - 1 = 0 /\ 1 + 1 = 2
      OBVIOUS
    <3>4. Waiting' = Channel!RemoveAt(Waiting, 1)
      BY <2>2, <2>3, <3>1, <3>2, <3>3, Zenon DEF Channel!RemoveAt
    <3> QED
      BY <2>3, <2>5, <3>4 DEF Channel!Lose
  <2> QED
    BY <2>1, <2>4, <2>5
<1>7. ASSUME \/ TestRuning \/ WorkerNothing \/ WorkerTimeOut
             \/ NewClient \/ Open \/ Close \/ Joined \/ UNCHANGED vars
      PROVE  UNCHANGED <<Waiting, sent>>
  BY <1>7, <1>u
  DEF TestRuning, WorkerNothing, WorkerTimeOut, NewClient, Open, Close, Joined,
      vars, TimedPop, GiveUp, TimeOut, queue, worker, ChannelInv
<1> QED
  BY <1>2, <1>3, <1>4, <1>5, <1>6, <1>7
  DEF Next, PushStep, WorkerStep, Channel!Next

(* With producers that discard the oldest callback while the worker sends, *)
(* each callback is delivered at most once, and those that are, in the     *)
(* order in which they were pushed.                                        *)
THEOREM ClientIsChannel == Spec => ImplementsChannel
<1>1. Init => Channel!Init
  <2> SUFFICES ASSUME Init PROVE Waiting = <<>> /\ sent = <<>>
    BY DEF Channel!Init
  <2>1. Held = <<>> /\ m_msg = <<>> /\ sent = <<>>
    BY DEF Init, QueueInit, Held
  <2>2. <<>> \o <<>> = <<>>
    OBVIOUS
  <2> QED
    BY <2>1, <2>2, Zenon DEF Waiting
<1>2. TypeOK /\ Carried /\ ChannelInv /\ [Next]_vars
      => [Channel!Next]_<<Waiting, sent>>
  BY ChannelStep
<1> QED
  BY <1>1, <1>2, Invariance, ChannelInvariance, PTL
  DEF Spec, ImplementsChannel, Channel!Spec

-----------------------------------------------------------------------------
(* The queue itself, whatever its callers do.                              *)

Caller == Producer \cup {Worker}
USE DEF Caller

(* Every critical section and notification keeps the types.                *)
LEMMA QueueTypes == QueueTypeOK /\ [QueueNext]_queueVars => QueueTypeOK'
<1> SUFFICES ASSUME QueueTypeOK, [QueueNext]_queueVars PROVE QueueTypeOK'
    OBVIOUS
<1> USE DEF QueueTypeOK, Popping, Awake, Enter, Leave
<1>1. ASSUME NEW t \in Caller, NEW v \in Msg, PushBack(t, v) PROVE QueueTypeOK'
    BY <1>1 DEF PushBack
<1>2. ASSUME NEW t \in Caller, Pop(t) \/ TimedPop(t) PROVE QueueTypeOK'
    BY <1>2 DEF Pop, TimedPop
<1>3. ASSUME NEW t \in Caller, Stop(t) \/ Start(t) PROVE QueueTypeOK'
    <2>1. m_msg' \in Seq(Msg)
        <3>1. m_msg' = <<>>
            BY <1>3 DEF Stop, Start
        <3> QED
            BY <3>1
    <2>2. m_run' \in BOOLEAN /\ asleep' = asleep
        BY <1>3 DEF Stop, Start
    <2>3. CASE Stop(t)
        BY <2>1, <2>2, <2>3 DEF Stop
    <2>4. CASE Start(t)
        BY <2>1, <2>2, <2>4 DEF Start
    <2> QED
        BY <1>3, <2>3, <2>4
<1>4. ASSUME NEW t \in Caller, Take(t) PROVE QueueTypeOK'
    BY <1>4 DEF Take
<1>5. ASSUME NEW t \in Caller, GiveUp(t) \/ NotifyAll(t) PROVE QueueTypeOK'
    BY <1>5 DEF GiveUp, NotifyAll
<1>6. ASSUME NEW t \in Caller, NotifyOne(t) PROVE QueueTypeOK'
    BY <1>6 DEF NotifyOne
<1>7. ASSUME NEW t \in Caller, Sleep(t) \/ WakeSpuriously(t) \/ TimeOut(t)
      PROVE  QueueTypeOK'
    BY <1>7 DEF Sleep, WakeSpuriously, TimeOut
<1>8. CASE UNCHANGED queueVars
    BY <1>8 DEF queueVars
<1> QED
    BY <1>1, <1>2, <1>3, <1>4, <1>5, <1>6, <1>7, <1>8
    DEF QueueNext, Call, Return

(* The threads that are up for a message or about to wake one.             *)
Up == {t \in Caller : Awake(t) \/ call[t] = "notifyOne"}

(* They are finitely many, and one more or one less when one comes or goes.*)
LEMMA UpFinite ==
  ASSUME NEW S \in SUBSET Caller
  PROVE  /\ IsFiniteSet(S) /\ Cardinality(S) \in Nat
         /\ \A t \in Caller \ S : Cardinality(S \cup {t}) = Cardinality(S) + 1
         /\ \A t \in S : Cardinality(S \ {t}) = Cardinality(S) - 1
<1>1. IsFiniteSet(Caller)
    BY FS_AddElement
<1>2. IsFiniteSet(S)
    BY <1>1, FS_Subset
<1> QED
    BY <1>1, <1>2, FS_CardinalityType, FS_AddElement, FS_RemoveElement

(* No step leaves a message lying with a thread asleep.                    *)
LEMMA WakeupStep ==
  ASSUME QueueTypeOK, NoLostWakeup, [QueueNext]_queueVars
  PROVE  NoLostWakeup'
<1> DEFINE n == Cardinality(Up)
<1>0. /\ QueueTypeOK'
      /\ Up \in SUBSET Caller /\ Up' \in SUBSET Caller
      /\ asleep # {} => Len(m_msg) <= n
    BY QueueTypes DEF NoLostWakeup, Up
<1>1. n \in Nat /\ Cardinality(Up') \in Nat
    BY <1>0, UpFinite
<1>2. SUFFICES ASSUME asleep' # {} PROVE Len(m_msg') <= Cardinality(Up')
    BY DEF NoLostWakeup, Up, Awake
<1> USE DEF QueueTypeOK, Popping, Enter, Leave
<1>3. CASE m_msg' = <<>>
    BY <1>1, <1>3
<1>4. ASSUME NEW t \in Caller, NEW v \in Msg, PushBack(t, v)
      PROVE  Len(m_msg') <= Cardinality(Up')
    <2>1. Up' = Up \cup {t} /\ t \notin Up
        BY <1>4 DEF PushBack, Up, Awake
    <2>2. Len(m_msg') = Len(m_msg) + 1 /\ asleep # {}
        BY <1>2, <1>4 DEF PushBack
    <2> QED
        BY <1>0, <1>1, <2>1, <2>2, UpFinite
<1>5. ASSUME NEW t \in Caller, Pop(t) \/ TimedPop(t)
      PROVE  Len(m_msg') <= Cardinality(Up')
    <2>1. Up' = Up \cup {t} /\ t \notin Up
        BY <1>5 DEF Pop, TimedPop, Up, Awake
    <2>2. m_msg' = m_msg /\ asleep # {}
        BY <1>2, <1>5 DEF Pop, TimedPop
    <2> QED
        BY <1>0, <1>1, <2>1, <2>2, UpFinite
<1>6. ASSUME NEW t \in Caller, NotifyOne(t)
      PROVE  Len(m_msg') <= Cardinality(Up')
    <2>1. PICK u \in asleep : asleep' = asleep \ {u}
        BY <1>2, <1>6 DEF NotifyOne
    <2>2. /\ Up' = (Up \ {t}) \cup {u}
          /\ t \in Up /\ u \in Caller \ Up
        BY <1>6, <2>1 DEF NotifyOne, Up, Awake
    <2>3. Cardinality(Up \ {t}) = n - 1
        BY <1>0, <2>2, UpFinite
    <2>4. Cardinality(Up') = n
        <3>1. Up \ {t} \in SUBSET Caller /\ u \in Caller \ (Up \ {t})
            BY <1>0, <2>2
        <3>2. Cardinality(Up') = Cardinality(Up \ {t}) + 1
            BY <2>2, <3>1, UpFinite
        <3> QED
            BY <1>1, <2>3, <3>2
    <2> QED
        BY <1>0, <1>6, <2>1, <2>4 DEF NotifyOne
<1>7. ASSUME NEW t \in Caller, Take(t)
      PROVE  Len(m_msg') <= Cardinality(Up')
    <2>1. Up' = Up \ {t} /\ t \in Up
        BY <1>7 DEF Take, Up, Awake
    <2>2. Len(m_msg') = Len(m_msg) - 1 /\ asleep # {}
        BY <1>2, <1>7 DEF Take
    <2> QED
        BY <1>0, <1>1, <2>1, <2>2, UpFinite
<1>8. ASSUME NEW t \in Caller, WakeSpuriously(t) \/ TimeOut(t)
      PROVE  Len(m_msg') <= Cardinality(Up')
    <2>1. Up' = Up \cup {t} /\ t \notin Up
        BY <1>8 DEF WakeSpuriously, TimeOut, Up, Awake
    <2>2. m_msg' = m_msg /\ asleep # {}
        BY <1>8 DEF WakeSpuriously, TimeOut
    <2> QED
        BY <1>0, <1>1, <2>1, <2>2, UpFinite
<1>9. ASSUME NEW t \in Caller, GiveUp(t) \/ Sleep(t) \/ Stop(t) \/ Start(t)
      PROVE  m_msg' = <<>>
    BY <1>9 DEF GiveUp, Sleep, Stop, Start
<1>10. ASSUME NEW t \in Caller PROVE ~NotifyAll(t)
    BY <1>2 DEF NotifyAll
<1>11. CASE UNCHANGED queueVars
    <2>1. Up' = Up
        BY <1>11 DEF queueVars, Up, Awake
    <2> QED
        BY <1>0, <1>2, <1>11, <2>1 DEF queueVars
<1> QED
    BY <1>3, <1>4, <1>5, <1>6, <1>7, <1>8, <1>9, <1>10, <1>11
    DEF QueueNext, Call, Return

(* However many threads push and pop, time out or wake up for no reason,   *)
(* messageQueue.h never leaves more messages lying than there are threads  *)
(* up to take them, while another sleeps.                                  *)
THEOREM NoWakeupLost == QueueSpec => [](QueueTypeOK /\ NoLostWakeup)
<1>1. QueueInit => QueueTypeOK /\ NoLostWakeup
    BY DEF QueueInit, QueueTypeOK, NoLostWakeup
<1>2. /\ QueueTypeOK /\ NoLostWakeup
      /\ [QueueNext]_queueVars
      => (QueueTypeOK /\ NoLostWakeup)'
    BY QueueTypes, WakeupStep
<1> QED
    BY <1>1, <1>2, PTL DEF QueueSpec

(* stop() hears of every sleeper (messageQueue.h, stop): as long as the    *)
(* queue is stopped with a thread asleep, notify_all is still to come.     *)
THEOREM StopIsHeard == QueueSpec => []StopReachesSleepers
<1>1. QueueInit => StopReachesSleepers
  BY DEF QueueInit, StopReachesSleepers
<1>2. /\ QueueTypeOK /\ StopReachesSleepers
      /\ [QueueNext]_queueVars
      => StopReachesSleepers'
  <2> SUFFICES ASSUME QueueTypeOK, StopReachesSleepers, [QueueNext]_queueVars,
                      ~m_run', asleep' # {}
               PROVE  \E u \in Caller : call'[u] = "notifyAll"
    BY DEF StopReachesSleepers
  <2> USE DEF QueueTypeOK, Enter, Leave
  <2>1. ASSUME NEW t \in Caller, Stop(t)
        PROVE  \E u \in Caller : call'[u] = "notifyAll"
    BY <2>1 DEF Stop
  <2>2. ASSUME NEW t \in Caller, Sleep(t) \/ Start(t) \/ NotifyAll(t)
        PROVE  FALSE
    BY <2>2 DEF Sleep, Start, NotifyAll
  <2>3. ASSUME NEW t \in Caller,
               \/ \E v \in Msg : PushBack(t, v)
               \/ Pop(t) \/ TimedPop(t) \/ Take(t) \/ GiveUp(t)
               \/ NotifyOne(t) \/ WakeSpuriously(t) \/ TimeOut(t)
        PROVE  \E u \in Caller : call'[u] = "notifyAll"
    <3>1. m_run' = m_run /\ asleep # {}
      BY <2>3 DEF PushBack, Pop, TimedPop, Take, GiveUp, NotifyOne,
                  WakeSpuriously, TimeOut
    <3>2. PICK u \in Caller : call[u] = "notifyAll"
      BY <3>1 DEF StopReachesSleepers
    <3>3. u # t /\ call'[u] = call[u]
      BY <2>3, <3>2 DEF PushBack, Pop, TimedPop, Take, GiveUp, NotifyOne,
                        WakeSpuriously, TimeOut, Awake, Popping
    <3> QED
      BY <3>2, <3>3
  <2>4. CASE UNCHANGED queueVars
    BY <2>4 DEF queueVars, StopReachesSleepers
  <2> QED
    BY <2>1, <2>2, <2>3, <2>4 DEF QueueNext, Call, Return
<1> QED
  BY <1>1, <1>2, NoWakeupLost, PTL DEF QueueSpec

-----------------------------------------------------------------------------
(* What a step of the client is for its queue.                             *)
LEMMA ClientQueueStep ==
  ASSUME TypeOK, Carried, Bounded, [Next]_vars
  PROVE  [QueueNext]_queueVars
<1>u. ASSUME UNCHANGED queue PROVE UNCHANGED queueVars
  BY <1>u DEF queue, queueVars
<1>1. ASSUME NEW p \in Producer, Create(p) PROVE UNCHANGED queue
  BY <1>1 DEF Create
<1>2. ASSUME NEW p \in Producer, CheckSize(p)
      PROVE  Pop(p) \/ UNCHANGED queue
  BY <1>2 DEF CheckSize
<1>3. ASSUME NEW p \in Producer, Discard(p)
      PROVE  Take(p) \/ Sleep(p) \/ WakeSpuriously(p)
  BY <1>3 DEF Discard
<1>4. ASSUME NEW p \in Producer, Push(p)
      PROVE  \E v \in Msg :
               /\ Len(m_msg) < MaxMsgSize + Cardinality(Producer)
               /\ PushBack(p, v)
  <2>1. <<p, count[p]>> \in Msg
    <3>1. count[p] \in 0..MaxSubmit /\ count[p] > 0
      BY <1>4 DEF Push, TypeOK, Carried
    <3> QED
      BY <3>1 DEF Msg
  <2>2. Len(m_msg) < MaxMsgSize + Cardinality(Producer)
    <3>1. Cardinality(Pushers) \in Nat /\ Len(m_msg) \in Nat
      BY Counts DEF Pushers, TypeOK, QueueTypeOK
    <3>2. Cardinality(Producer) \in Nat
      BY FS_CardinalityType
    <3> QED
      BY <3>1, <3>2 DEF Bounded
  <2> QED
    BY <1>4, <2>1, <2>2 DEF Push
<1>5. ASSUME NEW p \in Producer, Notify(p) PROVE NotifyOne(p)
  BY <1>5 DEF Notify
<1>6. CASE WorkerStep \/ WorkerTimeOut
  <2>1. \/ TimedPop(Worker) \/ Take(Worker) \/ Sleep(Worker)
        \/ WakeSpuriously(Worker) \/ GiveUp(Worker) \/ TimeOut(Worker)
        \/ UNCHANGED queue
    BY <1>6
    DEF WorkerStep, WorkerTimeOut, TestRuning, WorkerPop, WorkerNothing, Send
  <2> QED
    BY <1>u, <2>1 DEF QueueNext, Call, Return
<1>7. CASE NewClient \/ Open \/ Close \/ Joined \/ UNCHANGED vars
  <2>1. UNCHANGED queue
    BY <1>7 DEF NewClient, Open, Close, Joined, vars, queue
  <2> QED
    BY <1>u, <2>1
<1>8. ASSUME NEW p \in Producer, PushStep(p) PROVE [QueueNext]_queueVars
  BY <1>u, <1>2, <1>3, <1>4, <1>5, <1>8 DEF PushStep, QueueNext, Call, Return
<1> QED
  BY <1>u, <1>1, <1>6, <1>7, <1>8 DEF Next

(* HttpClient::push and threadfunc use the queue as any caller may, and    *)
(* never push on one that is at its limit and all of its producers over.   *)
THEOREM ClientUsesQueue == Spec => QueueSpec
<1>1. Init => QueueInit
  BY DEF Init
<1>2. TypeOK /\ Carried /\ Bounded /\ [Next]_vars => [QueueNext]_queueVars
  BY ClientQueueStep
<1> QED
  BY <1>1, <1>2, Invariance, PTL DEF Spec, QueueSpec

(* So the worker, and a producer that discards, do not sleep in pop()      *)
(* while a callback lies in the queue that nobody is up to take.           *)
THEOREM ClientLosesNoWakeup == Spec => []NoLostWakeup
BY ClientUsesQueue, NoWakeupLost, PTL
=============================================================================
