-------------------------- MODULE PressTest_proofs --------------------------
(***************************************************************************)
(* Theorems about PressTest, for any sizes, clients, senders and pools and *)
(* a user who waits for a test to end before the next is started: clients  *)
(* are deleted as a whole, and what they share does no harm to one alone.  *)
(***************************************************************************)
EXTENDS PressTest, FiniteSetTheorems, SequenceTheorems, WellFoundedInduction,
        TLAPS

-----------------------------------------------------------------------------
(* The inductive invariant.                                                *)

Creating == {"init", "request", "timers", "push"}
Closing == {"close", "join", "timer", "free"}
Draining == Closing \cup {"drain"}
Created == {c \in Client : client[c].state # "none"}
Block == [id : Nat, units : Nat \ {0}, free : Nat, first : Nat]

Types ==
  /\ TypeOK
  /\ exam \in [Worker -> BOOLEAN] /\ found \in [Worker -> Seq(Block)]
  /\ blocks \in Seq(Block)
  /\ starts \in 0..MaxStarts /\ crowd \in BOOLEAN

(* One test at a time, and the dialog's flags say whether it runs, has     *)
(* been told to end or is over.                                            *)
OneTest ==
  /\ user = "thread" => starts \in Worker
  /\ \A w \in Worker : ~Ended(w) =>
       w = starts /\ user \in {"idle", "close"} /\ (m_testing \/ m_exit)
  /\ m_testing => ~m_exit
  /\ m_testing \/ (m_exit /\ user \in {"idle", "thread"}) =>
       \E w \in Worker : ~Ended(w)
  /\ \A w \in Worker : wpc[w] \in Draining => m_exit

(* A batch that is left has serial numbers, and no loop is endless.        *)
SizesOK ==
  /\ user = "thread" => info.size > 0
  /\ \A w \in Worker :
       /\ ~Ended(w) => info.size > 0
       /\ wpc[w] # "spin"
       /\ wpc[w] = "loop" /\ m_status => size[w] > 0
       /\ wpc[w] \in Creating \cup {"batch", "alloc"} => batches[w] \in Nat
       /\ wpc[w] \in Creating \cup {"batch"} /\ batches[w] > 0 =>
            size[w] > (batches[w] - 1) * BatchSize(w)
       /\ wpc[w] = "alloc" => size[w] > batches[w] * BatchSize(w)
  /\ \A c \in Created : client[c].n > 0

(* Clients are numbered as they come; each that lives is in the list once, *)
(* or in the hands of the worker that creates it.                          *)
Numbered ==
  \E n \in 0..MaxClients : Created = 1..n
InList(c) == \E i \in DOMAIN m_clientlist : m_clientlist[i] = c
AtHand(c) == \E w \in Worker : wpc[w] \in Creating /\ cur[w] = c
ListOK ==
  /\ \A i, j \in DOMAIN m_clientlist :
       m_clientlist[i] = m_clientlist[j] => i = j
  /\ \A c \in Client :
       /\ client[c].state = "live" <=> InList(c) \/ AtHand(c)
       /\ ~(InList(c) /\ AtHand(c))
  /\ \A w \in Worker :
       /\ wpc[w] \in Creating => cur[w] \in Client
       /\ wpc[w] \in Closing =>
            m_clientlist # <<>> /\ cur[w] = Head(m_clientlist)
  /\ m_clientlist # <<>> => \E w \in Worker : ~Ended(w)

(* A client that is deleted has ended, step by step.                       *)
SendersEnded(c) == \A k \in Sender : sender[c][k] = "end"
TimersEnded(c) == ~client[c].timer /\ ~client[c].beating
EndedOK ==
  /\ \A c \in Client : client[c].state = "deleted" =>
       SendersEnded(c) /\ TimersEnded(c) /\ g_flag
  /\ \A w \in Worker :
       /\ wpc[w] \in {"join", "timer", "free"} => g_flag
       /\ wpc[w] \in {"timer", "free"} => SendersEnded(cur[w])
       /\ wpc[w] = "free" => TimersEnded(cur[w])

(* The exam timer of a client that knows its reactor is cancelled.         *)
CancelledOK ==
  \A c \in Client : client[c].state = "deleted" /\ c \in Knowing =>
    ~client[c].scheduled

(* What the senders share, while there is one client at a time: ticks are  *)
(* taken by the first client only, as all senders end with it.             *)
AloneOK ==
  /\ \A w \in Worker : wpc[w] \in {"request", "timers", "push"} =>
       client[cur[w]].listed
  /\ \A c \in Client :
       /\ client[c].scheduled => client[c].listed
       /\ client[c].listed => c \in Created
  /\ \A k \in Sender : count[k] # 0 => \E c \in Client : client[c].listed
  /\ \A c \in Client, k \in Sender :
       /\ sender[c][k] # "none" => c \in Created
       /\ sender[c][k] = "send" => \E d \in Client : client[d].listed
  /\ ~crowd =>
       /\ ~g_flag => Created \subseteq {1}
       /\ \A k \in Sender :
            /\ count[k] >= 0
            /\ \A c \in Client : sender[c][k] = "send" =>
                 c = 1 /\ client[c].listed /\ count[k] > 0
       /\ fault = "range" =>
            \E c \in Client : client[c].n \in 1..Senders * Share - 1
  /\ fault # "deleted"

(* Each block has a number of its own and gives its units in their order.  *)
Pool(B) ==
  \A i \in DOMAIN B :
    /\ B[i].id = Len(B) + 1 - i
    /\ B[i].free < B[i].units
    /\ B[i].free > 0 => B[i].first = B[i].units - B[i].free
Given(u, B) ==
  \E i \in DOMAIN B : \E j \in Nat :
    u = <<B[i].id, j>> /\ j < B[i].units - B[i].free
SharesOK ==
  /\ Pool(blocks)
  /\ \A w \in Worker : wpc[w] = "alloc" => found[w] = blocks
  /\ \A c \in Created :
       /\ Given(client[c].unit, blocks)
       /\ \A d \in Created : c # d => client[c].unit # client[d].unit
  /\ \A c \in Live :
       /\ client[c].first + client[c].n <= g_sn
       /\ \A d \in Live : c # d =>
            \/ client[c].first + client[c].n <= client[d].first
            \/ client[d].first + client[d].n <= client[c].first

Inv ==
  /\ Types /\ OneTest /\ SizesOK /\ Numbered /\ ListOK
  /\ EndedOK /\ CancelledOK /\ AloneOK /\ SharesOK

-----------------------------------------------------------------------------
(* Numbers.                                                                *)

(* A number that divides leaves its multiples below the number divided.    *)
LEMMA Quotients ==
  ASSUME NEW n \in Nat \ {0}, NEW b \in Nat \ {0}
  PROVE  /\ n \div b \in Nat /\ n % b \in 0..b-1
         /\ n = (n \div b) * b + (n % b)
<1>1. n \div b \in Nat
  OBVIOUS
<1>2. n % b \in 0..b-1
  OBVIOUS
<1>3. n = b * (n \div b) + (n % b)
  OBVIOUS
<1> QED
  BY <1>1, <1>2, <1>3

LEMMA SmallRemainder ==
  ASSUME NEW n \in Nat, NEW b \in Nat, n < b
  PROVE  n % b = n
OBVIOUS

(* As many batches as are counted are needed.                              *)
LEMMA CountOf ==
  ASSUME NEW n \in Nat \ {0}, NEW b \in Nat \ {0}
  PROVE  Count(n, b) \in Nat /\ n > (Count(n, b) - 1) * b
<1>1. PICK q \in Nat : q = n \div b
  BY Quotients
<1>2. PICK r \in 0..b-1 : r = n % b
  BY Quotients
<1>3. n = q * b + r
  BY <1>1, <1>2, Quotients
<1>4. CASE r = 0
  <2>1. Count(n, b) = q
    BY <1>1, <1>2, <1>4 DEF Count
  <2>2. (q - 1) * b = q * b - b
    OBVIOUS
  <2>3. q * b \in Nat
    OBVIOUS
  <2> QED
    BY <1>3, <1>4, <2>1, <2>2, <2>3
<1>5. CASE r # 0
  <2>1. Count(n, b) = 1 + q
    BY <1>1, <1>2, <1>5 DEF Count
  <2>2. q * b \in Nat /\ (1 + q) - 1 = q /\ 1 + q \in Nat
    OBVIOUS
  <2> QED
    BY <1>3, <1>5, <2>1, <2>2
<1> QED
  BY <1>4, <1>5

(* What a client takes off the size leaves enough for the batches to come. *)
LEMMA RestOf ==
  ASSUME NEW n \in Int, NEW b \in Nat \ {0}, NEW k \in Nat, n > k * b
  PROVE  /\ Mantissa(n, b) \in Nat \ {0} /\ Rest(n, b) \in Int
         /\ k > 0 => Rest(n, b) > (k - 1) * b
<1>1. k * b \in Nat
  OBVIOUS
<1>2. (k - 1) * b = k * b - b
  OBVIOUS
<1>3. k > 0 => k * b >= b
  OBVIOUS
<1> QED
  BY <1>1, <1>2, <1>3 DEF Mantissa, Rest

-----------------------------------------------------------------------------
(* The pool.                                                               *)

(* Numbers have a least one.                                               *)
LEMMA LeastOf ==
  ASSUME NEW T, T \subseteq Nat, T # {}
  PROVE  \E x \in T : \A y \in T : x <= y
<1> DEFINE R == {ss \in Nat \X Nat : ss[1] < ss[2]}
<1>1. IsWellFoundedOn(R, Nat)
  BY NatLessThanWellFounded DEF OpToRel
<1>2. PICK x \in T : \A y \in T : ~(<<y, x>> \in R)
  <2> HIDE DEF R
  <2> QED
    BY <1>1, WFMin
<1>3. ASSUME NEW y \in T PROVE x <= y
  <2>1. x \in Nat /\ y \in Nat
    OBVIOUS
  <2>2. y < x => <<y, x>> \in R
    BY <2>1
  <2> QED
    BY <1>2, <2>1, <2>2
<1> QED
  BY <1>3

(* The search for a block finds one with a free unit, or there is none.    *)
Search(B) == SelectInSeq(B, LAMBDA b : b.free > 0)
LEMMA SearchOf ==
  ASSUME NEW B \in Seq(Block)
  PROVE  Search(B) = 0 \/ (Search(B) \in DOMAIN B /\ B[Search(B)].free > 0)
<1> DEFINE I == {i \in 1..Len(B) : B[i].free > 0}
<1>1. CASE I = {}
  BY <1>1 DEF Search, SelectInSeq
<1>2. CASE I # {}
  <2>1. Search(B) = Min(I)
    BY <1>2 DEF Search, SelectInSeq
  <2>2. \E x \in I : \A y \in I : x <= y
    <3>1. I \subseteq Nat
      OBVIOUS
    <3> HIDE DEF I
    <3> QED
      BY <1>2, <3>1, LeastOf
  <2>3. Min(I) \in I
    <3> HIDE DEF I
    <3> QED
      BY <2>2 DEF Min
  <2> QED
    BY <2>1, <2>3
<1> QED
  BY <1>1, <1>2

(* The number of a block says where it is in the list.                     *)
LEMMA BlockIds ==
  ASSUME NEW B \in Seq(Block), Pool(B)
  PROVE  /\ \A i \in DOMAIN B : B[i].id \in 1..Len(B)
         /\ \A i, k \in DOMAIN B : B[i].id = B[k].id => i = k
<1>1. DOMAIN B = 1..Len(B) /\ Len(B) \in Nat
  OBVIOUS
<1>2. \A i \in DOMAIN B : B[i].id = Len(B) + 1 - i
  BY DEF Pool
<1>3. \A i \in DOMAIN B : B[i].id \in 1..Len(B)
  BY <1>1, <1>2
<1>4. ASSUME NEW i \in DOMAIN B, NEW k \in DOMAIN B, B[i].id = B[k].id
      PROVE  i = k
  <2>1. Len(B) + 1 - i = Len(B) + 1 - k
    BY <1>2, <1>4
  <2> QED
    BY <1>1, <2>1
<1> QED
  BY <1>3, <1>4

(* What Alloc returns when a block has a free unit, and otherwise.         *)
LEMMA AllocOld ==
  ASSUME NEW B \in Seq(Block), Pool(B), Search(B) # 0
  PROVE  /\ Search(B) \in DOMAIN B
         /\ B[Search(B)].free > 0
         /\ Alloc(B).unit = <<B[Search(B)].id, B[Search(B)].first>>
         /\ Alloc(B).blocks =
              [B EXCEPT ![Search(B)].first = (@ + 1) % B[Search(B)].units,
                        ![Search(B)].free = @ - 1]
BY SearchOf DEF Alloc, Search

LEMMA AllocNew ==
  ASSUME NEW B \in Seq(Block), Search(B) = 0
  PROVE  \E units \in Nat \ {0} :
           /\ Alloc(B).unit = <<Len(B) + 1, 0>>
           /\ Alloc(B).blocks = <<NewBlock(Len(B) + 1, units)>> \o B
<1>1. {initBlockCount, growBlockcount} \subseteq Nat \ {0}
  BY PressTestAssumption
<1> QED
  BY <1>1 DEF Alloc, Search

(* Alloc keeps the blocks in order, and gives a unit that was not given    *)
(* before and is given then.                                               *)
LEMMA AllocOf ==
  ASSUME NEW B \in Seq(Block), Pool(B)
  PROVE  /\ Alloc(B).blocks \in Seq(Block) /\ Pool(Alloc(B).blocks)
         /\ Alloc(B).unit \in Seq(Nat)
         /\ ~Given(Alloc(B).unit, B)
         /\ Given(Alloc(B).unit, Alloc(B).blocks)
         /\ \A u : Given(u, B) => Given(u, Alloc(B).blocks)
<1> DEFINE unit == Alloc(B).unit
           C == Alloc(B).blocks
<1>1. CASE Search(B) # 0
  <2>1. PICK s \in DOMAIN B :
          /\ B[s].free > 0
          /\ unit = <<B[s].id, B[s].first>>
          /\ C = [B EXCEPT ![s].first = (@ + 1) % B[s].units,
                           ![s].free = @ - 1]
    BY <1>1, AllocOld, Zenon
  <2> DEFINE b == B[s]
  <2>a. b \in Block
    OBVIOUS
  <2>b. b.free < b.units /\ b.free > 0 /\ b.first = b.units - b.free
    BY <2>1 DEF Pool
  <2> HIDE DEF b
  <2>c. b.free \in Nat /\ b.units \in Nat /\ b.first \in Nat /\ b.id \in Nat
    BY <2>a DEF Block
  <2>2. /\ b \in Block /\ b.free \in Nat \ {0} /\ b.units \in Nat \ {0}
        /\ b.free < b.units /\ b.first = b.units - b.free /\ b.id \in Nat
        /\ b.first \in Nat
    BY <2>a, <2>b, <2>c
  <2>3. /\ (b.first + 1) % b.units \in Nat
        /\ b.free > 1 => (b.first + 1) % b.units = b.first + 1
    <3>1. b.free > 1 => b.first + 1 < b.units
      BY <2>2
    <3>2. b.first + 1 \in Nat /\ (b.first + 1) % b.units \in Nat
      BY <2>2
    <3> HIDE DEF b
    <3> QED
      BY <2>2, <3>1, <3>2, SmallRemainder
  <2> DEFINE d == [b EXCEPT !.first = (@ + 1) % b.units, !.free = @ - 1]
  <2>4. /\ d \in Block /\ d.id = b.id /\ d.units = b.units
        /\ d.free = b.free - 1
    <3>1. b.free - 1 \in Nat
      BY <2>2
    <3> HIDE DEF b
    <3> QED
      BY <2>2, <2>3, <3>1 DEF Block
  <2>f. b.free > 1 => d.first = b.first + 1
    BY <2>3
  <2>g. d.units - d.free = b.first + 1
    <3>1. \A u, f, g \in Nat : g = u - f => u - (f - 1) = g + 1
      OBVIOUS
    <3>2. b.units - (b.free - 1) = b.first + 1
      BY <2>b, <2>c, <3>1, Zenon
    <3> QED
      BY <2>4, <3>2, Zenon
  <2>5. C = [B EXCEPT ![s] = d]
    BY <2>1, Zenon DEF b
  <2>6. C \in Seq(Block) /\ Len(C) = Len(B) /\ DOMAIN C = DOMAIN B
    <3> HIDE DEF d, C
    <3> QED
      BY <2>4, <2>5
  <2>7. \A i \in DOMAIN B : C[i] = IF i = s THEN d ELSE B[i]
    <3> HIDE DEF d, C
    <3> QED
      BY <2>5
  <2> HIDE DEF C, d, unit
  <2>8. Pool(C)
    <3> SUFFICES ASSUME NEW i \in DOMAIN C
                 PROVE  /\ C[i].id = Len(C) + 1 - i
                        /\ C[i].free < C[i].units
                        /\ C[i].free > 0 =>
                             C[i].first = C[i].units - C[i].free
      BY DEF Pool
    <3>1. CASE i = s
      <4>1. b.id = Len(B) + 1 - s
        BY <2>6 DEF Pool, b
      <4>2. d.free < d.units
        BY <2>2, <2>4
      <4>3. d.free > 0 => d.first = d.units - d.free
        <5>1. d.free > 0 => b.free > 1
          BY <2>2, <2>4
        <5> QED
          BY <2>f, <2>g, <5>1
      <4> QED
        BY <2>4, <2>6, <2>7, <3>1, <4>1, <4>2, <4>3
    <3>2. CASE i # s
      <4>1. C[i] = B[i] /\ i \in DOMAIN B
        BY <2>6, <2>7, <3>2
      <4> QED
        BY <2>6, <4>1, Zenon DEF Pool
    <3> QED
      BY <3>1, <3>2
  <2>9. unit \in Seq(Nat)
    <3>1. b.id \in Nat /\ b.first \in Nat
      BY <2>2
    <3> QED
      BY <2>1, <3>1 DEF b
  <2>10. ~Given(unit, B)
    <3> SUFFICES ASSUME NEW i \in DOMAIN B, NEW j \in Nat,
                        unit = <<B[i].id, j>>, j < B[i].units - B[i].free
                 PROVE  FALSE
      BY DEF Given
    <3>1. B[i].id = b.id /\ j = b.first
      BY <2>1 DEF b
    <3>2. i = s
      BY <3>1, BlockIds DEF b
    <3>3. b.first < b.units - b.free
      BY <3>1, <3>2 DEF b
    <3> QED
      BY <2>2, <3>3
  <2>11. Given(unit, C)
    <3>1. /\ s \in DOMAIN C /\ C[s] = d /\ b.first \in Nat
          /\ unit = <<C[s].id, b.first>>
      BY <2>1, <2>2, <2>4, <2>6, <2>7 DEF b
    <3>2. b.first < C[s].units - C[s].free
      BY <2>2, <2>4, <3>1
    <3> QED
      BY <3>1, <3>2 DEF Given
  <2>12. ASSUME NEW u, Given(u, B) PROVE Given(u, C)
    <3>1. PICK i \in DOMAIN B, j \in Nat :
            u = <<B[i].id, j>> /\ j < B[i].units - B[i].free
      BY <2>12 DEF Given
    <3>2. /\ i \in DOMAIN C /\ C[i].id = B[i].id
          /\ j < C[i].units - C[i].free
      <4>1. CASE i = s
        <5>1. C[i] = d /\ i \in DOMAIN C
          BY <2>6, <2>7, <4>1
        <5>2. j < b.units - b.free /\ b.id = B[i].id
          BY <3>1, <4>1 DEF b
        <5>4. j < b.first
          BY <2>2, <5>2
        <5>5. j < d.units - d.free
          BY <2>2, <2>g, <5>4
        <5> QED
          BY <2>4, <5>1, <5>2, <5>5
      <4>2. CASE i # s
        BY <2>6, <2>7, <3>1, <4>2
      <4> QED
        BY <4>1, <4>2
    <3>3. u = <<C[i].id, j>>
      BY <3>1, <3>2
    <3> QED
      BY <3>2, <3>3 DEF Given
  <2> QED
    BY <2>6, <2>8, <2>9, <2>10, <2>11, <2>12 DEF C, unit
<1>2. CASE Search(B) = 0
  <2>1. PICK units \in Nat \ {0} :
          /\ unit = <<Len(B) + 1, 0>>
          /\ C = <<NewBlock(Len(B) + 1, units)>> \o B
    BY <1>2, AllocNew, Zenon
  <2> DEFINE b == NewBlock(Len(B) + 1, units)
  <2>2. /\ b \in Block /\ b.id = Len(B) + 1 /\ b.units = units
        /\ b.free = units - 1 /\ b.first = 1
    BY DEF NewBlock, Block
  <2> HIDE DEF C, unit, b
  <2>3. /\ C \in Seq(Block) /\ Len(C) = Len(B) + 1 /\ DOMAIN C = 1..Len(B) + 1
        /\ C[1] = b /\ \A i \in DOMAIN B : C[i + 1] = B[i] /\ i + 1 \in DOMAIN C
    <3>1. C = <<b>> \o B
      BY <2>1 DEF b
    <3>2. <<b>> \in Seq(Block) /\ Len(<<b>>) = 1 /\ <<b>>[1] = b
      BY <2>2
    <3> QED
      BY <3>1, <3>2
  <2>4. Pool(C)
    <3> SUFFICES ASSUME NEW i \in DOMAIN C
                 PROVE  /\ C[i].id = Len(C) + 1 - i
                        /\ C[i].free < C[i].units
                        /\ C[i].free > 0 =>
                             C[i].first = C[i].units - C[i].free
      BY DEF Pool
    <3>1. CASE i = 1
      BY <2>2, <2>3, <3>1
    <3>2. CASE i # 1
      <4>1. i - 1 \in DOMAIN B /\ (i - 1) + 1 = i
        BY <2>3, <3>2
      <4>2. C[i] = B[i - 1]
        BY <2>3, <4>1
      <4>3. /\ B[i - 1].id = Len(B) + 1 - (i - 1)
            /\ B[i - 1].free < B[i - 1].units
            /\ B[i - 1].free > 0 =>
                 B[i - 1].first = B[i - 1].units - B[i - 1].free
        BY <4>1, Zenon DEF Pool
      <4>4. Len(B) + 1 - (i - 1) = Len(C) + 1 - i
        BY <2>3
      <4> QED
        BY <4>2, <4>3, <4>4
    <3> QED
      BY <3>1, <3>2
  <2>5. unit \in Seq(Nat)
    BY <2>1
  <2>6. ~Given(unit, B)
    <3> SUFFICES ASSUME NEW i \in DOMAIN B, NEW j \in Nat,
                        unit = <<B[i].id, j>>
                 PROVE  FALSE
      BY DEF Given
    <3>1. B[i].id = Len(B) + 1
      BY <2>1
    <3>2. B[i].id \in 1..Len(B) /\ Len(B) \in Nat
      BY BlockIds
    <3> QED
      BY <3>1, <3>2
  <2>7. Given(unit, C)
    <3>1. 1 \in DOMAIN C /\ C[1] = b /\ unit = <<C[1].id, 0>>
      BY <2>1, <2>2, <2>3
    <3>2. 0 < C[1].units - C[1].free
      BY <2>2, <3>1
    <3> QED
      BY <3>1, <3>2 DEF Given
  <2>8. ASSUME NEW u, Given(u, B) PROVE Given(u, C)
    <3>1. PICK i \in DOMAIN B, j \in Nat :
            u = <<B[i].id, j>> /\ j < B[i].units - B[i].free
      BY <2>8 DEF Given
    <3>2. i + 1 \in DOMAIN C /\ C[i + 1] = B[i]
      BY <2>3
    <3> QED
      BY <3>1, <3>2 DEF Given
  <2> QED
    BY <2>3, <2>4, <2>5, <2>6, <2>7, <2>8 DEF C, unit
<1> QED
  BY <1>1, <1>2

-----------------------------------------------------------------------------
(* Types.                                                                  *)

(* A batch is not empty.                                                   *)
LEMMA BatchOf == \A w : BatchSize(w) \in Nat \ {0} /\ BatchSize(w)' \in Nat \ {0}
BY PressTestAssumption DEF BatchSize

(* The client at hand is one.                                              *)
LEMMA AtCur ==
  ASSUME Types, ListOK, NEW w \in Worker, wpc[w] \in Creating \cup Closing
  PROVE  cur[w] \in Client
<1>1. m_clientlist \in Seq(Client)
  BY DEF Types, TypeOK
<1>2. CASE wpc[w] \in Closing
  <2>1. m_clientlist # <<>> /\ cur[w] = Head(m_clientlist)
    BY <1>2 DEF ListOK
  <2> QED
    BY <1>1, <2>1
<1> QED
  BY <1>2 DEF ListOK

(* The types of the dialog, the workers, the clients and the rest.         *)
DialogTypes ==
  /\ m_status \in BOOLEAN /\ m_exit \in BOOLEAN /\ m_testing \in BOOLEAN
  /\ m_Thread \in Worker \cup {None}
  /\ info \in [size : Sizes \cup {0, -1}, exam : BOOLEAN]
  /\ g_sn \in Nat
  /\ user \in {"idle", "thread", "exit", "close"}
  /\ starts \in 0..MaxStarts
Places == {"none", "read", "loop", "batch", "alloc", "init", "request",
           "timers", "push", "drain", "close", "join", "timer", "free", "rows",
           "spin", "end"}
WorkerTypes ==
  /\ wpc \in [Worker -> Places]
  /\ size \in [Worker -> Int] /\ batches \in [Worker -> Int]
  /\ exam \in [Worker -> BOOLEAN]
  /\ cur \in [Worker -> Client \cup {None}]
  /\ found \in [Worker -> Seq(Block)]
ClientTypes ==
  /\ m_clientlist \in Seq(Client)
  /\ client \in [Client -> ClientType]
  /\ sender \in [Client -> [Sender -> {"none", "check", "send", "end"}]]
GlobalTypes ==
  /\ count \in [Sender -> -MaxCount..MaxCount]
  /\ g_flag \in BOOLEAN
  /\ blocks \in Seq(Block)
  /\ fault \in {"none", "range", "deleted", "timer"}
  /\ crowd \in BOOLEAN

LEMMA TypesAre ==
  Types <=> DialogTypes /\ WorkerTypes /\ ClientTypes /\ GlobalTypes
<1>1. {m_status, m_exit, m_testing, g_flag} \subseteq BOOLEAN <=>
        /\ m_status \in BOOLEAN /\ m_exit \in BOOLEAN
        /\ m_testing \in BOOLEAN /\ g_flag \in BOOLEAN
  BY Zenon
<1> QED
  BY <1>1, Zenon
  DEF Types, TypeOK, DialogTypes, WorkerTypes, ClientTypes, GlobalTypes, Places

LEMMA TypesAreThen ==
  Types' <=> DialogTypes' /\ WorkerTypes' /\ ClientTypes' /\ GlobalTypes'
BY TypesAre, PTL

(* What a new client is, numbered after those before it.                   *)
Fresh == Cardinality(Created) + 1
NewClient(n, u) ==
  [client EXCEPT ![Fresh].state = "live", ![Fresh].unit = u,
                 ![Fresh].first = g_sn, ![Fresh].n = IF n > 0 THEN n ELSE 0]
LEMMA NewIs ==
  ASSUME NEW w \in Worker, New(w)
  PROVE  /\ Fresh \in Client
         /\ Go(w, "alloc", IF size[w] < 0 THEN "spin" ELSE "init")
         /\ cur' = [cur EXCEPT ![w] = Fresh]
         /\ size' = [size EXCEPT ![w] = Rest(@, BatchSize(w))]
         /\ LET n == Mantissa(size[w], BatchSize(w))
            IN  /\ client' = NewClient(n, Alloc(found[w]).unit)
                /\ g_sn' = IF n > 0 THEN g_sn + n ELSE g_sn
         /\ sender' = [sender EXCEPT ![Fresh] = [k \in Sender |-> "check"]]
         /\ UNCHANGED <<m_status, m_exit, m_testing, m_Thread, info, user,
                        batches, exam, m_clientlist, count, g_flag, fault,
                        starts>>
BY Zenon DEF New, Fresh, Created, NewClient
LEMMA NewTakes ==
  ASSUME NEW w \in Worker, New(w)
  PROVE  /\ found' = [found EXCEPT ![w] = <<>>]
         /\ blocks' = Alloc(found[w]).blocks
         /\ crowd' = (crowd \/ Live # {})
BY Zenon DEF New

(* A worker goes from place to place.                                      *)
LEMMA GoTypes ==
  ASSUME WorkerTypes, NEW w \in Worker, NEW from, NEW to, Go(w, from, to)
  PROVE  /\ to \in Places => wpc' \in [Worker -> Places]
         /\ wpc[w] = from /\ wpc'[w] = to
         /\ \A v \in Worker : v # w => wpc'[v] = wpc[v]
BY DEF WorkerTypes, Go

LEMMA DialogTypesStep ==
  ASSUME DialogTypes, WorkerTypes, [Next]_vars
  PROVE  DialogTypes'
<1> USE DEF DialogTypes
<1>1. CASE Start
  <2>1. /\ info' \in [size : Sizes \cup {0, -1}, exam : BOOLEAN]
        /\ user' \in {"idle", "thread", "exit", "close"} /\ g_sn' = 0
    BY <1>1 DEF Start, GetInfo
  <2>2. m_status' \in BOOLEAN
    BY <1>1, Zenon DEF Start, GetInfo
  <2>3. starts' \in 0..MaxStarts
    BY <1>1, PressTestAssumption DEF Start
  <2>4. UNCHANGED <<m_exit, m_testing, m_Thread>>
    BY <1>1 DEF Start
  <2> QED
    BY <2>1, <2>2, <2>3, <2>4
<1>2. CASE StartThread
  <2>1. m_Thread' \in Worker \cup {None}
    <3>1. starts \in 0..MaxStarts /\ None = 0
      BY DEF None
    <3> QED
      BY <1>2, <3>1 DEF StartThread, Worker
  <2>2. m_testing' \in BOOLEAN /\ user' = "idle"
    BY <1>2, Zenon DEF StartThread
  <2> QED
    BY <1>2, <2>1, <2>2 DEF StartThread, history
<1>3. CASE Stop \/ Exit \/ OnSysCommand
  BY <1>3 DEF Stop, Exit, OnSysCommand, CloseWindow, Close, history
<1>4. ASSUME NEW w \in Worker, Begun(w) PROVE DialogTypes'
  BY <1>4 DEF Begun, history
<1>5. ASSUME NEW w \in Worker, New(w) PROVE DialogTypes'
  <2>1. g_sn' \in Nat
    <3>1. size[w] \in Int /\ BatchSize(w) \in Nat
      BY BatchOf DEF WorkerTypes
    <3>2. Mantissa(size[w], BatchSize(w)) \in Int
      BY <3>1 DEF Mantissa
    <3> QED
      BY <1>5, <3>2, NewIs
  <2> QED
    BY <1>5, <2>1, NewIs
<1>6. ASSUME NEW w \in Worker, Finish(w) PROVE DialogTypes'
  <2>1. info' \in [size : Sizes \cup {0, -1}, exam : BOOLEAN]
    BY <1>6 DEF Finish
  <2>2. m_exit' \in BOOLEAN
    BY <1>6, Zenon DEF Finish
  <2> QED
    BY <1>6, <2>1, <2>2 DEF Finish, history
<1>7. ASSUME \/ \E w \in Worker :
                  \/ ReadSize(w) \/ Begin(w) \/ NewRead(w) \/ InitList(w)
                  \/ InitRequest(w) \/ InitTimers(w) \/ Push(w) \/ BeginDrain(w)
                  \/ Drain(w) \/ CloseStart(w) \/ CloseJoin(w) \/ CloseTimer(w)
                  \/ Delete(w)
             \/ \E c \in Client : TimerQueue(c) \/ Reactor(c)
             \/ \E c \in Client, k \in Sender : SendHartPacket(c, k)
             \/ UNCHANGED vars
      PROVE  UNCHANGED <<dialog, starts>>
  BY <1>7, Zenon
  DEF ReadSize, Begin, NewRead, InitList, InitRequest, InitTimers, SetClient,
      Push, BeginDrain, Drain, CloseStart, CloseJoin, CloseTimer, CloseStep,
      Delete, TimerQueue, Beat, Beaten, Reactor, Tick, TickEnds, SendHartPacket,
      Look, Send, SenderEnds, SetSender, vars, history
<1>8. ASSUME UNCHANGED <<dialog, starts>> PROVE DialogTypes'
  BY <1>8 DEF dialog
<1> QED
  BY <1>1, <1>2, <1>3, <1>4, <1>5, <1>6, <1>7, <1>8 DEF Next, User, Work

LEMMA WorkerTypesStep ==
  ASSUME DialogTypes, WorkerTypes, ClientTypes, GlobalTypes, [Next]_vars
  PROVE  WorkerTypes'
<1> USE DEF worker
<1>1. CASE StartThread
  <2>1. wpc' \in [Worker -> Places]
    <3>1. CASE UNCHANGED wpc
      BY <3>1 DEF WorkerTypes
    <3>2. CASE wpc' = [wpc EXCEPT ![starts] = "read"]
      BY <3>2 DEF WorkerTypes, Places
    <3> QED
      BY <1>1, <3>1, <3>2 DEF StartThread
  <2> QED
    BY <1>1, <2>1 DEF StartThread, WorkerTypes
<1>2. ASSUME NEW w \in Worker, ReadSize(w) PROVE WorkerTypes'
  <2>1. wpc' \in [Worker -> Places]
    BY <1>2, GoTypes DEF ReadSize, Places
  <2>2. size' \in [Worker -> Int]
    <3>1. info.size \in Int
      <4>1. Sizes \cup {0, -1} \subseteq Int
        BY PressTestAssumption
      <4> QED
        BY <4>1 DEF DialogTypes
    <3> QED
      BY <1>2, <3>1 DEF ReadSize, WorkerTypes
  <2> QED
    BY <1>2, <2>1, <2>2 DEF ReadSize, WorkerTypes
<1>3. ASSUME NEW w \in Worker, Begin(w) PROVE WorkerTypes'
  <2>1. wpc' \in [Worker -> Places]
    BY <1>3, GoTypes DEF Begin, Places
  <2>2. exam' \in [Worker -> BOOLEAN]
    BY <1>3 DEF Begin, WorkerTypes, DialogTypes
  <2>3. batches' \in [Worker -> Int]
    <3>1. size[w] \in Int /\ BatchSize(w)' \in Nat \ {0}
      BY BatchOf DEF WorkerTypes
    <3>2. Count(size[w], BatchSize(w)') \in Int
      BY <3>1 DEF Count
    <3> QED
      BY <1>3, <3>2 DEF Begin, WorkerTypes
  <2> QED
    BY <1>3, <2>1, <2>2, <2>3 DEF Begin, WorkerTypes
<1>4. ASSUME NEW w \in Worker, Begun(w) \/ BeginDrain(w) \/ Finish(w)
      PROVE  WorkerTypes'
  <2>1. wpc' \in [Worker -> Places]
    BY <1>4, GoTypes DEF Begun, BeginDrain, Finish, Places
  <2>2. UNCHANGED <<size, batches, exam, cur, found>>
    BY <1>4 DEF Begun, BeginDrain, Finish
  <2> QED
    BY <2>1, <2>2 DEF WorkerTypes
<1>5. ASSUME NEW w \in Worker, NewRead(w) PROVE WorkerTypes'
  <2>1. wpc' \in [Worker -> Places]
    BY <1>5, GoTypes DEF NewRead, Places
  <2>2. UNCHANGED <<size, exam, cur>>
    BY <1>5 DEF NewRead
  <2>3. batches' \in [Worker -> Int] /\ found' \in [Worker -> Seq(Block)]
    BY <1>5 DEF NewRead, WorkerTypes, GlobalTypes
  <2> QED
    BY <2>1, <2>2, <2>3 DEF WorkerTypes
<1>6. ASSUME NEW w \in Worker, New(w) PROVE WorkerTypes'
  <2>1. wpc' \in [Worker -> Places]
    BY <1>6, NewIs, GoTypes DEF Places
  <2>2. size' \in [Worker -> Int]
    <3>1. size[w] \in Int /\ BatchSize(w) \in Nat
      BY BatchOf DEF WorkerTypes
    <3>2. Rest(size[w], BatchSize(w)) \in Int
      BY <3>1 DEF Rest
    <3> QED
      BY <1>6, <3>2, NewIs DEF WorkerTypes
  <2>3. cur' \in [Worker -> Client \cup {None}]
    BY <1>6, NewIs DEF WorkerTypes
  <2>4. found' \in [Worker -> Seq(Block)]
    <3>1. found' = [found EXCEPT ![w] = <<>>]
      BY <1>6, NewTakes, Zenon
    <3>2. <<>> \in Seq(Block)
      OBVIOUS
    <3> QED
      BY <3>1, <3>2 DEF WorkerTypes
  <2> QED
    BY <1>6, <2>1, <2>2, <2>3, <2>4, NewIs DEF WorkerTypes
<1>7. ASSUME NEW w \in Worker, \/ InitList(w) \/ InitRequest(w) \/ InitTimers(w)
                               \/ Push(w) \/ CloseStart(w) \/ CloseJoin(w)
                               \/ CloseTimer(w) \/ Delete(w) \/ Drain(w)
      PROVE  WorkerTypes'
  <2>1. wpc' \in [Worker -> Places]
    BY <1>7, GoTypes
    DEF InitList, InitRequest, InitTimers, Push, CloseStart, CloseJoin,
        CloseTimer, Delete, CloseStep, Drain, Places
  <2>2. UNCHANGED <<size, batches, exam, found>>
    BY <1>7, Zenon
    DEF InitList, InitRequest, InitTimers, SetClient, Push, CloseStart,
        CloseJoin, CloseTimer, Delete, CloseStep, Drain
  <2>3. cur' \in [Worker -> Client \cup {None}]
    <3>1. CASE Drain(w)
      <4>1. Head(m_clientlist) \in Client
        BY <3>1 DEF Drain, ClientTypes
      <4> QED
        BY <3>1, <4>1 DEF Drain, WorkerTypes
    <3>2. CASE Push(w) \/ Delete(w)
      BY <3>2 DEF Push, Delete, WorkerTypes
    <3>3. CASE \/ InitList(w) \/ InitRequest(w) \/ InitTimers(w)
               \/ CloseStart(w) \/ CloseJoin(w) \/ CloseTimer(w)
      <4>1. cur' = cur
        BY <3>3, Zenon
        DEF InitList, InitRequest, InitTimers, SetClient, CloseStart, CloseJoin,
            CloseTimer
      <4> QED
        BY <4>1 DEF WorkerTypes
    <3> QED
      BY <1>7, <3>1, <3>2, <3>3
  <2> QED
    BY <2>1, <2>2, <2>3 DEF WorkerTypes
<1>8. ASSUME \/ Start \/ Stop \/ Exit \/ OnSysCommand
             \/ \E c \in Client : TimerQueue(c) \/ Reactor(c)
             \/ \E c \in Client, k \in Sender : SendHartPacket(c, k)
             \/ UNCHANGED vars
      PROVE  UNCHANGED worker
  BY <1>8, Zenon
  DEF Start, Stop, Exit,
      OnSysCommand, CloseWindow, TimerQueue, Beat, Beaten, Reactor, Tick,
      TickEnds,
      SendHartPacket, Look, Send, SenderEnds, SetSender, vars
<1>9. ASSUME UNCHANGED worker PROVE WorkerTypes'
  BY <1>9 DEF WorkerTypes
<1> QED
  BY <1>1, <1>2, <1>3, <1>4, <1>5, <1>6, <1>7, <1>8, <1>9 DEF Next, User, Work

(* The fields of a client keep their types.                                *)
LEMMA FieldTypes ==
  ASSUME NEW r \in ClientType, NEW b \in BOOLEAN
  PROVE  /\ [r EXCEPT !.listed = b] \in ClientType
         /\ [r EXCEPT !.exit = b] \in ClientType
         /\ [r EXCEPT !.timer = b] \in ClientType
         /\ [r EXCEPT !.beating = b] \in ClientType
         /\ [r EXCEPT !.beating = b, !.start = TRUE] \in ClientType
         /\ [r EXCEPT !.scheduled = b] \in ClientType
         /\ [[r EXCEPT !.scheduled = b] EXCEPT !.state = "deleted",
                                               !.start = FALSE] \in ClientType
         /\ [r EXCEPT !.state = "deleted", !.start = FALSE] \in ClientType
BY DEF ClientType

LEMMA ClientTypesStep ==
  ASSUME Types, ListOK, SharesOK, [Next]_vars
  PROVE  ClientTypes'
<1>0. DialogTypes /\ WorkerTypes /\ ClientTypes /\ GlobalTypes
  BY TypesAre
<1>l. UNCHANGED m_clientlist => m_clientlist' \in Seq(Client)
  BY <1>0 DEF ClientTypes
<1>c. UNCHANGED client => client' \in [Client -> ClientType]
  BY <1>0 DEF ClientTypes
<1>s. UNCHANGED sender =>
        sender' \in [Client -> [Sender -> {"none", "check", "send", "end"}]]
  BY <1>0 DEF ClientTypes
<1>e. ASSUME NEW c \in Client, NEW r \in ClientType,
             client' = [client EXCEPT ![c] = r]
      PROVE  client' \in [Client -> ClientType]
  BY <1>0, <1>e DEF ClientTypes
<1>f. \A c \in Client : client[c] \in ClientType
  BY <1>0 DEF ClientTypes
<1>1. ASSUME NEW w \in Worker, New(w) PROVE ClientTypes'
  <2>1. PICK n : n = Mantissa(size[w], BatchSize(w))
    OBVIOUS
  <2>2. n \in Int
    <3>1. size[w] \in Int /\ BatchSize(w) \in Nat
      BY <1>0, BatchOf DEF WorkerTypes
    <3> QED
      BY <2>1, <3>1 DEF Mantissa
  <2>3. PICK u : u = Alloc(found[w]).unit
    OBVIOUS
  <2>4. u \in Seq(Nat)
    <3>1. found[w] = blocks /\ blocks \in Seq(Block) /\ Pool(blocks)
      BY <1>0, <1>1, NewIs, Zenon DEF SharesOK, GlobalTypes, Go
    <3> QED
      BY <2>3, <3>1, AllocOf, Zenon
  <2>5. client' = NewClient(n, u) /\ Fresh \in Client
    BY <1>1, <2>1, <2>3, NewIs, Zenon
  <2>6. client' \in [Client -> ClientType]
    <3>1. g_sn \in Nat /\ (IF n > 0 THEN n ELSE 0) \in Nat
      BY <1>0, <2>2 DEF DialogTypes
    <3>2. client \in [Client -> ClientType]
      BY <1>0 DEF ClientTypes
    <3>3. PICK c \in Client : c = Fresh
      BY <2>5
    <3> DEFINE r == [client[c] EXCEPT !.state = "live", !.unit = u,
                                      !.first = g_sn,
                                      !.n = IF n > 0 THEN n ELSE 0]
    <3>4. r \in ClientType
      <4>1. client[c] \in ClientType
        BY <3>2
      <4> QED
        BY <2>4, <3>1, <4>1 DEF ClientType
    <3>5. NewClient(n, u) = [client EXCEPT ![c] = r]
      BY <3>2, <3>3 DEF NewClient
    <3> HIDE DEF r
    <3> QED
      BY <1>e, <2>5, <3>4, <3>5
  <2>7. sender' \in [Client -> [Sender -> {"none", "check", "send", "end"}]]
    <3>1. sender' = [sender EXCEPT ![Fresh] = [k \in Sender |-> "check"]]
      BY <1>1, NewIs, Zenon
    <3> QED
      BY <1>0, <3>1 DEF ClientTypes
  <2>8. UNCHANGED m_clientlist
    BY <1>1, NewIs
  <2> QED
    BY <1>l, <2>6, <2>7, <2>8 DEF ClientTypes
<1>2. ASSUME NEW w \in Worker, InitList(w) \/ InitTimers(w) PROVE ClientTypes'
  <2>1. cur[w] \in Client
    BY <1>2, AtCur DEF InitList, InitTimers, Go, Creating
  <2>2. PICK r : r = client[cur[w]]
    OBVIOUS
  <2>3. r \in ClientType
    BY <1>f, <2>1, <2>2
  <2>4. \E q \in ClientType : SetClient(w, q)
    <3>1. CASE InitList(w)
      <4>1. [r EXCEPT !.listed = TRUE] \in ClientType
        BY <2>3, FieldTypes, Zenon
      <4> QED
        BY <2>2, <3>1, <4>1, Zenon DEF InitList
    <3>2. CASE InitTimers(w)
      <4>1. PICK b \in BOOLEAN :
              SetClient(w, IF info.exam
                             THEN register_timer_handler([r EXCEPT !.timer = b])
                             ELSE [r EXCEPT !.timer = b])
        BY <2>2, <3>2, Zenon DEF InitTimers
      <4>2. [r EXCEPT !.timer = b] \in ClientType
        BY <2>3, FieldTypes, Zenon
      <4>3. register_timer_handler([r EXCEPT !.timer = b]) \in ClientType
        BY <4>2, FieldTypes, Zenon DEF register_timer_handler
      <4> QED
        BY <4>1, <4>2, <4>3, Zenon
    <3> QED
      BY <1>2, <3>1, <3>2
  <2>5. client' \in [Client -> ClientType] /\ UNCHANGED <<m_clientlist, sender>>
    BY <1>e, <2>1, <2>4 DEF SetClient
  <2> QED
    BY <1>l, <1>s, <2>5 DEF ClientTypes
<1>3. ASSUME NEW w \in Worker, Push(w) PROVE ClientTypes'
  <2>1. cur[w] \in Client
    BY <1>3, AtCur DEF Push, Go, Creating
  <2>2. m_clientlist' \in Seq(Client)
    BY <1>0, <1>3, <2>1 DEF Push, ClientTypes
  <2> QED
    BY <1>3, <1>c, <1>s, <2>2 DEF Push, ClientTypes
<1>4. ASSUME NEW w \in Worker, CloseStart(w) \/ CloseTimer(w)
      PROVE  ClientTypes'
  <2>1. cur[w] \in Client
    BY <1>4, AtCur DEF CloseStart, CloseTimer, CloseStep, Go, Closing
  <2>2. PICK r : r = client[cur[w]]
    OBVIOUS
  <2>3. r \in ClientType
    BY <1>f, <2>1, <2>2
  <2>4. \/ client' = [client EXCEPT ![cur[w]] = [r EXCEPT !.exit = TRUE]]
        \/ client' = [client EXCEPT ![cur[w]] = [r EXCEPT !.timer = FALSE]]
    BY <1>4, <2>2 DEF CloseStart, CloseTimer
  <2>5. client' \in [Client -> ClientType]
    <3>1. /\ [r EXCEPT !.exit = TRUE] \in ClientType
          /\ [r EXCEPT !.timer = FALSE] \in ClientType
      BY <2>3, FieldTypes, Zenon
    <3> QED
      BY <1>e, <2>1, <2>4, <3>1, Zenon
  <2> QED
    BY <1>4, <1>l, <1>s, <2>5 DEF CloseStart, CloseTimer, ClientTypes
<1>5. ASSUME NEW w \in Worker, Delete(w) PROVE ClientTypes'
  <2>1. cur[w] \in Client
    BY <1>5, AtCur DEF Delete, CloseStep, Go, Closing
  <2>2. PICK r : r = client[cur[w]]
    OBVIOUS
  <2>3. r \in ClientType
    BY <1>f, <2>1, <2>2
  <2>4. client' = [client EXCEPT ![cur[w]] =
                     [remove_timer_handler(cur[w])
                        EXCEPT !.state = "deleted", !.start = FALSE]]
    BY <1>5 DEF Delete
  <2>5. client' \in [Client -> ClientType]
    <3>1. [remove_timer_handler(cur[w])
             EXCEPT !.state = "deleted", !.start = FALSE] \in ClientType
      BY <2>2, <2>3, FieldTypes, Zenon DEF remove_timer_handler
    <3> QED
      BY <1>e, <2>1, <2>4, <3>1, Zenon
  <2>6. m_clientlist' \in Seq(Client)
    BY <1>0, <1>5 DEF Delete, ClientTypes
  <2> QED
    BY <1>5, <1>s, <2>5, <2>6 DEF Delete, ClientTypes
<1>6. ASSUME NEW c \in Client, Beat(c) \/ Beaten(c) \/ TickEnds(c)
      PROVE  ClientTypes'
  <2>2. PICK r : r = client[c]
    OBVIOUS
  <2>3. r \in ClientType
    BY <1>f, <2>2
  <2>4. \/ client' = [client EXCEPT ![c] = [r EXCEPT !.beating = TRUE]]
        \/ client' = [client EXCEPT ![c] = [r EXCEPT !.beating = FALSE,
                                                     !.start = TRUE]]
        \/ client' = [client EXCEPT ![c] = [r EXCEPT !.scheduled = FALSE]]
    BY <1>6, <2>2 DEF Beat, Beaten, TickEnds
  <2>5. client' \in [Client -> ClientType]
    <3>1. /\ [r EXCEPT !.beating = TRUE] \in ClientType
          /\ [r EXCEPT !.beating = FALSE, !.start = TRUE] \in ClientType
          /\ [r EXCEPT !.scheduled = FALSE] \in ClientType
      BY <2>3, FieldTypes, Zenon
    <3> QED
      BY <1>e, <2>4, <3>1, Zenon
  <2> QED
    BY <1>6, <1>l, <1>s, <2>5 DEF Beat, Beaten, TickEnds, ClientTypes
<1>7. ASSUME NEW c \in Client, NEW k \in Sender, SendHartPacket(c, k)
      PROVE  ClientTypes'
  <2>1. PICK to \in {"check", "send", "end"} :
          /\ sender' = [sender EXCEPT ![c][k] = to]
          /\ UNCHANGED <<m_clientlist, client>>
    BY <1>7 DEF SendHartPacket, Look, Send, SenderEnds, SetSender
  <2>2. sender' \in [Client -> [Sender -> {"none", "check", "send", "end"}]]
    BY <1>0, <2>1 DEF ClientTypes
  <2> QED
    BY <1>c, <1>l, <2>1, <2>2 DEF ClientTypes
<1>8. ASSUME \/ User
             \/ \E w \in Worker :
                  \/ ReadSize(w) \/ Begin(w) \/ Begun(w) \/ NewRead(w)
                  \/ InitRequest(w) \/ BeginDrain(w) \/ Drain(w)
                  \/ CloseJoin(w) \/ Finish(w)
             \/ \E c \in Client : Tick(c)
             \/ UNCHANGED vars
      PROVE  UNCHANGED clients
  BY <1>8, Zenon
  DEF User, Start, StartThread, Stop, Exit,
      OnSysCommand, CloseWindow, ReadSize, Begin, Begun, NewRead,
      InitRequest, BeginDrain, Drain, CloseJoin, CloseStep, Finish, Tick, vars
<1>9. ASSUME UNCHANGED clients PROVE ClientTypes'
  BY <1>9, <1>c, <1>l, <1>s DEF clients, ClientTypes
<1> QED
  BY <1>1, <1>2, <1>3, <1>4, <1>5, <1>6, <1>7, <1>8, <1>9
  DEF Next, Work, TimerQueue, Reactor

LEMMA GlobalTypesStep ==
  ASSUME Types, SharesOK, [Next]_vars
  PROVE  GlobalTypes'
<1>0. DialogTypes /\ WorkerTypes /\ ClientTypes /\ GlobalTypes
  BY TypesAre
<1>1. count' \in [Sender -> -MaxCount..MaxCount]
  <2>1. ASSUME NEW c \in Client, Tick(c) PROVE count' \in [Sender -> -MaxCount..MaxCount]
    BY <1>0, <2>1, PressTestAssumption DEF Tick, GlobalTypes
  <2>2. ASSUME NEW c \in Client, NEW k \in Sender, Send(c, k)
        PROVE  count' \in [Sender -> -MaxCount..MaxCount]
    <3>1. count[k] \in -MaxCount..MaxCount /\ MaxCount \in Nat
      BY <1>0, PressTestAssumption DEF GlobalTypes
    <3> QED
      BY <1>0, <2>2, <3>1 DEF Send, GlobalTypes
  <2>3. ASSUME \/ User
               \/ \E w \in Worker : Work(w)
               \/ \E c \in Client : TimerQueue(c) \/ TickEnds(c)
               \/ \E c \in Client, k \in Sender : Look(c, k) \/ SenderEnds(c, k)
               \/ UNCHANGED vars
        PROVE  UNCHANGED count
    BY <2>3, Zenon
    DEF User, Start, StartThread, Stop, Exit,
        OnSysCommand, CloseWindow, Work, ReadSize, Begin, Begun,
        NewRead, New, InitList, InitRequest, InitTimers, SetClient, Push,
        BeginDrain, Drain, CloseStart, CloseJoin, CloseTimer, Delete, CloseStep,
        Finish, TimerQueue, Beat, Beaten, TickEnds, Look, SenderEnds, vars,
        globals
  <2>4. UNCHANGED count => count' \in [Sender -> -MaxCount..MaxCount]
    BY <1>0 DEF GlobalTypes
  <2> QED
    BY <2>1, <2>2, <2>3, <2>4, Zenon DEF Next, Reactor, SendHartPacket
<1>2. blocks' \in Seq(Block)
  <2>1. ASSUME NEW w \in Worker, New(w) PROVE blocks' \in Seq(Block)
    <3>1. blocks' = Alloc(found[w]).blocks /\ found[w] = blocks
      BY <2>1, NewTakes, NewIs, Zenon DEF SharesOK, Go
    <3>2. blocks \in Seq(Block) /\ Pool(blocks)
      BY <1>0 DEF SharesOK, GlobalTypes
    <3> QED
      BY <3>1, <3>2, AllocOf, Zenon
  <2>2. ASSUME \/ User
               \/ \E w \in Worker : Work(w) /\ ~New(w)
               \/ \E c \in Client : TimerQueue(c) \/ Reactor(c)
               \/ \E c \in Client, k \in Sender : SendHartPacket(c, k)
               \/ UNCHANGED vars
        PROVE  UNCHANGED blocks
    <3>1. ASSUME NEW w \in Worker, Delete(w) PROVE UNCHANGED blocks
      BY <3>1 DEF Delete, FreeAlloc, Hash
    <3> QED
      BY <2>2, <3>1, Zenon
      DEF User, Start, StartThread, Stop, Exit,
          OnSysCommand, CloseWindow, Work, ReadSize, Begin, Begun,
          NewRead, InitList, InitRequest, InitTimers, SetClient, Push,
          BeginDrain, Drain, CloseStart, CloseJoin, CloseTimer, CloseStep,
          Finish, TimerQueue, Beat, Beaten, Reactor, Tick, TickEnds,
          SendHartPacket, Look, Send, SenderEnds, SetSender, vars, globals
  <2>3. UNCHANGED blocks => blocks' \in Seq(Block)
    BY <1>0 DEF GlobalTypes
  <2> QED
    BY <2>1, <2>2, <2>3, Zenon DEF Next
<1>3. g_flag' \in BOOLEAN
  <2>1. (\E w \in Worker : CloseStart(w)) => g_flag' = TRUE
    BY Zenon DEF CloseStart
  <2>2. (~\E w \in Worker : CloseStart(w)) => UNCHANGED g_flag
    BY Zenon
    DEF Next, User, Start, StartThread, Stop, Exit,
        OnSysCommand, CloseWindow, Work, ReadSize, Begin,
        Begun, NewRead, New, InitList, InitRequest, InitTimers, SetClient, Push,
        BeginDrain, Drain, CloseJoin, CloseTimer, CloseStep, Delete,
        Finish, TimerQueue, Beat, Beaten, Reactor, Tick, TickEnds,
        SendHartPacket, Look, Send, SenderEnds, SetSender, vars, globals
  <2> QED
    BY <1>0, <2>1, <2>2, Zenon DEF GlobalTypes
<1>4. crowd' \in BOOLEAN
  <2>1. (\E w \in Worker : New(w)) => crowd' \in BOOLEAN
    BY NewTakes, Zenon
  <2>2. (~\E w \in Worker : New(w)) => UNCHANGED crowd
    BY Zenon
    DEF Next, User, Start, StartThread, Stop, Exit,
        OnSysCommand, CloseWindow, Work, ReadSize, Begin,
        Begun, NewRead, InitList, InitRequest, InitTimers, SetClient, Push,
        BeginDrain, Drain, CloseStart, CloseJoin, CloseTimer, CloseStep, Delete,
        Finish, TimerQueue, Beat, Beaten, Reactor, Tick, TickEnds,
        SendHartPacket, Look, Send, SenderEnds, SetSender, vars, history
  <2> QED
    BY <1>0, <2>1, <2>2, Zenon DEF GlobalTypes
<1>5. fault' \in {"none", "range", "deleted", "timer"}
  <2>1. fault' \in {fault, "range", "deleted", "timer"}
    <3>1. ASSUME NEW w \in Worker, CloseStart(w) \/ CloseJoin(w) \/ CloseTimer(w)
                                   \/ Delete(w)
          PROVE  fault' \in {fault, "deleted"}
      BY <3>1 DEF CloseStart, CloseJoin, CloseTimer, Delete, CloseStep
    <3>2. ASSUME NEW c \in Client, NEW k \in Sender, Send(c, k)
          PROVE  fault' \in {fault, "range"}
      BY <3>2 DEF Send
    <3>3. ASSUME \/ User
                 \/ \E w \in Worker :
                      \/ ReadSize(w) \/ Begin(w) \/ Begun(w) \/ NewRead(w)
                      \/ New(w) \/ InitList(w) \/ InitRequest(w)
                      \/ InitTimers(w) \/ Push(w) \/ BeginDrain(w) \/ Drain(w)
                      \/ Finish(w)
                 \/ \E c \in Client : TimerQueue(c) \/ Tick(c)
                 \/ \E c \in Client, k \in Sender : Look(c, k) \/ SenderEnds(c, k)
                 \/ UNCHANGED vars
          PROVE  UNCHANGED fault
      BY <3>3, Zenon
      DEF User, Start, StartThread, Stop, Exit,
          OnSysCommand, CloseWindow, ReadSize, Begin, Begun,
          NewRead, New, InitList, InitRequest, InitTimers, SetClient, Push,
          BeginDrain, Drain, Finish, TimerQueue, Beat, Beaten, Tick, Look,
          SenderEnds, SetSender, vars
    <3>4. ASSUME NEW c \in Client, TickEnds(c)
          PROVE  fault' \in {fault, "timer"}
      BY <3>4 DEF TickEnds
    <3> QED
      BY <3>1, <3>2, <3>3, <3>4 DEF Next, Work, SendHartPacket, Reactor
  <2> QED
    BY <1>0, <2>1 DEF GlobalTypes
<1> QED
  BY <1>1, <1>2, <1>3, <1>4, <1>5 DEF GlobalTypes

(* Every step keeps the types.                                             *)
LEMMA TypesStep ==
  ASSUME Types, ListOK, SharesOK, [Next]_vars
  PROVE  Types'
<1>1. DialogTypes /\ WorkerTypes /\ ClientTypes /\ GlobalTypes
  BY TypesAre
<1>2. DialogTypes' /\ WorkerTypes' /\ ClientTypes' /\ GlobalTypes'
  BY <1>1, DialogTypesStep, WorkerTypesStep, ClientTypesStep, GlobalTypesStep
<1> QED
  BY <1>2, TypesAreThen, Zenon

-----------------------------------------------------------------------------
(* One test at a time.                                                     *)

(* Timers and senders leave the dialog and the workers alone.              *)
Elsewhere ==
  \/ \E c \in Client : TimerQueue(c) \/ Reactor(c)
  \/ \E c \in Client, k \in Sender : SendHartPacket(c, k)
  \/ UNCHANGED vars
LEMMA ElsewhereKeeps ==
  Elsewhere => UNCHANGED <<dialog, worker, m_clientlist, blocks, history>>
BY Zenon
DEF Elsewhere, TimerQueue, Beat, Beaten, Reactor, Tick, TickEnds,
    SendHartPacket, Look, Send, SenderEnds, SetSender, vars, clients, globals

(* A worker that works is the only one.                                    *)
LEMMA OnlyOne ==
  ASSUME Types, OneTest, NEW w \in Worker, wpc[w] \notin {"none", "end"}
  PROVE  /\ w = starts /\ user \in {"idle", "close"}
         /\ m_testing \/ m_exit
         /\ \A v \in Worker : v # w => Ended(v)
BY DEF OneTest, Ended

(* A worker starts when the others have ended, and after Stop one ends.    *)
LEMMA OneTestStep ==
  ASSUME Patient, Types, OneTest, SizesOK, [Next]_vars
  PROVE  OneTest'
<1>0. DialogTypes /\ WorkerTypes
  BY TypesAre
<1>1. CASE Start
  <2>1. \A w \in Worker : Ended(w) /\ Ended(w)'
    BY <1>1 DEF Start, Ended, worker
  <2>2. user = "idle" /\ ~m_testing /\ ~m_exit
    BY <1>1, <2>1 DEF OneTest, Start
  <2>3. starts' \in Worker
    BY <1>0, <1>1, PressTestAssumption DEF Start, Worker, DialogTypes
  <2>4. UNCHANGED <<m_testing, m_exit>>
    BY <1>1 DEF Start
  <2>5. \A w \in Worker : wpc'[w] \notin Draining
    BY <2>1 DEF Ended, Draining, Closing
  <2> QED
    BY <2>1, <2>2, <2>3, <2>4, <2>5 DEF OneTest
<1>2. CASE StartThread
  <2>1. user = "thread" /\ user' = "idle" /\ UNCHANGED <<starts, m_exit>>
    BY <1>2 DEF StartThread, history
  <2>2. starts \in Worker /\ \A w \in Worker : Ended(w)
    BY <2>1 DEF OneTest
  <2>3. ~m_testing /\ ~m_exit
    BY <2>1, <2>2 DEF OneTest
  <2>4. CASE UNCHANGED <<m_testing, wpc>>
    <3>1. \A w \in Worker : Ended(w)' /\ wpc'[w] \notin Draining
      BY <2>2, <2>4 DEF Ended, Draining, Closing
    <3> QED
      BY <2>1, <2>3, <2>4, <3>1 DEF OneTest
  <2>5. CASE m_testing' = TRUE /\ wpc' = [wpc EXCEPT ![starts] = "read"]
    <3>1. /\ ~Ended(starts)'
          /\ \A w \in Worker : w # starts => Ended(w)'
          /\ \A w \in Worker : wpc'[w] \notin Draining
      <4>1. \A w \in Worker : wpc'[w] = IF w = starts THEN "read" ELSE wpc[w]
        BY <1>0, <2>5 DEF WorkerTypes
      <4>2. wpc'[starts] = "read"
        BY <2>2, <4>1
      <4>3. \A w \in Worker : w # starts => wpc'[w] \in {"none", "end"}
        BY <2>2, <4>1 DEF Ended
      <4>4. \A w \in Worker : wpc'[w] \in {"none", "end", "read"}
        BY <4>2, <4>3
      <4> QED
        BY <2>1, <4>2, <4>3, <4>4 DEF Ended, Draining, Closing
    <3> QED
      BY <2>1, <2>2, <2>3, <2>5, <3>1 DEF OneTest
  <2> QED
    BY <1>2, <2>4, <2>5 DEF StartThread
<1>3. CASE Stop
  <2>1. /\ m_testing /\ ~m_testing' /\ m_exit' /\ UNCHANGED <<user, starts, wpc>>
        /\ user = "idle"
    BY <1>3 DEF Stop, Close, worker, history
  <2>2. \A w \in Worker : Ended(w)' <=> Ended(w)
    BY <2>1 DEF Ended
  <2> QED
    BY <2>1, <2>2 DEF OneTest
<1>4. CASE Exit
  <2>1. /\ ~m_testing /\ ~m_exit /\ user = "idle" /\ ~m_testing'
        /\ user' = "exit" /\ UNCHANGED <<starts, wpc>>
    BY <1>4 DEF Exit, CloseWindow, Close, worker, history
  <2>2. \A w \in Worker : Ended(w)
    BY <2>1 DEF OneTest
  <2>3. \A w \in Worker : Ended(w)' /\ wpc'[w] \notin Draining
    BY <2>1, <2>2 DEF Ended, Draining, Closing
  <2> QED
    BY <2>1, <2>3 DEF OneTest
<1>11. CASE OnSysCommand
  <2>1. /\ user = "idle" /\ ~m_testing' /\ m_exit' = TRUE
        /\ user' = "close" /\ UNCHANGED <<starts, wpc>>
    BY <1>11 DEF OnSysCommand, CloseWindow, Close, worker, history
  <2>2. \A w \in Worker : Ended(w)' <=> Ended(w)
    BY <2>1 DEF Ended
  <2> QED
    BY <2>1, <2>2 DEF OneTest
<1>5. ASSUME NEW w \in Worker, NEW from, NEW to, Go(w, from, to),
             from \notin {"none", "end"}, to \notin {"none", "end"},
             UNCHANGED <<m_testing, m_exit, user, starts>>,
             to \in Draining => m_exit
      PROVE  OneTest'
  <2>1. /\ wpc[w] = from /\ wpc'[w] = to
        /\ \A v \in Worker : v # w => wpc'[v] = wpc[v]
    BY <1>0, <1>5, GoTypes, Zenon
  <2>2. \A v \in Worker : Ended(v)' <=> Ended(v)
    BY <1>5, <2>1 DEF Ended
  <2>3. \A v \in Worker : wpc'[v] \in Draining => m_exit'
    BY <1>5, <2>1 DEF OneTest
  <2> QED
    BY <1>5, <2>2, <2>3 DEF OneTest
<1>6. ASSUME NEW w \in Worker,
             \/ ReadSize(w) \/ Begin(w) \/ Begun(w) \/ NewRead(w)
             \/ InitList(w) \/ InitRequest(w) \/ InitTimers(w) \/ Push(w)
      PROVE  OneTest'
  <2>1. /\ UNCHANGED <<m_testing, m_exit, user, starts>>
        /\ \E from, to \in {"read", "loop", "batch", "alloc", "init",
                            "request", "timers", "push"} :
             Go(w, from, to)
    BY <1>6
    DEF ReadSize, Begin, Begun, NewRead, InitList, InitRequest, InitTimers,
        SetClient, Push, dialog, history
  <2> QED
    BY <1>5, <2>1 DEF Draining, Closing
<1>7. ASSUME NEW w \in Worker, New(w) PROVE OneTest'
  <2>1. /\ UNCHANGED <<m_testing, m_exit, user, starts>>
        /\ Go(w, "alloc", IF size[w] < 0 THEN "spin" ELSE "init")
    BY <1>7, NewIs
  <2> QED
    BY <1>5, <2>1 DEF Draining, Closing
<1>8. ASSUME NEW w \in Worker,
             \/ BeginDrain(w) \/ Drain(w) \/ CloseStart(w) \/ CloseJoin(w)
             \/ CloseTimer(w) \/ Delete(w)
      PROVE  OneTest'
  <2>1. /\ UNCHANGED <<m_testing, m_exit, user, starts>>
        /\ \E from \in Draining \cup {"loop"}, to \in Draining :
             /\ Go(w, from, to)
             /\ from = "loop" => m_exit
    BY <1>8
    DEF BeginDrain, Drain, CloseStart, CloseJoin, CloseTimer, Delete, CloseStep,
        dialog, history, Draining, Closing
  <2>2. \A from : from \in Draining /\ Go(w, from, wpc'[w]) => m_exit
    BY DEF Go, OneTest
  <2>3. \A from \in Draining \cup {"loop"} : from \notin {"none", "end"}
    BY DEF Draining, Closing
  <2>4. PICK from \in Draining \cup {"loop"}, to \in Draining :
             Go(w, from, to) /\ (from = "loop" => m_exit)
    BY <2>1
  <2>5. m_exit
    BY <2>4 DEF Go, OneTest
  <2> QED
    BY <1>5, <2>1, <2>3, <2>4, <2>5
<1>9. ASSUME NEW w \in Worker, Finish(w) PROVE OneTest'
  <2>1. /\ Go(w, "drain", IF info.size < 0 THEN "spin" ELSE "end")
        /\ m_exit' = (info.size < 0 /\ m_exit)
        /\ UNCHANGED <<m_testing, user, starts>>
    BY <1>9, Zenon DEF Finish, history
  <2>2. wpc[w] = "drain" /\ m_exit /\ w = starts /\ user # "thread"
    <3>1. wpc[w] = "drain"
      BY <2>1 DEF Go
    <3> QED
      BY <3>1, OnlyOne DEF OneTest, Draining
  <2>3. info.size > 0 /\ info.size \in Int
    <3>1. Sizes \cup {0, -1} \subseteq Int
      BY PressTestAssumption
    <3>2. info.size \in Int
      BY <1>0, <3>1 DEF DialogTypes
    <3> QED
      BY <2>2, <3>2 DEF SizesOK, Ended
  <2>4. Go(w, "drain", "end") /\ ~m_exit' /\ ~m_testing'
    <3>1. ~(info.size < 0)
      BY <2>3
    <3>2. m_exit' = FALSE /\ Go(w, "drain", "end")
      BY <2>1, <3>1, Zenon
    <3>3. ~m_testing
      BY <2>2 DEF OneTest
    <3> QED
      BY <2>1, <3>2, <3>3
  <2>5. \A v \in Worker : Ended(v)' /\ wpc'[v] \notin Draining
    <3>1. \A v \in Worker : v # w => Ended(v)
      BY <2>2, OnlyOne
    <3>2. wpc'[w] = "end" /\ \A v \in Worker : v # w => wpc'[v] = wpc[v]
      BY <1>0, <2>4, GoTypes, Zenon
    <3> QED
      BY <3>1, <3>2 DEF Ended, Draining, Closing
  <2> QED
    BY <2>1, <2>2, <2>4, <2>5 DEF OneTest
<1>10. CASE Elsewhere
  <2>1. UNCHANGED <<user, starts, m_testing, m_exit, wpc>>
    BY <1>10, ElsewhereKeeps DEF dialog, worker, history
  <2>2. \A w \in Worker : Ended(w)' <=> Ended(w)
    BY <2>1 DEF Ended
  <2> QED
    BY <2>1, <2>2 DEF OneTest
<1> QED
  BY <1>1, <1>2, <1>3, <1>4, <1>6, <1>7, <1>8, <1>9, <1>10, <1>11
  DEF Next, User, Work, Elsewhere

-----------------------------------------------------------------------------
(* The sizes.                                                              *)

(* What SizesOK says of a worker and of the clients.                       *)
SizeOf(w) ==
  /\ ~Ended(w) => info.size > 0
  /\ wpc[w] # "spin"
  /\ wpc[w] = "loop" /\ m_status => size[w] > 0
  /\ wpc[w] \in Creating \cup {"batch", "alloc"} => batches[w] \in Nat
  /\ wpc[w] \in Creating \cup {"batch"} /\ batches[w] > 0 =>
       size[w] > (batches[w] - 1) * BatchSize(w)
  /\ wpc[w] = "alloc" => size[w] > batches[w] * BatchSize(w)
Numbers == \A c \in Created : client[c].n > 0

(* A client at hand lives.                                                 *)
LEMMA AtCurLives ==
  ASSUME Types, ListOK, NEW w \in Worker, wpc[w] \in Creating \cup Closing
  PROVE  cur[w] \in Client /\ client[cur[w]].state = "live"
<1>1. cur[w] \in Client
  BY AtCur
<1>2. CASE wpc[w] \in Closing
  <2>1. m_clientlist # <<>> /\ cur[w] = Head(m_clientlist)
    BY <1>2 DEF ListOK
  <2>2. m_clientlist \in Seq(Client)
    BY DEF Types, TypeOK
  <2>3. 1 \in DOMAIN m_clientlist /\ m_clientlist[1] = cur[w]
    BY <2>1, <2>2
  <2> QED
    BY <1>1, <2>3, Zenon DEF ListOK, InList
<1>3. CASE wpc[w] \in Creating
  BY <1>1, <1>3, Zenon DEF ListOK, AtHand
<1> QED
  BY <1>1, <1>2, <1>3

(* What a step other than New may change in a client, and which step does. *)
ClientAfter(c) ==
  /\ UNCHANGED <<client[c].unit, client[c].first, client[c].n>>
  /\ client'[c].state # client[c].state =>
       /\ client[c].state = "live" /\ client'[c].state = "deleted"
       /\ c \in Knowing => ~client'[c].scheduled
       /\ \E w \in Worker : Delete(w) /\ c = cur[w]
  /\ client[c].listed => client'[c].listed
  /\ client'[c].listed /\ ~client[c].listed =>
       \E w \in Worker : InitList(w) /\ c = cur[w]
  /\ client'[c].timer /\ ~client[c].timer =>
       \E w \in Worker : InitTimers(w) /\ c = cur[w]
  /\ client'[c].beating /\ ~client[c].beating => client[c].timer
  /\ client'[c].scheduled /\ ~client[c].scheduled =>
       \E w \in Worker : InitTimers(w) /\ c = cur[w]
LEMMA ClientStep ==
  ASSUME Types, ListOK, [Next]_vars, ~\E w \in Worker : New(w),
         NEW c \in Client
  PROVE  ClientAfter(c)
<1>0. WorkerTypes /\ ClientTypes
  BY TypesAre
<1>1. PICK q \in ClientType : q = client[c]
  BY <1>0 DEF ClientTypes
<1> DEFINE At(d, r) == client' = [client EXCEPT ![d] = r]
<1>2. ASSUME NEW d, NEW r, At(d, r)
      PROVE  client'[c] = IF c = d THEN r ELSE q
  BY <1>0, <1>1, <1>2 DEF ClientTypes
<1>u. ASSUME client'[c] = q PROVE ClientAfter(c)
  BY <1>1, <1>u DEF ClientAfter
<1>3. ASSUME NEW w \in Worker, InitList(w) PROVE ClientAfter(c)
  <2>1. At(cur[w], [client[cur[w]] EXCEPT !.listed = TRUE])
    BY <1>3 DEF InitList, SetClient
  <2>2. CASE c = cur[w]
    <3>1. client'[c] = [q EXCEPT !.listed = TRUE]
      BY <1>1, <1>2, <2>1, <2>2, Zenon
    <3> QED
      BY <1>1, <1>3, <2>2, <3>1 DEF ClientAfter, ClientType
  <2> QED
    BY <1>2, <1>u, <2>1, <2>2, Zenon
<1>4. ASSUME NEW w \in Worker, InitTimers(w) PROVE ClientAfter(c)
  <2>1. PICK b \in BOOLEAN :
          At(cur[w], LET s == [client[cur[w]] EXCEPT !.timer = b]
                     IN  IF info.exam THEN register_timer_handler(s) ELSE s)
    BY <1>4, Zenon DEF InitTimers, SetClient
  <2>2. CASE c = cur[w]
    <3>1. \/ client'[c] = [[q EXCEPT !.timer = b] EXCEPT !.scheduled = TRUE]
          \/ client'[c] = [q EXCEPT !.timer = b]
      BY <1>1, <1>2, <2>1, <2>2, Zenon DEF register_timer_handler
    <3>2. /\ client'[c].state = q.state /\ client'[c].unit = q.unit
          /\ client'[c].first = q.first /\ client'[c].n = q.n
          /\ client'[c].listed = q.listed /\ client'[c].beating = q.beating
      BY <3>1 DEF ClientType
    <3> QED
      BY <1>1, <1>4, <2>2, <3>2, Zenon DEF ClientAfter
  <2> QED
    BY <1>2, <1>u, <2>1, <2>2, Zenon
<1>5. ASSUME NEW w \in Worker, CloseStart(w) \/ CloseTimer(w)
      PROVE  ClientAfter(c)
  <2>1. \/ At(cur[w], [client[cur[w]] EXCEPT !.exit = TRUE])
        \/ At(cur[w], [client[cur[w]] EXCEPT !.timer = FALSE])
    BY <1>5 DEF CloseStart, CloseTimer
  <2>2. CASE c = cur[w]
    <3>1. \/ client'[c] = [q EXCEPT !.exit = TRUE]
          \/ client'[c] = [q EXCEPT !.timer = FALSE]
      BY <1>1, <1>2, <2>1, <2>2, Zenon
    <3> QED
      BY <1>1, <2>2, <3>1 DEF ClientAfter, ClientType
  <2> QED
    BY <1>2, <1>u, <2>1, <2>2, Zenon
<1>6. ASSUME NEW w \in Worker, Delete(w) PROVE ClientAfter(c)
  <2>1. At(cur[w], [remove_timer_handler(cur[w])
                      EXCEPT !.state = "deleted", !.start = FALSE])
    BY <1>6 DEF Delete
  <2>2. CASE c = cur[w]
    <3>1. \/ client'[c] = [[q EXCEPT !.scheduled = FALSE]
                             EXCEPT !.state = "deleted", !.start = FALSE]
          \/ /\ client'[c] = [q EXCEPT !.state = "deleted", !.start = FALSE]
             /\ c \notin Knowing
      BY <1>1, <1>2, <2>1, <2>2, Zenon DEF remove_timer_handler
    <3>2. client[c].state = "live"
      BY <1>6, <2>2, AtCurLives DEF Delete, CloseStep, Go, Closing
    <3> QED
      BY <1>1, <1>6, <2>2, <3>1, <3>2 DEF ClientAfter, ClientType
  <2> QED
    BY <1>2, <1>u, <2>1, <2>2, Zenon
<1>7. ASSUME NEW d \in Client, Beat(d) \/ Beaten(d) \/ TickEnds(d)
      PROVE  ClientAfter(c)
  <2>1. \/ At(d, [client[d] EXCEPT !.beating = TRUE]) /\ client[d].timer
        \/ At(d, [client[d] EXCEPT !.beating = FALSE, !.start = TRUE])
        \/ At(d, [client[d] EXCEPT !.scheduled = FALSE])
    BY <1>7 DEF Beat, Beaten, TickEnds
  <2>2. CASE c = d
    <3>1. \/ client'[c] = [q EXCEPT !.beating = TRUE] /\ q.timer
          \/ client'[c] = [q EXCEPT !.beating = FALSE, !.start = TRUE]
          \/ client'[c] = [q EXCEPT !.scheduled = FALSE]
      BY <1>1, <1>2, <2>1, <2>2, Zenon
    <3> QED
      BY <1>1, <2>2, <3>1 DEF ClientAfter, ClientType
  <2> QED
    BY <1>2, <1>u, <2>1, <2>2, Zenon
<1>8. ASSUME \/ User
             \/ \E w \in Worker :
                  \/ ReadSize(w) \/ Begin(w) \/ Begun(w) \/ NewRead(w)
                  \/ InitRequest(w) \/ Push(w) \/ BeginDrain(w) \/ Drain(w)
                  \/ CloseJoin(w) \/ Finish(w)
             \/ \E d \in Client : Tick(d)
             \/ \E d \in Client, k \in Sender : SendHartPacket(d, k)
             \/ UNCHANGED vars
      PROVE  UNCHANGED client
  BY <1>8, Zenon
  DEF User, Start, StartThread, Stop, Exit,
      OnSysCommand, CloseWindow, ReadSize, Begin, Begun, NewRead,
      InitRequest, Push, BeginDrain, Drain, CloseJoin, CloseStep, Finish, Tick,
      SendHartPacket, Look, Send, SenderEnds, SetSender, vars, clients
<1> QED
  BY <1>1, <1>u, <1>3, <1>4, <1>5, <1>6, <1>7, <1>8, Zenon
  DEF Next, Work, TimerQueue, Reactor

(* The clients that there are, but for a new one.                          *)
LEMMA CreatedThen ==
  ASSUME Types, ListOK, [Next]_vars, ~\E w \in Worker : New(w)
  PROVE  Created' = Created
<1>1. ASSUME NEW c \in Client
      PROVE  client'[c].state # "none" <=> client[c].state # "none"
  BY ClientStep DEF ClientAfter
<1> QED
  BY <1>1 DEF Created

(* The new client has the next number, and is the only one that changes.   *)
LEMMA NewAfter ==
  ASSUME Types, Numbered, NEW w \in Worker, New(w)
  PROVE  /\ Fresh \in Client /\ Fresh \notin Created /\ Created = 1..Fresh - 1
         /\ Created' = Created \cup {Fresh}
         /\ Created' = 1..Fresh
         /\ \A d \in Client : d # Fresh => /\ client'[d] = client[d]
                                           /\ sender'[d] = sender[d]
         /\ client'[Fresh].state = "live"
         /\ client'[Fresh].unit = Alloc(found[w]).unit
         /\ client'[Fresh].first = g_sn
         /\ LET n == Mantissa(size[w], BatchSize(w))
            IN  client'[Fresh].n = IF n > 0 THEN n ELSE 0
         /\ client'[Fresh].listed = client[Fresh].listed
         /\ client'[Fresh].scheduled = client[Fresh].scheduled
         /\ sender'[Fresh] = [k \in Sender |-> "check"]
<1>0. WorkerTypes /\ ClientTypes
  BY TypesAre
<1>1. PICK n \in 0..MaxClients : Created = 1..n
  BY DEF Numbered
<1>2. Fresh = n + 1 /\ n \in Nat
  <2>1. MaxClients \in Nat
    BY PressTestAssumption
  <2>2. n \in Nat
    BY <2>1
  <2>3. Cardinality(1..n) = n
    BY <2>2, FS_Interval
  <2> QED
    BY <1>1, <2>2, <2>3 DEF Fresh
<1>3. Fresh \in Client
  BY NewIs
<1>4. Fresh \notin Created /\ Created = 1..Fresh - 1
  BY <1>1, <1>2
<1>5. PICK c \in Client : c = Fresh
  BY <1>3
<1>6. PICK m : m = Mantissa(size[w], BatchSize(w))
  OBVIOUS
<1>7. PICK u : u = Alloc(found[w]).unit
  OBVIOUS
<1>8. client' = NewClient(m, u)
  BY <1>6, <1>7, NewIs, Zenon
<1>9. PICK q \in ClientType : q = client[c]
  BY <1>0 DEF ClientTypes
<1> DEFINE r == [q EXCEPT !.state = "live", !.unit = u, !.first = g_sn,
                          !.n = IF m > 0 THEN m ELSE 0]
<1>10. client' = [client EXCEPT ![c] = r]
  BY <1>0, <1>5, <1>8, <1>9 DEF NewClient, ClientTypes
<1>11. /\ r.state = "live" /\ r.unit = u /\ r.first = g_sn
       /\ r.n = IF m > 0 THEN m ELSE 0
       /\ r.listed = q.listed /\ r.scheduled = q.scheduled
  BY DEF ClientType
<1> HIDE DEF r
<1>12. /\ client'[c] = r
       /\ \A d \in Client : d # c => client'[d] = client[d]
  BY <1>0, <1>10 DEF ClientTypes
<1>13. /\ sender'[c] = [k \in Sender |-> "check"]
       /\ \A d \in Client : d # c => sender'[d] = sender[d]
  <2>1. sender' = [sender EXCEPT ![c] = [k \in Sender |-> "check"]]
    BY <1>5, NewIs
  <2> QED
    BY <1>0, <2>1 DEF ClientTypes
<1>14. Created' = Created \cup {Fresh}
  <2>1. \A d \in Client : client'[d].state # "none" <=>
                            client[d].state # "none" \/ d = c
    BY <1>11, <1>12
  <2> QED
    BY <1>5, <2>1 DEF Created
<1>15. Created' = 1..Fresh
  BY <1>1, <1>2, <1>14
<1> QED
  BY <1>3, <1>4, <1>5, <1>6, <1>7, <1>9, <1>11, <1>12, <1>13, <1>14, <1>15,
     Zenon

LEMMA NumberedStep ==
  ASSUME Types, ListOK, Numbered, [Next]_vars
  PROVE  Numbered'
<1>1. CASE \E w \in Worker : New(w)
  <2>1. Fresh \in Client /\ Created' = 1..Fresh
    BY <1>1, NewAfter
  <2>2. Fresh \in 0..MaxClients
    BY <2>1, PressTestAssumption DEF Client
  <2> QED
    BY <2>1, <2>2 DEF Numbered
<1>2. CASE ~\E w \in Worker : New(w)
  BY <1>2, CreatedThen DEF Numbered
<1> QED
  BY <1>1, <1>2

(* The new client's serial numbers, and those of the others.               *)
LEMMA NumbersStep ==
  ASSUME Types, ListOK, SizesOK, Numbered, [Next]_vars
  PROVE  Numbers'
<1>0. WorkerTypes
  BY TypesAre
<1>1. ASSUME NEW w \in Worker, New(w) PROVE Numbers'
  <2>1. wpc[w] = "alloc" /\ size[w] \in Int /\ batches[w] \in Nat
    BY <1>0, <1>1, NewIs DEF Go, SizesOK, WorkerTypes
  <2>2. PICK b \in Nat \ {0} : b = BatchSize(w)
    BY BatchOf
  <2>3. size[w] > batches[w] * b
    BY <2>1, <2>2 DEF SizesOK
  <2>4. Mantissa(size[w], b) \in Nat \ {0}
    BY <2>1, <2>2, <2>3, RestOf
  <2>5. client'[Fresh].n > 0
    BY <1>1, <2>2, <2>4, NewAfter
  <2>6. \A c \in Created : client'[c].n > 0
    BY <1>1, NewAfter DEF SizesOK, Created
  <2> QED
    BY <1>1, <2>5, <2>6, NewAfter DEF Numbers
<1>2. CASE ~\E w \in Worker : New(w)
  <2>1. \A c \in Client : client'[c].n = client[c].n
    BY <1>2, ClientStep DEF ClientAfter
  <2>2. Created' = Created
    BY <1>2, CreatedThen
  <2> QED
    BY <2>1, <2>2 DEF Numbers, SizesOK, Created
<1> QED
  BY <1>1, <1>2

(* A step of a worker keeps what is said of its size.                      *)
LEMMA SizeOfStep ==
  ASSUME Types, OneTest, SizesOK, NEW w \in Worker, Work(w)
  PROVE  SizeOf(w)'
<1>0. WorkerTypes /\ DialogTypes
  BY TypesAre
<1>1. /\ SizeOf(w) /\ size[w] \in Int /\ batches[w] \in Int
      /\ w \in DOMAIN wpc /\ info.size \in Int
  <2>1. info.size \in Int
    <3>1. Sizes \cup {0, -1} \subseteq Int
      BY PressTestAssumption
    <3> QED
      BY <1>0, <3>1 DEF DialogTypes
  <2> QED
    BY <1>0, <2>1 DEF SizesOK, SizeOf, WorkerTypes
<1>g. ASSUME NEW from, NEW to, Go(w, from, to)
      PROVE  wpc[w] = from /\ wpc'[w] = to
  BY <1>0, <1>g, GoTypes, Zenon
<1>2. CASE ReadSize(w)
  <2>1. /\ wpc[w] = "read" /\ wpc'[w] = "loop" /\ info' = info
        /\ size'[w] = info.size
    BY <1>0, <1>2, <1>g DEF ReadSize, dialog, WorkerTypes
  <2> QED
    BY <1>1, <2>1 DEF SizeOf, Creating, Ended
<1>3. CASE Begin(w)
  <2>1. /\ wpc[w] = "loop" /\ wpc'[w] = "batch" /\ m_status /\ info' = info
        /\ size' = size
        /\ batches'[w] = Count(size[w], BatchSize(w)')
    BY <1>0, <1>3, <1>g DEF Begin, dialog, WorkerTypes
  <2>2. PICK b \in Nat \ {0} : b = BatchSize(w)'
    BY BatchOf
  <2>3. size[w] > 0
    BY <1>1, <2>1 DEF SizeOf
  <2>4. batches'[w] \in Nat /\ size[w] > (batches'[w] - 1) * b
    BY <1>1, <2>1, <2>2, <2>3, CountOf
  <2> QED
    BY <1>1, <2>1, <2>2, <2>4 DEF SizeOf, Creating, Ended
<1>4. CASE Begun(w)
  <2>1. /\ wpc[w] = "batch" /\ wpc'[w] = "loop" /\ ~m_status' /\ info' = info
    BY <1>4, <1>g DEF Begun
  <2> QED
    BY <1>1, <2>1 DEF SizeOf, Creating, Ended
<1>5. CASE NewRead(w)
  <2>1. /\ wpc[w] = "batch" /\ wpc'[w] = "alloc" /\ info' = info
        /\ batches[w] # 0 /\ batches'[w] = batches[w] - 1
        /\ UNCHANGED <<size, exam>>
    BY <1>0, <1>5, <1>g DEF NewRead, dialog, WorkerTypes
  <2>2. PICK b : b = BatchSize(w) /\ b = BatchSize(w)'
    BY <2>1 DEF BatchSize
  <2>3. batches[w] \in Nat /\ size[w] > (batches[w] - 1) * b
    BY <1>1, <2>1, <2>2 DEF SizeOf
  <2>4. batches'[w] \in Nat /\ size'[w] > batches'[w] * b
    BY <2>1, <2>3
  <2> QED
    BY <1>1, <2>1, <2>2, <2>4 DEF SizeOf, Creating, Ended
<1>6. CASE New(w)
  <2>1. /\ wpc[w] = "alloc"
        /\ wpc'[w] = IF size[w] < 0 THEN "spin" ELSE "init"
        /\ UNCHANGED <<info, batches, exam>>
        /\ size'[w] = Rest(size[w], BatchSize(w))
    BY <1>0, <1>6, <1>g, NewIs DEF WorkerTypes
  <2>2. PICK b \in Nat \ {0} : b = BatchSize(w)
    BY BatchOf
  <2>3. BatchSize(w)' = b
    BY <2>1, <2>2 DEF BatchSize
  <2>4. batches[w] \in Nat /\ size[w] > batches[w] * b
    BY <1>1, <2>1, <2>2 DEF SizeOf
  <2>5. batches[w] > 0 => size'[w] > (batches[w] - 1) * b
    BY <1>1, <2>1, <2>2, <2>4, RestOf
  <2>6. wpc'[w] = "init"
    <3>1. batches[w] * b \in Nat
      BY <2>4
    <3> QED
      BY <1>1, <2>1, <2>4, <3>1
  <2> QED
    BY <1>1, <2>1, <2>3, <2>4, <2>5, <2>6 DEF SizeOf, Creating, Ended
<1>7. CASE InitList(w) \/ InitRequest(w) \/ InitTimers(w) \/ Push(w)
  <2>1. /\ wpc[w] \in Creating /\ wpc'[w] \in Creating \cup {"batch"}
        /\ UNCHANGED <<info, size, batches, exam>>
    BY <1>7, <1>g
    DEF InitList, InitRequest, InitTimers, SetClient, Push, dialog, Creating
  <2>2. BatchSize(w)' = BatchSize(w)
    BY <2>1 DEF BatchSize
  <2> QED
    BY <1>1, <2>1, <2>2 DEF SizeOf, Creating, Ended
<1>8. CASE \/ BeginDrain(w) \/ Drain(w) \/ CloseStart(w) \/ CloseJoin(w)
           \/ CloseTimer(w) \/ Delete(w)
  <2>1. /\ wpc[w] \in Draining \cup {"loop"} /\ wpc'[w] \in Draining
        /\ UNCHANGED info
    BY <1>8, <1>g
    DEF BeginDrain, Drain, CloseStart, CloseJoin, CloseTimer, Delete, CloseStep,
        dialog, Draining, Closing
  <2> QED
    BY <1>1, <2>1 DEF SizeOf, Creating, Ended, Draining, Closing
<1>9. CASE Finish(w)
  <2>1. wpc[w] = "drain" /\ wpc'[w] = IF info.size < 0 THEN "spin" ELSE "end"
    BY <1>9, <1>g DEF Finish
  <2>2. wpc'[w] = "end"
    BY <1>1, <2>1 DEF SizeOf, Ended
  <2> QED
    BY <2>2 DEF SizeOf, Creating, Ended
<1> QED
  BY <1>2, <1>3, <1>4, <1>5, <1>6, <1>7, <1>8, <1>9 DEF Work

(* Where a worker works.                                                   *)
LEMMA WorksAt ==
  ASSUME NEW w \in Worker, Work(w)
  PROVE  /\ wpc[w] \in {"read", "loop", "batch", "alloc", "init", "request",
                        "timers", "push", "drain", "close", "join", "timer",
                        "free"}
         /\ \E to : Go(w, wpc[w], to)
<1>1. ASSUME NEW from, NEW to, Go(w, from, to)
      PROVE  wpc[w] = from /\ Go(w, wpc[w], to)
  BY <1>1 DEF Go
<1> QED
  BY <1>1, Zenon
  DEF Work, ReadSize, Begin, Begun, NewRead, New, InitList, InitRequest,
      InitTimers, Push, BeginDrain, Drain, CloseStart, CloseJoin, CloseTimer,
      CloseStep, Delete, Finish

(* Only one worker moves.                                                  *)
LEMMA OthersStay ==
  ASSUME Types, OneTest, NEW w \in Worker, Work(w), NEW v \in Worker, v # w
  PROVE  Ended(v) /\ Ended(v)' /\ wpc'[v] = wpc[v] /\ cur'[v] = cur[v]
<1>0. WorkerTypes
  BY TypesAre
<1>1. PICK to : Go(w, wpc[w], to)
  BY WorksAt
<1>2. wpc'[v] = wpc[v]
  BY <1>0, <1>1, GoTypes, Zenon
<1>3. Ended(v)
  <2>1. wpc[w] \notin {"none", "end"}
    BY WorksAt
  <2> QED
    BY <2>1, OnlyOne
<1>4. cur' = cur \/ \E x : cur' = [cur EXCEPT ![w] = x]
  <2>1. CASE New(w)
    BY <2>1, NewIs, Zenon
  <2>2. CASE ~New(w)
    BY <2>2, Zenon
    DEF Work, ReadSize, Begin, Begun, NewRead, InitList, InitRequest,
        InitTimers, SetClient, Push, BeginDrain, Drain, CloseStart, CloseJoin,
        CloseTimer, Delete, Finish
  <2> QED
    BY <2>1, <2>2
<1>5. cur'[v] = cur[v]
  BY <1>0, <1>4 DEF WorkerTypes
<1> QED
  BY <1>2, <1>3, <1>5 DEF Ended

(* Every step keeps the sizes.                                             *)
LEMMA SizesStep ==
  ASSUME Patient, Types, OneTest, SizesOK, ListOK, Numbered, [Next]_vars
  PROVE  SizesOK'
<1>0. DialogTypes /\ WorkerTypes
  BY TypesAre
<1>1. SizesOK' <=> /\ (user = "thread" => info.size > 0)'
                   /\ \A w \in Worker : SizeOf(w)'
                   /\ Numbers'
  BY Zenon DEF SizesOK, SizeOf, Numbers
<1>2. Numbers'
  BY NumbersStep
<1>3. ASSUME NEW w \in Worker, Ended(w)' PROVE SizeOf(w)'
  BY <1>3 DEF SizeOf, Ended, Creating
<1>4. ASSUME NEW w \in Worker, Work(w) PROVE SizesOK'
  <2>1. \A v \in Worker : SizeOf(v)'
    BY <1>3, <1>4, OthersStay, SizeOfStep
  <2>2. user # "thread" /\ user' = user
    <3>1. wpc[w] \notin {"none", "end"}
      BY <1>4, WorksAt
    <3>2. user' = user
      <4>1. CASE New(w)
        BY <4>1, NewIs
      <4>2. CASE ~New(w)
        BY <1>4, <4>2, Zenon
        DEF Work, ReadSize, Begin, Begun, NewRead, InitList, InitRequest,
            InitTimers, SetClient, Push, BeginDrain, Drain, CloseStart,
            CloseJoin, CloseTimer, CloseStep, Delete, Finish, dialog
      <4> QED
        BY <4>1, <4>2
    <3> QED
      BY <3>1, <3>2, OnlyOne
  <2> QED
    BY <1>1, <1>2, <2>1, <2>2
<1>5. CASE Start
  <2>1. \A w \in Worker : Ended(w)'
    BY <1>5 DEF Start, worker, Ended
  <2>2. user' = "thread" => info'.size > 0
    BY <1>5 DEF Start, GetInfo
  <2> QED
    BY <1>1, <1>2, <1>3, <2>1, <2>2
<1>6. CASE StartThread
  <2>1. /\ user = "thread" /\ user' = "idle" /\ UNCHANGED info
        /\ \A w \in Worker : wpc'[w] = wpc[w] \/ wpc'[w] = "read"
    BY <1>0, <1>6 DEF StartThread, WorkerTypes
  <2>2. \A w \in Worker : Ended(w)
    BY <2>1 DEF OneTest
  <2>3. \A w \in Worker : SizeOf(w)'
    BY <2>1, <2>2 DEF SizeOf, Ended, Creating, SizesOK
  <2> QED
    BY <1>1, <1>2, <2>1, <2>3
<1>7. CASE Stop \/ Exit \/ OnSysCommand \/ Elsewhere
  <2>1. /\ UNCHANGED <<info, wpc, size, batches, exam>>
        /\ m_status' => m_status
        /\ user' = user \/ user' \in {"exit", "close"}
    BY <1>7, ElsewhereKeeps DEF Stop, Exit,
                                OnSysCommand, CloseWindow, Close, dialog,
                                worker
  <2>2. ASSUME NEW w \in Worker PROVE SizeOf(w)'
    <3>1. SizeOf(w)
      BY DEF SizesOK, SizeOf
    <3>2. BatchSize(w)' = BatchSize(w)
      BY <2>1 DEF BatchSize
    <3> QED
      BY <2>1, <3>1, <3>2 DEF SizeOf, Ended
  <2>3. (user = "thread" => info.size > 0)'
    BY <2>1 DEF SizesOK
  <2> QED
    BY <1>1, <1>2, <2>2, <2>3
<1> QED
  BY <1>4, <1>5, <1>6, <1>7 DEF Next, User, Elsewhere

-----------------------------------------------------------------------------
(* The list.                                                               *)

(* Clients come by the worker in alloc and go by the one in free only.     *)
LEMMA ComeAndGo ==
  ASSUME Types, OneTest, [Next]_vars
  PROVE  /\ User \/ Elsewhere => ~\E v \in Worker : New(v) \/ Delete(v)
         /\ \A w \in Worker : Work(w) =>
              /\ wpc[w] # "alloc" => ~\E v \in Worker : New(v)
              /\ wpc[w] # "free" => ~\E v \in Worker : Delete(v)
<1>0. WorkerTypes
  BY TypesAre
<1>1. ASSUME NEW v \in Worker, New(v)
      PROVE  wpc[v] = "alloc" /\ wpc'[v] \in {"init", "spin"}
  BY <1>0, <1>1, NewIs, GoTypes
<1>2. ASSUME NEW v \in Worker, Delete(v)
      PROVE  wpc[v] = "free" /\ wpc'[v] = "drain"
  BY <1>0, <1>2, GoTypes DEF Delete, CloseStep
<1>3. ASSUME User \/ Elsewhere, NEW v \in Worker
      PROVE  wpc'[v] \in {wpc[v], "read"}
  <2>1. CASE StartThread
    BY <1>0, <2>1 DEF StartThread, WorkerTypes
  <2>2. CASE Start \/ Stop \/ Exit \/ OnSysCommand \/ Elsewhere
    BY <2>2, ElsewhereKeeps DEF Start, Stop, Exit,
                                OnSysCommand, CloseWindow, worker
  <2> QED
    BY <1>3, <2>1, <2>2 DEF User
<1>4. ASSUME NEW w \in Worker, Work(w), NEW v \in Worker, New(v) \/ Delete(v)
      PROVE  v = w
  <2>1. wpc[v] \notin {"none", "end"} /\ wpc[w] \notin {"none", "end"}
    BY <1>1, <1>2, <1>4, WorksAt
  <2> QED
    BY <2>1, OnlyOne
<1>5. ASSUME User \/ Elsewhere, NEW v \in Worker, New(v) \/ Delete(v)
      PROVE  FALSE
  BY <1>1, <1>2, <1>3, <1>5
<1>6. ASSUME NEW w \in Worker, Work(w)
      PROVE  /\ wpc[w] # "alloc" => ~\E v \in Worker : New(v)
             /\ wpc[w] # "free" => ~\E v \in Worker : Delete(v)
  BY <1>1, <1>2, <1>4, <1>6
<1> QED
  BY <1>5, <1>6

(* The list with a client at its end, or without the one at its head.      *)
LEMMA AppendList ==
  ASSUME NEW s \in Seq(Client), NEW c \in Client,
         \A i, j \in DOMAIN s : s[i] = s[j] => i = j,
         \A i \in DOMAIN s : s[i] # c
  PROVE  LET t == Append(s, c)
         IN  /\ \A i, j \in DOMAIN t : t[i] = t[j] => i = j
             /\ \A d : (\E i \in DOMAIN t : t[i] = d)
                       <=> d = c \/ \E i \in DOMAIN s : s[i] = d
             /\ t # <<>>
<1> DEFINE t == Append(s, c)
           n == Len(s)
<1>1. /\ n \in Nat /\ DOMAIN s = 1..n /\ DOMAIN t = 1..n + 1
      /\ t[n + 1] = c /\ \A i \in 1..n : t[i] = s[i]
  OBVIOUS
<1> HIDE DEF t, n
<1>2. \A i \in 1..n + 1 : i \in 1..n \/ i = n + 1
  BY <1>1
<1>3. \A i \in 1..n : i \in 1..n + 1
  BY <1>1
<1>4. n + 1 \in 1..n + 1
  BY <1>1
<1>5. ASSUME NEW i \in DOMAIN t, NEW j \in DOMAIN t, t[i] = t[j] PROVE i = j
  <2>1. i \in 1..n \/ i = n + 1
    BY <1>1, <1>2
  <2>2. j \in 1..n \/ j = n + 1
    BY <1>1, <1>2
  <2> QED
    BY <1>1, <1>5, <2>1, <2>2
<1>6. ASSUME NEW d
      PROVE  (\E i \in DOMAIN t : t[i] = d)
             <=> d = c \/ \E i \in DOMAIN s : s[i] = d
  BY <1>1, <1>2, <1>3, <1>4, Zenon
<1>7. t # <<>>
  <2>1. 1 \in DOMAIN t /\ DOMAIN <<>> = {}
    BY <1>1
  <2> QED
    BY <2>1
<1> QED
  BY <1>5, <1>6, <1>7 DEF t

LEMMA TailList ==
  ASSUME NEW s \in Seq(Client), s # <<>>,
         \A i, j \in DOMAIN s : s[i] = s[j] => i = j
  PROVE  LET t == Tail(s)
         IN  /\ \A i, j \in DOMAIN t : t[i] = t[j] => i = j
             /\ \A d : (\E i \in DOMAIN t : t[i] = d)
                       <=> d # Head(s) /\ \E i \in DOMAIN s : s[i] = d
<1> DEFINE t == Tail(s)
           n == Len(s)
<1>1. /\ n \in Nat /\ n > 0 /\ DOMAIN s = 1..n /\ DOMAIN t = 1..n - 1
      /\ \A i \in 1..n - 1 : t[i] = s[i + 1]
      /\ Head(s) = s[1] /\ 1 \in 1..n
  OBVIOUS
<1> HIDE DEF t, n
<1>2. \A i \in 1..n - 1 : i + 1 \in 1..n /\ i + 1 # 1
  BY <1>1
<1>3. \A i \in 1..n : i = 1 \/ (i - 1 \in 1..n - 1 /\ (i - 1) + 1 = i)
  BY <1>1
<1>4. ASSUME NEW i \in DOMAIN t, NEW j \in DOMAIN t, t[i] = t[j] PROVE i = j
  <2>1. i + 1 = j + 1
    BY <1>1, <1>2, <1>4
  <2> QED
    BY <1>1, <2>1
<1>5. ASSUME NEW d
      PROVE  (\E i \in DOMAIN t : t[i] = d)
             <=> d # Head(s) /\ \E i \in DOMAIN s : s[i] = d
  <2>1. ASSUME NEW i \in DOMAIN t, t[i] = d
        PROVE  d # Head(s) /\ \E k \in DOMAIN s : s[k] = d
    <3>1. d = s[i + 1] /\ i + 1 \in 1..n /\ i + 1 # 1
      BY <1>1, <1>2, <2>1
    <3> QED
      BY <1>1, <3>1, Zenon
  <2>2. ASSUME d # Head(s), NEW i \in DOMAIN s, s[i] = d
        PROVE  \E k \in DOMAIN t : t[k] = d
    <3>1. i - 1 \in 1..n - 1 /\ (i - 1) + 1 = i
      BY <1>1, <1>3, <2>2
    <3>2. i - 1 \in DOMAIN t /\ t[i - 1] = d
      BY <1>1, <2>2, <3>1
    <3> QED
      BY <3>2
  <2> QED
    BY <2>1, <2>2
<1> QED
  BY <1>4, <1>5 DEF t

(* What ListOK says of each client and of each worker.                     *)
Once == \A i, j \in DOMAIN m_clientlist :
          m_clientlist[i] = m_clientlist[j] => i = j
Listed(c) == /\ client[c].state = "live" <=> InList(c) \/ AtHand(c)
             /\ ~(InList(c) /\ AtHand(c))
CurOK(w) ==
  /\ wpc[w] \in Creating => cur[w] \in Client
  /\ wpc[w] \in Closing => m_clientlist # <<>> /\ cur[w] = Head(m_clientlist)
Looked == m_clientlist # <<>> => \E w \in Worker : ~Ended(w)
LEMMA ListIs ==
  ListOK <=> /\ Once /\ Looked
             /\ \A c \in Client : Listed(c)
             /\ \A w \in Worker : CurOK(w)
BY Zenon DEF ListOK, Once, Listed, CurOK, Looked
LEMMA ListIsThen ==
  ListOK' <=> /\ Once' /\ Looked'
              /\ \A c \in Client : Listed(c)'
              /\ \A w \in Worker : CurOK(w)'
BY Zenon DEF ListOK, Once, Listed, CurOK, Looked

(* A worker's step is what becomes of the client in its hands.             *)
LEMMA AtHandIs ==
  ASSUME Types, OneTest, NEW w \in Worker, Work(w)
  PROVE  \A c : /\ AtHand(c) <=> wpc[w] \in Creating /\ cur[w] = c
                /\ AtHand(c)' <=> wpc'[w] \in Creating /\ cur'[w] = c
<1>1. \A v \in Worker : v # w => Ended(v) /\ Ended(v)'
  BY OthersStay
<1>2. \A v \in Worker : v # w => wpc[v] \notin Creating /\ wpc'[v] \notin Creating
  BY <1>1 DEF Ended, Creating
<1> QED
  BY <1>2 DEF AtHand

(* A step that leaves the list, and what the worker has in its hands.      *)
LEMMA ListKept ==
  ASSUME Types, OneTest, ListOK, [Next]_vars,
         NEW w \in Worker, Work(w), w \notin {v \in Worker : New(v) \/ Delete(v)},
         UNCHANGED m_clientlist,
         wpc[w] \in Creating <=> wpc'[w] \in Creating,
         wpc[w] \in Creating \cup Closing => cur'[w] = cur[w],
         wpc'[w] \in Closing => wpc[w] \in Closing,
         ~Ended(w)'
  PROVE  ListOK'
<1>0. WorkerTypes
  BY TypesAre
<1>1. \A c \in Client : client'[c].state = client[c].state
  <2>1. ASSUME NEW v \in Worker, New(v) \/ Delete(v) PROVE FALSE
    <3>1. Go(v, "alloc", IF size[v] < 0 THEN "spin" ELSE "init")
          \/ Go(v, "free", "drain")
      BY <2>1, NewIs, Zenon DEF Delete, CloseStep
    <3>2. wpc[v] \notin {"none", "end"}
      BY <3>1 DEF Go
    <3>3. wpc[w] \notin {"none", "end"}
      BY WorksAt
    <3> QED
      BY <2>1, <3>2, <3>3, OnlyOne
  <2> QED
    BY <2>1, ClientStep DEF ClientAfter
<1>2. \A c \in Client : Listed(c)'
  <2>1. \A c : (AtHand(c) <=> AtHand(c)') /\ (InList(c) <=> InList(c)')
    BY AtHandIs DEF InList
  <2> QED
    BY <1>1, <2>1, ListIs DEF Listed
<1>3. \A v \in Worker : CurOK(v)'
  <2>1. ASSUME NEW v \in Worker, v # w PROVE CurOK(v)'
    BY <2>1, OthersStay DEF CurOK, Ended, Creating, Closing
  <2>2. CurOK(w)'
    BY ListIs DEF CurOK
  <2> QED
    BY <2>1, <2>2
<1>4. Once' /\ Looked'
  BY ListIs DEF Once, Looked
<1> QED
  BY <1>2, <1>3, <1>4, ListIsThen

(* Every step keeps the list.                                              *)
LEMMA ListStep ==
  ASSUME Patient, Types, OneTest, SizesOK, Numbered, ListOK, [Next]_vars
  PROVE  ListOK'
<1>0. WorkerTypes /\ ClientTypes
  BY TypesAre
<1>l. /\ Once /\ Looked
      /\ \A c \in Client : Listed(c)
      /\ \A w \in Worker : CurOK(w)
  BY ListIs
<1>1. CASE User \/ Elsewhere
  <2>1. UNCHANGED <<m_clientlist, cur>>
    BY <1>1, ElsewhereKeeps
    DEF User, Start, StartThread, Stop, Exit,
        OnSysCommand, CloseWindow, clients, worker
  <2>2. \A w \in Worker : \/ wpc'[w] = wpc[w]
                          \/ Ended(w) /\ wpc'[w] = "read"
    <3>1. CASE StartThread
      <4>1. \A w \in Worker : Ended(w)
        BY <3>1 DEF StartThread, OneTest
      <4> QED
        BY <1>0, <3>1, <4>1 DEF StartThread, WorkerTypes
    <3>2. CASE Start \/ Stop \/ Exit \/ OnSysCommand \/ Elsewhere
      BY <3>2, ElsewhereKeeps DEF Start, Stop, Exit,
                                  OnSysCommand, CloseWindow, worker
    <3> QED
      BY <1>1, <3>1, <3>2 DEF User
  <2>3. \A w \in Worker : /\ wpc'[w] \in Creating <=> wpc[w] \in Creating
                          /\ wpc'[w] \in Closing <=> wpc[w] \in Closing
                          /\ ~Ended(w) => ~Ended(w)'
    BY <2>2 DEF Ended, Creating, Closing
  <2>4. \A c \in Client : client'[c].state = client[c].state
    BY <1>1, ComeAndGo, ClientStep DEF ClientAfter
  <2>5. \A c : (AtHand(c)' <=> AtHand(c)) /\ (InList(c)' <=> InList(c))
    BY <2>1, <2>3 DEF AtHand, InList
  <2>6. \A c \in Client : Listed(c)'
    BY <1>l, <2>4, <2>5 DEF Listed
  <2>7. \A w \in Worker : CurOK(w)'
    BY <1>l, <2>1, <2>3 DEF CurOK
  <2>8. Once' /\ Looked'
    BY <1>l, <2>1, <2>3 DEF Once, Looked
  <2> QED
    BY <2>6, <2>7, <2>8, ListIsThen
<1>2. ASSUME NEW w \in Worker, Work(w),
             \/ ReadSize(w) \/ Begin(w) \/ Begun(w) \/ NewRead(w)
             \/ InitList(w) \/ InitRequest(w) \/ InitTimers(w) \/ BeginDrain(w)
             \/ CloseStart(w) \/ CloseJoin(w) \/ CloseTimer(w)
      PROVE  ListOK'
  <2>1. /\ UNCHANGED <<m_clientlist, cur>>
        /\ wpc[w] # "alloc" /\ wpc[w] # "free"
        /\ wpc[w] \in Creating <=> wpc'[w] \in Creating
        /\ wpc'[w] \in Closing => wpc[w] \in Closing
        /\ ~Ended(w)'
    <3>1. UNCHANGED <<m_clientlist, cur>>
      BY <1>2, Zenon
      DEF ReadSize, Begin, Begun, NewRead, InitList, InitRequest, InitTimers,
          SetClient, BeginDrain, CloseStart, CloseJoin, CloseTimer, clients
    <3>2. \/ \E from, to \in {"read", "loop", "batch", "drain"} : Go(w, from, to)
          \/ Go(w, "batch", "alloc")
          \/ \E from \in {"init", "request", "timers"} :
             \E to \in {"request", "timers", "push"} : Go(w, from, to)
          \/ \E from \in {"close", "join", "timer"} :
             \E to \in {"join", "timer", "free"} : Go(w, from, to)
      BY <1>2
      DEF ReadSize, Begin, Begun, NewRead, InitList, InitRequest, InitTimers,
          BeginDrain, CloseStart, CloseJoin, CloseTimer, CloseStep
    <3>3. ASSUME NEW from, NEW to, Go(w, from, to)
          PROVE  wpc[w] = from /\ wpc'[w] = to
      BY <1>0, <3>3, GoTypes, Zenon
    <3>4. \/ wpc[w] \in {"read", "loop", "batch", "drain"}
               /\ wpc'[w] \in {"read", "loop", "batch", "drain", "alloc"}
          \/ wpc[w] \in {"init", "request", "timers"}
               /\ wpc'[w] \in {"request", "timers", "push"}
          \/ wpc[w] \in {"close", "join", "timer"}
               /\ wpc'[w] \in {"join", "timer", "free"}
      BY <3>2, <3>3
    <3> QED
      BY <3>1, <3>4 DEF Creating, Closing, Ended
  <2>2. w \notin {v \in Worker : New(v) \/ Delete(v)}
    BY <1>2, <2>1, ComeAndGo
  <2> QED
    BY <1>2, <2>1, <2>2, ListKept
<1>3. ASSUME NEW w \in Worker, Work(w), New(w) PROVE ListOK'
  <2>1. /\ wpc[w] = "alloc" /\ UNCHANGED m_clientlist /\ cur'[w] = Fresh
        /\ wpc'[w] \in {"init", "spin"}
    BY <1>0, <1>3, NewIs, GoTypes DEF WorkerTypes
  <2>2. wpc'[w] = "init"
    BY <2>1, <1>3, SizesStep DEF SizesOK
  <2>3. /\ Fresh \in Client /\ client[Fresh].state = "none"
        /\ client'[Fresh].state = "live"
        /\ \A d \in Client : d # Fresh => client'[d] = client[d]
    BY <1>3, NewAfter DEF Created
  <2>4. \A c : ~AtHand(c) /\ (AtHand(c)' <=> c = Fresh)
               /\ (InList(c)' <=> InList(c))
    <3>1. \A c : InList(c)' <=> InList(c)
      BY <2>1 DEF InList
    <3> QED
      BY <1>3, <2>1, <2>2, <3>1, AtHandIs DEF Creating
  <2>5. \A c \in Client : Listed(c)'
    BY <1>l, <2>3, <2>4 DEF Listed
  <2>6. \A v \in Worker : CurOK(v)'
    <3>1. ASSUME NEW v \in Worker, v # w PROVE CurOK(v)'
      BY <1>3, <3>1, OthersStay DEF CurOK, Ended, Creating, Closing
    <3>2. CurOK(w)'
      BY <2>1, <2>2, <2>3 DEF CurOK, Closing
    <3> QED
      BY <3>1, <3>2
  <2>7. Once' /\ Looked'
    BY <1>l, <2>1, <2>2 DEF Once, Looked, Ended
  <2> QED
    BY <2>5, <2>6, <2>7, ListIsThen
<1>4. ASSUME NEW w \in Worker, Work(w), Push(w) PROVE ListOK'
  <2>1. /\ wpc[w] = "push" /\ wpc'[w] = "batch"
        /\ m_clientlist' = Append(m_clientlist, cur[w])
    BY <1>0, <1>4, GoTypes DEF Push
  <2>2. m_clientlist \in Seq(Client) /\ cur[w] \in Client
    BY <1>0, <1>l, <2>1 DEF ClientTypes, CurOK, Creating
  <2>3. AtHand(cur[w]) /\ ~InList(cur[w])
    BY <1>l, <1>4, <2>1, <2>2, AtHandIs DEF Listed, Creating
  <2>4. /\ Once'
        /\ \A c : InList(c)' <=> c = cur[w] \/ InList(c)
    BY <1>l, <2>1, <2>2, <2>3, AppendList DEF Once, InList
  <2>5. \A c : (AtHand(c) <=> c = cur[w]) /\ ~AtHand(c)'
    BY <1>4, <2>1, AtHandIs DEF Creating
  <2>6. \A c \in Client : client'[c].state = client[c].state
    BY <1>4, <2>1, ComeAndGo, ClientStep DEF ClientAfter
  <2>7. \A c \in Client : Listed(c)'
    BY <1>l, <2>4, <2>5, <2>6 DEF Listed
  <2>8. \A v \in Worker : CurOK(v)'
    <3>1. ASSUME NEW v \in Worker, v # w PROVE CurOK(v)'
      BY <1>4, <3>1, OthersStay DEF CurOK, Ended, Creating, Closing
    <3>2. CurOK(w)'
      BY <2>1 DEF CurOK, Closing, Creating
    <3> QED
      BY <3>1, <3>2
  <2>9. Looked'
    BY <2>1 DEF Looked, Ended
  <2> QED
    BY <2>4, <2>7, <2>8, <2>9, ListIsThen
<1>5. ASSUME NEW w \in Worker, Work(w), Drain(w) PROVE ListOK'
  <2>1. /\ wpc[w] = "drain" /\ wpc'[w] = "close" /\ m_clientlist # <<>>
        /\ UNCHANGED m_clientlist /\ cur'[w] = Head(m_clientlist)
    BY <1>0, <1>5, GoTypes DEF Drain, WorkerTypes, clients
  <2>2. \A c \in Client : client'[c].state = client[c].state
    BY <1>5, <2>1, ComeAndGo, ClientStep DEF ClientAfter
  <2>3. \A c : ~AtHand(c) /\ ~AtHand(c)' /\ (InList(c)' <=> InList(c))
    <3>1. \A c : InList(c)' <=> InList(c)
      BY <2>1 DEF InList
    <3> QED
      BY <1>5, <2>1, <3>1, AtHandIs DEF Creating
  <2>4. \A c \in Client : Listed(c)'
    BY <1>l, <2>2, <2>3 DEF Listed
  <2>5. \A v \in Worker : CurOK(v)'
    <3>1. ASSUME NEW v \in Worker, v # w PROVE CurOK(v)'
      BY <1>5, <3>1, OthersStay DEF CurOK, Ended, Creating, Closing
    <3>2. CurOK(w)'
      BY <2>1 DEF CurOK, Closing, Creating
    <3> QED
      BY <3>1, <3>2
  <2>6. Once' /\ Looked'
    BY <1>l, <2>1 DEF Once, Looked, Ended
  <2> QED
    BY <2>4, <2>5, <2>6, ListIsThen
<1>6. ASSUME NEW w \in Worker, Work(w), Delete(w) PROVE ListOK'
  <2>1. /\ wpc[w] = "free" /\ wpc'[w] = "drain"
    BY <1>0, <1>6, GoTypes DEF Delete, CloseStep
  <2>2. /\ m_clientlist # <<>> /\ cur[w] = Head(m_clientlist)
        /\ m_clientlist' = Tail(m_clientlist) /\ m_clientlist \in Seq(Client)
    BY <1>0, <1>l, <1>6, <2>1 DEF Delete, CurOK, Closing, ClientTypes
  <2>3. /\ Once'
        /\ \A c : InList(c)' <=> c # cur[w] /\ InList(c)
    BY <1>l, <2>2, TailList DEF Once, InList
  <2>4. \A c : ~AtHand(c) /\ ~AtHand(c)'
    BY <1>6, <2>1, AtHandIs DEF Creating
  <2>5. \A c \in Client : client'[c].state = IF c = cur[w] THEN "deleted"
                                              ELSE client[c].state
    <3>1. cur[w] \in Client
      BY <2>2
    <3>2. client'[cur[w]].state = "deleted"
      <4>1. PICK q \in ClientType : q = client[cur[w]]
        BY <1>0, <3>1 DEF ClientTypes
      <4>2. client'[cur[w]] = [remove_timer_handler(cur[w])
                                 EXCEPT !.state = "deleted", !.start = FALSE]
        BY <1>0, <1>6, <3>1 DEF Delete, ClientTypes
      <4> QED
        BY <4>1, <4>2 DEF remove_timer_handler, ClientType
    <3>3. \A c \in Client : c # cur[w] => client'[c] = client[c]
      BY <1>0, <1>6 DEF Delete, ClientTypes
    <3> QED
      BY <3>2, <3>3
  <2>6. \A c \in Client : Listed(c)'
    BY <1>l, <2>3, <2>4, <2>5 DEF Listed
  <2>7. \A v \in Worker : CurOK(v)'
    <3>1. ASSUME NEW v \in Worker, v # w PROVE CurOK(v)'
      BY <1>6, <3>1, OthersStay DEF CurOK, Ended, Creating, Closing
    <3>2. CurOK(w)'
      BY <2>1 DEF CurOK, Closing, Creating
    <3> QED
      BY <3>1, <3>2
  <2>8. Looked'
    BY <2>1 DEF Looked, Ended
  <2> QED
    BY <2>3, <2>6, <2>7, <2>8, ListIsThen
<1>7. ASSUME NEW w \in Worker, Work(w), Finish(w) PROVE ListOK'
  <2>1. /\ wpc[w] = "drain" /\ wpc'[w] \in {"spin", "end"}
        /\ m_clientlist = <<>> /\ UNCHANGED m_clientlist
    BY <1>0, <1>7, GoTypes DEF Finish, clients
  <2>2. \A c \in Client : client'[c].state = client[c].state
    BY <1>7, <2>1, ComeAndGo, ClientStep DEF ClientAfter
  <2>3. \A c : ~AtHand(c) /\ ~AtHand(c)' /\ (InList(c)' <=> InList(c))
    <3>1. \A c : InList(c)' <=> InList(c)
      BY <2>1 DEF InList
    <3> QED
      BY <1>7, <2>1, <3>1, AtHandIs DEF Creating
  <2>4. \A c \in Client : Listed(c)'
    BY <1>l, <2>2, <2>3 DEF Listed
  <2>5. \A v \in Worker : CurOK(v)'
    <3>1. ASSUME NEW v \in Worker, v # w PROVE CurOK(v)'
      BY <1>7, <3>1, OthersStay DEF CurOK, Ended, Creating, Closing
    <3>2. CurOK(w)'
      BY <2>1 DEF CurOK, Closing, Creating
    <3> QED
      BY <3>1, <3>2
  <2>6. Once' /\ Looked'
    BY <1>l, <2>1 DEF Once, Looked
  <2> QED
    BY <2>4, <2>5, <2>6, ListIsThen
<1> QED
  BY <1>1, <1>2, <1>3, <1>4, <1>5, <1>6, <1>7 DEF Next, User, Work, Elsewhere

-----------------------------------------------------------------------------
(* The end of a client.                                                    *)

(* g_flag is never taken back, and a sender that has ended stays so.       *)
LEMMA FlagStays ==
  ASSUME [Next]_vars
  PROVE  /\ g_flag => g_flag'
         /\ (~\E w \in Worker : CloseStart(w)) => UNCHANGED g_flag
         /\ \A w \in Worker : CloseStart(w) => g_flag'
<1>1. \A w \in Worker : CloseStart(w) => g_flag' = TRUE
  BY Zenon DEF CloseStart
<1>2. (~\E w \in Worker : CloseStart(w)) => UNCHANGED g_flag
  BY Zenon
  DEF Next, User, Start, StartThread, Stop, Exit,
      OnSysCommand, CloseWindow, Work, ReadSize, Begin,
      Begun, NewRead, New, InitList, InitRequest, InitTimers, SetClient, Push,
      BeginDrain, Drain, CloseJoin, CloseTimer, CloseStep, Delete,
      Finish, TimerQueue, Beat, Beaten, Reactor, Tick, TickEnds,
      SendHartPacket, Look, Send, SenderEnds, SetSender, vars, globals
<1> QED
  BY <1>1, <1>2

LEMMA SenderStep ==
  ASSUME Types, [Next]_vars, ~\E w \in Worker : New(w),
         NEW c \in Client, NEW k \in Sender
  PROVE  /\ sender[c][k] = "end" => sender'[c][k] = "end"
         /\ sender'[c][k] = "send" => sender[c][k] = "send" \/ Look(c, k)
         /\ sender[c][k] = "none" => sender'[c][k] = "none"
<1>0. ClientTypes
  BY TypesAre
<1>1. ASSUME NEW d \in Client, NEW j \in Sender, NEW from, NEW to,
             SetSender(d, j, from, to)
      PROVE  /\ sender[d][j] = from /\ sender'[d][j] = to
             /\ d # c \/ j # k => sender'[c][k] = sender[c][k]
  BY <1>0, <1>1 DEF SetSender, ClientTypes
<1>2. ASSUME NEW d \in Client, NEW j \in Sender, SendHartPacket(d, j)
      PROVE  /\ sender[c][k] = "end" => sender'[c][k] = "end"
             /\ sender'[c][k] = "send" => sender[c][k] = "send" \/ Look(c, k)
             /\ sender[c][k] = "none" => sender'[c][k] = "none"
  <2>1. CASE Look(d, j)
    <3>1. SetSender(d, j, "check", "send")
      BY <2>1 DEF Look
    <3> QED
      BY <1>1, <2>1, <3>1
  <2>2. CASE Send(d, j)
    <3>1. SetSender(d, j, "send", "check")
      BY <2>2 DEF Send
    <3> QED
      BY <1>1, <3>1
  <2>3. CASE SenderEnds(d, j)
    <3>1. SetSender(d, j, "check", "end")
      BY <2>3 DEF SenderEnds
    <3> QED
      BY <1>1, <3>1
  <2> QED
    BY <1>2, <2>1, <2>2, <2>3 DEF SendHartPacket
<1>3. ASSUME ~\E d \in Client, j \in Sender : SendHartPacket(d, j)
      PROVE  UNCHANGED sender
  BY <1>3, Zenon
  DEF Next, User, Start, StartThread, Stop, Exit,
      OnSysCommand, CloseWindow, Work, ReadSize, Begin,
      Begun, NewRead, InitList, InitRequest, InitTimers, SetClient, Push,
      BeginDrain, Drain, CloseStart, CloseJoin, CloseTimer, Delete,
      Finish, TimerQueue, Beat, Beaten, Reactor, Tick, TickEnds, vars, clients
<1> QED
  BY <1>2, <1>3

(* A client that has ended stays so: timers are started for a client in    *)
(* the hands of the worker that creates it.                                *)
LEMMA EndedStays ==
  ASSUME Types, OneTest, ListOK, [Next]_vars, ~\E w \in Worker : New(w),
         NEW c \in Client
  PROVE  /\ SendersEnded(c) => SendersEnded(c)'
         /\ TimersEnded(c) /\ (~\E w \in Worker : InitTimers(w) /\ c = cur[w])
              => TimersEnded(c)'
<1>1. SendersEnded(c) => SendersEnded(c)'
  BY SenderStep DEF SendersEnded
<1>2. ClientAfter(c)
  BY ClientStep
<1>3. ASSUME TimersEnded(c), ~\E w \in Worker : InitTimers(w) /\ c = cur[w]
      PROVE  TimersEnded(c)'
  <2>1. ~client'[c].timer
    BY <1>2, <1>3, Zenon DEF TimersEnded, ClientAfter
  <2>2. ~client'[c].beating
    BY <1>2, <1>3, Zenon DEF TimersEnded, ClientAfter
  <2> QED
    BY <2>1, <2>2 DEF TimersEnded
<1> QED
  BY <1>1, <1>3

(* What EndedOK says of a worker.                                          *)
ClosingOK(w) ==
  /\ wpc[w] \in {"join", "timer", "free"} => g_flag
  /\ wpc[w] \in {"timer", "free"} => SendersEnded(cur[w])
  /\ wpc[w] = "free" => TimersEnded(cur[w])

LEMMA EndedStep ==
  ASSUME Types, OneTest, ListOK, Numbered, EndedOK, [Next]_vars
  PROVE  EndedOK'
<1>0. WorkerTypes /\ ClientTypes
  BY TypesAre
<1>1. EndedOK' <=>
        /\ \A c \in Client : client'[c].state = "deleted" =>
             SendersEnded(c)' /\ TimersEnded(c)' /\ g_flag'
        /\ \A w \in Worker : ClosingOK(w)'
  BY Zenon DEF EndedOK, ClosingOK
<1>w. \A w \in Worker : ClosingOK(w)
  BY Zenon DEF EndedOK, ClosingOK
<1>2. CASE \E w \in Worker : New(w)
  <2>1. PICK w \in Worker : New(w)
    BY <1>2
  <2>2. wpc[w] = "alloc" /\ wpc'[w] \in {"init", "spin"} /\ Work(w)
    BY <1>0, <2>1, NewIs, GoTypes DEF Work
  <2>3. ASSUME NEW c \in Client, client'[c].state = "deleted"
        PROVE  SendersEnded(c)' /\ TimersEnded(c)' /\ g_flag'
    <3>1. c # Fresh
      BY <2>1, <2>3, NewAfter
    <3>2. client'[c] = client[c] /\ sender'[c] = sender[c]
      BY <2>1, <3>1, NewAfter
    <3> QED
      BY <2>3, <3>2, FlagStays DEF EndedOK, SendersEnded, TimersEnded
  <2>4. ASSUME NEW v \in Worker PROVE ClosingOK(v)'
    <3>1. CASE v = w
      BY <2>2, <3>1 DEF ClosingOK
    <3>2. CASE v # w
      BY <2>2, <3>2, OthersStay DEF ClosingOK, Ended
    <3> QED
      BY <3>1, <3>2
  <2> QED
    BY <1>1, <2>3, <2>4
<1>3. CASE ~\E w \in Worker : New(w)
  <2>1. ASSUME NEW c \in Client, client'[c].state = "deleted"
        PROVE  SendersEnded(c)' /\ TimersEnded(c)' /\ g_flag'
    <3>1. SendersEnded(c) /\ TimersEnded(c) /\ g_flag
      <4>1. CASE client[c].state = "deleted"
        BY <4>1 DEF EndedOK
      <4>2. CASE client[c].state # "deleted"
        <5>1. PICK w \in Worker : Delete(w) /\ c = cur[w]
          BY <1>3, <2>1, <4>2, ClientStep DEF ClientAfter
        <5>2. wpc[w] = "free"
          BY <5>1 DEF Delete, CloseStep, Go
        <5> QED
          BY <1>w, <5>1, <5>2 DEF ClosingOK
      <4> QED
        BY <4>1, <4>2
    <3>2. ~\E w \in Worker : InitTimers(w) /\ c = cur[w]
      <4>1. SUFFICES ASSUME NEW w \in Worker, InitTimers(w), c = cur[w]
                     PROVE  FALSE
        OBVIOUS
      <4>2. wpc[w] = "timers" /\ wpc'[w] = "push"
        BY <1>0, <4>1, GoTypes DEF InitTimers
      <4>3. client[c].state = "live"
        BY <4>1, <4>2, AtCurLives DEF Creating
      <4>4. PICK v \in Worker : Delete(v) /\ c = cur[v]
        BY <1>3, <2>1, <4>3, ClientStep DEF ClientAfter
      <4>5. wpc[v] = "free"
        BY <4>4 DEF Delete, CloseStep, Go
      <4> QED
        BY <4>2, <4>5, OnlyOne
    <3> QED
      BY <1>3, <3>1, <3>2, EndedStays, FlagStays
  <2>2. ASSUME NEW w \in Worker, Work(w) PROVE ClosingOK(w)'
    <3>g. ASSUME NEW from, NEW to, Go(w, from, to)
          PROVE  wpc[w] = from /\ wpc'[w] = to
      BY <1>0, <3>g, GoTypes, Zenon
    <3>1. CASE CloseStart(w)
      <4>1. wpc'[w] = "join"
        BY <3>1, <3>g DEF CloseStart, CloseStep
      <4> QED
        BY <3>1, <4>1, FlagStays DEF ClosingOK
    <3>2. CASE CloseJoin(w)
      <4>1. wpc[w] = "join" /\ wpc'[w] = "timer" /\ UNCHANGED <<cur, sender>>
        BY <3>2, <3>g DEF CloseJoin, CloseStep, clients
      <4>2. SendersEnded(cur[w])
        BY <3>2 DEF CloseJoin, SendersEnded
      <4> QED
        BY <1>w, <4>1, <4>2, FlagStays DEF ClosingOK, SendersEnded
    <3>3. CASE CloseTimer(w)
      <4>1. /\ wpc[w] = "timer" /\ wpc'[w] = "free" /\ UNCHANGED <<cur, sender>>
            /\ ~client[cur[w]].beating
            /\ client' = [client EXCEPT ![cur[w]].timer = FALSE]
        BY <3>3, <3>g DEF CloseTimer, CloseStep
      <4>2. cur[w] \in Client
        BY <4>1, AtCur DEF Closing
      <4>3. TimersEnded(cur[w])'
        <5>1. PICK q \in ClientType : q = client[cur[w]]
          BY <1>0, <4>2 DEF ClientTypes
        <5>2. client'[cur[w]] = [q EXCEPT !.timer = FALSE] /\ ~q.beating
          BY <1>0, <4>1, <4>2, <5>1 DEF ClientTypes
        <5>3. ~client'[cur[w]].timer /\ ~client'[cur[w]].beating
          BY <5>2 DEF ClientType
        <5> QED
          BY <4>1, <5>3 DEF TimersEnded
      <4>4. SendersEnded(cur[w])'
        BY <1>w, <4>1 DEF ClosingOK, SendersEnded
      <4> QED
        BY <1>w, <4>1, <4>3, <4>4, FlagStays DEF ClosingOK
    <3>4. CASE ~CloseStart(w) /\ ~CloseJoin(w) /\ ~CloseTimer(w)
      <4>1. wpc'[w] \notin {"join", "timer", "free"}
        <5>1. CASE New(w)
          BY <1>3, <5>1
        <5>2. CASE InitRequest(w)
          BY <5>2, <3>g DEF InitRequest
        <5>3. CASE Finish(w)
          BY <5>3, <3>g DEF Finish
        <5>4. CASE \/ ReadSize(w) \/ Begin(w) \/ Begun(w) \/ NewRead(w)
                   \/ InitList(w) \/ InitTimers(w) \/ Push(w) \/ BeginDrain(w)
                   \/ Drain(w) \/ Delete(w)
          <6>1. \E from : \E to \in {"loop", "batch", "alloc", "request",
                                     "push", "drain", "close"} :
                  Go(w, from, to)
            BY <5>4
            DEF ReadSize, Begin, Begun, NewRead, InitList, InitTimers, Push,
                BeginDrain, Drain, Delete, CloseStep
          <6> QED
            BY <6>1, <3>g
        <5> QED
          BY <2>2, <3>4, <5>1, <5>2, <5>3, <5>4 DEF Work
      <4> QED
        BY <4>1 DEF ClosingOK
    <3> QED
      BY <3>1, <3>2, <3>3, <3>4
  <2>3. ASSUME NEW w \in Worker, Work(w), NEW v \in Worker
        PROVE  ClosingOK(v)'
    <3>1. CASE v # w
      BY <2>3, <3>1, OthersStay DEF ClosingOK, Ended
    <3> QED
      BY <2>2, <2>3, <3>1
  <2>4. ASSUME User \/ Elsewhere, NEW w \in Worker PROVE ClosingOK(w)'
    <3>1. wpc'[w] \in {wpc[w], "read"} /\ UNCHANGED cur
      <4>1. CASE StartThread
        BY <1>0, <4>1 DEF StartThread, WorkerTypes
      <4>2. CASE Start \/ Stop \/ Exit \/ OnSysCommand \/ Elsewhere
        BY <4>2, ElsewhereKeeps DEF Start, Stop, Exit,
                                    OnSysCommand, CloseWindow, worker
      <4> QED
        BY <2>4, <4>1, <4>2 DEF User
    <3>2. CASE wpc'[w] = wpc[w] /\ wpc[w] \in {"join", "timer", "free"}
      <4>1. cur[w] \in Client
        BY <3>2, AtCur DEF Closing
      <4>2. ~\E v \in Worker : InitTimers(v) /\ cur[w] = cur[v]
        <5>1. ASSUME NEW v \in Worker, InitTimers(v) PROVE FALSE
          <6>1. wpc[v] = "timers" /\ wpc'[v] = "push"
            BY <1>0, <5>1, GoTypes DEF InitTimers
          <6> QED
            BY <3>2, <6>1, OnlyOne
        <5> QED
          BY <5>1
      <4>3. /\ SendersEnded(cur[w]) => SendersEnded(cur[w])'
            /\ TimersEnded(cur[w]) => TimersEnded(cur[w])'
        <5>1. cur'[w] = cur[w]
          BY <3>1
        <5>2. PICK c \in Client : c = cur[w]
          BY <4>1
        <5>3. /\ SendersEnded(c) => SendersEnded(c)'
              /\ TimersEnded(c) => TimersEnded(c)'
          BY <1>3, <4>2, <5>2, EndedStays
        <5> QED
          BY <5>1, <5>2, <5>3 DEF SendersEnded, TimersEnded
      <4> QED
        BY <1>w, <3>2, <4>3, FlagStays DEF ClosingOK
    <3> QED
      BY <3>1, <3>2 DEF ClosingOK
  <2> QED
    BY <1>1, <2>1, <2>3, <2>4 DEF Next, User, Work, Elsewhere
<1> QED
  BY <1>2, <1>3

LEMMA CancelledStep ==
  ASSUME Types, OneTest, ListOK, Numbered, CancelledOK, [Next]_vars
  PROVE  CancelledOK'
<1> SUFFICES ASSUME NEW c \in Client, client'[c].state = "deleted",
                    c \in Knowing
             PROVE  ~client'[c].scheduled
  BY DEF CancelledOK
<1>1. CASE \E w \in Worker : New(w)
  <2>1. c # Fresh
    BY <1>1, NewAfter
  <2>2. client'[c] = client[c]
    BY <1>1, <2>1, NewAfter
  <2> QED
    BY <2>2 DEF CancelledOK
<1>2. CASE ~\E w \in Worker : New(w)
  <2>1. ClientAfter(c)
    BY <1>2, ClientStep
  <2>2. CASE client'[c].state # client[c].state
    BY <2>1, <2>2 DEF ClientAfter
  <2>3. CASE client[c].state = "deleted"
    <3>1. ~\E w \in Worker : InitTimers(w) /\ c = cur[w]
      <4>1. ASSUME NEW w \in Worker, InitTimers(w), c = cur[w] PROVE FALSE
        <5>1. wpc[w] \in Creating
          BY <4>1 DEF InitTimers, Go, Creating
        <5> QED
          BY <2>3, <4>1, <5>1, AtCurLives
      <4> QED
        BY <4>1
    <3>2. ~client[c].scheduled
      BY <2>3 DEF CancelledOK
    <3> QED
      BY <2>1, <3>1, <3>2, Zenon DEF ClientAfter
  <2> QED
    BY <2>2, <2>3
<1> QED
  BY <1>1, <1>2

-----------------------------------------------------------------------------
(* What the senders share.                                                 *)

(* The parts of AloneOK.                                                   *)
ListedOK ==
  /\ \A w \in Worker : wpc[w] \in {"request", "timers", "push"} =>
       client[cur[w]].listed
  /\ \A c \in Client :
       /\ client[c].scheduled => client[c].listed
       /\ client[c].listed => c \in Created
SomeListed == \E c \in Client : client[c].listed
TicksOK ==
  /\ \A k \in Sender : count[k] # 0 => SomeListed
  /\ \A c \in Client, k \in Sender :
       /\ sender[c][k] # "none" => c \in Created
       /\ sender[c][k] = "send" => SomeListed
FirstOnly ==
  /\ ~g_flag => Created \subseteq {1}
  /\ \A k \in Sender :
       /\ count[k] >= 0
       /\ \A c \in Client : sender[c][k] = "send" =>
            c = 1 /\ client[c].listed /\ count[k] > 0
Excused == fault = "range" =>
             \E c \in Client : client[c].n \in 1..Senders * Share - 1
LEMMA AloneIs ==
  AloneOK <=> /\ ListedOK /\ TicksOK
              /\ ~crowd => FirstOnly /\ Excused
              /\ fault # "deleted"
BY Zenon DEF AloneOK, ListedOK, TicksOK, SomeListed, FirstOnly, Excused
LEMMA AloneIsThen ==
  AloneOK' <=> /\ ListedOK' /\ TicksOK'
               /\ ~crowd' => FirstOnly' /\ Excused'
               /\ fault' # "deleted"
BY Zenon DEF AloneOK, ListedOK, TicksOK, SomeListed, FirstOnly, Excused

(* A client's list is there from InitList on.                              *)
LEMMA ListedStep ==
  ASSUME Types, OneTest, ListOK, Numbered, ListedOK, [Next]_vars
  PROVE  ListedOK'
<1>0. WorkerTypes /\ ClientTypes
  BY TypesAre
<1>1. ASSUME NEW w \in Worker, New(w) PROVE ListedOK'
  <2>1. wpc[w] = "alloc" /\ wpc'[w] \in {"init", "spin"} /\ Work(w)
    BY <1>0, <1>1, NewIs, GoTypes DEF Work
  <2>2. \A v \in Worker : wpc'[v] \notin {"request", "timers", "push"}
    BY <2>1, OthersStay DEF Ended
  <2>3. ASSUME NEW c \in Client
        PROVE  /\ client'[c].scheduled => client'[c].listed
               /\ client'[c].listed => c \in Created'
    <3>1. CASE c = Fresh
      BY <1>1, <3>1, NewAfter DEF ListedOK
    <3>2. CASE c # Fresh
      BY <1>1, <3>2, NewAfter DEF ListedOK
    <3> QED
      BY <3>1, <3>2
  <2> QED
    BY <2>2, <2>3 DEF ListedOK
<1>2. CASE ~\E w \in Worker : New(w)
  <2>1. Created' = Created
    BY <1>2, CreatedThen
  <2>2. ASSUME NEW c \in Client PROVE ClientAfter(c)
    BY <1>2, <2>2, ClientStep
  <2>3. ASSUME NEW c \in Client
        PROVE  /\ client'[c].scheduled => client'[c].listed
               /\ client'[c].listed => c \in Created'
    <3>1. ASSUME client'[c].scheduled PROVE client'[c].listed
      <4>1. CASE client[c].scheduled
        BY <2>2, <4>1 DEF ListedOK, ClientAfter
      <4>2. CASE ~client[c].scheduled
        <5>1. PICK w \in Worker : InitTimers(w) /\ c = cur[w]
          BY <2>2, <3>1, <4>2, Zenon DEF ClientAfter
        <5>2. wpc[w] = "timers"
          BY <5>1 DEF InitTimers, Go
        <5>3. client[c].listed
          BY <5>1, <5>2 DEF ListedOK
        <5> QED
          BY <2>2, <5>3, Zenon DEF ClientAfter
      <4> QED
        BY <4>1, <4>2
    <3>2. ASSUME client'[c].listed PROVE c \in Created'
      <4>1. CASE client[c].listed
        BY <2>1, <4>1 DEF ListedOK
      <4>2. CASE ~client[c].listed
        <5>1. PICK w \in Worker : InitList(w) /\ c = cur[w]
          BY <2>2, <3>2, <4>2, Zenon DEF ClientAfter
        <5>2. wpc[w] \in Creating
          BY <5>1 DEF InitList, Go, Creating
        <5>3. c \in Created
          BY <5>1, <5>2, AtCurLives DEF Created
        <5> QED
          BY <2>1, <5>3
      <4> QED
        BY <4>1, <4>2
    <3> QED
      BY <3>1, <3>2
  <2>4. ASSUME NEW w \in Worker, wpc'[w] \in {"request", "timers", "push"}
        PROVE  client'[cur'[w]].listed
    <3>1. CASE wpc[w] \in {"request", "timers", "push"} /\ cur'[w] = cur[w]
      <4>1. cur[w] \in Client
        BY <3>1, AtCur DEF Creating
      <4> QED
        BY <2>2, <3>1, <4>1, Zenon DEF ClientAfter, ListedOK
    <3>2. CASE InitList(w)
      <4>1. wpc[w] = "init" /\ UNCHANGED cur
        BY <3>2 DEF InitList, Go, SetClient
      <4>2. cur[w] \in Client
        BY <4>1, AtCur DEF Creating
      <4>3. PICK q \in ClientType : q = client[cur[w]]
        BY <1>0, <4>2 DEF ClientTypes
      <4>4. client'[cur[w]] = [q EXCEPT !.listed = TRUE]
        BY <1>0, <3>2, <4>2, <4>3 DEF InitList, SetClient, ClientTypes
      <4>5. client'[cur[w]].listed
        BY <4>4 DEF ClientType
      <4> QED
        BY <4>1, <4>5
    <3>3. ASSUME Work(w), ~InitList(w)
          PROVE  wpc[w] \in {"request", "timers", "push"} /\ cur'[w] = cur[w]
      <4>g. ASSUME NEW from, NEW to, Go(w, from, to)
            PROVE  wpc[w] = from /\ wpc'[w] = to
        BY <1>0, <4>g, GoTypes, Zenon
      <4>1. CASE InitRequest(w) \/ InitTimers(w)
        BY <4>1 DEF InitRequest, InitTimers, SetClient, Go
      <4>2. CASE New(w)
        BY <1>2, <4>2
      <4>3. CASE Finish(w)
        BY <2>4, <4>3, <4>g DEF Finish
      <4>4. CASE \/ ReadSize(w) \/ Begin(w) \/ Begun(w) \/ NewRead(w)
                 \/ Push(w) \/ BeginDrain(w) \/ Drain(w) \/ CloseStart(w)
                 \/ CloseJoin(w) \/ CloseTimer(w) \/ Delete(w)
        <5>1. \E from : \E to \in {"loop", "batch", "alloc", "drain", "close",
                                   "join", "timer", "free"} : Go(w, from, to)
          BY <4>4
          DEF ReadSize, Begin, Begun, NewRead, Push, BeginDrain, Drain,
              CloseStart, CloseJoin, CloseTimer, Delete, CloseStep
        <5> QED
          BY <2>4, <5>1, <4>g
      <4> QED
        BY <3>3, <4>1, <4>2, <4>3, <4>4 DEF Work
    <3>4. ASSUME NEW v \in Worker, Work(v), v # w PROVE FALSE
      BY <2>4, <3>4, OthersStay DEF Ended
    <3>5. ASSUME User \/ Elsewhere
          PROVE  wpc[w] \in {"request", "timers", "push"} /\ cur'[w] = cur[w]
      <4>1. wpc'[w] \in {wpc[w], "read"} /\ UNCHANGED cur
        <5>1. CASE StartThread
          BY <1>0, <5>1 DEF StartThread, WorkerTypes
        <5>2. CASE Start \/ Stop \/ Exit \/ OnSysCommand \/ Elsewhere
          BY <5>2, ElsewhereKeeps DEF Start, Stop, Exit,
                                      OnSysCommand, CloseWindow, worker
        <5> QED
          BY <3>5, <5>1, <5>2 DEF User
      <4> QED
        BY <2>4, <4>1
    <3> QED
      BY <3>1, <3>2, <3>3, <3>4, <3>5, Zenon DEF Next, User, Work, Elsewhere
  <2> QED
    BY <2>3, <2>4 DEF ListedOK
<1> QED
  BY <1>1, <1>2

(* A count is raised by a tick and lowered by the sender that took one.    *)
LEMMA CountStep ==
  ASSUME Types, [Next]_vars, NEW k \in Sender
  PROVE  \/ count'[k] = count[k]
         \/ \E c \in Client : Tick(c) /\ count'[k] = count[k] + 1
         \/ \E c \in Client : Send(c, k) /\ count'[k] = count[k] - 1
<1>0. GlobalTypes
  BY TypesAre
<1>1. ASSUME NEW c \in Client, Tick(c) PROVE count'[k] = count[k] + 1
  BY <1>1 DEF Tick
<1>2. ASSUME NEW c \in Client, NEW j \in Sender, Send(c, j)
      PROVE  \/ count'[k] = count[k]
             \/ j = k /\ count'[k] = count[k] - 1
  <2>1. count' = [count EXCEPT ![j] = IF @ > -MaxCount THEN @ - 1 ELSE @]
    BY <1>2 DEF Send
  <2> QED
    BY <1>0, <2>1 DEF GlobalTypes
<1>3. ASSUME ~\E c \in Client : Tick(c),
             ~\E c \in Client, j \in Sender : Send(c, j)
      PROVE  UNCHANGED count
  BY <1>3, Zenon
  DEF Next, User, Start, StartThread, Stop, Exit,
      OnSysCommand, CloseWindow, Work, ReadSize, Begin,
      Begun, NewRead, New, InitList, InitRequest, InitTimers, SetClient, Push,
      BeginDrain, Drain, CloseStart, CloseJoin, CloseTimer, CloseStep, Delete,
      Finish, TimerQueue, Beat, Beaten, Reactor, TickEnds, SendHartPacket,
      Look, SenderEnds, vars, globals
<1> QED
  BY <1>1, <1>2, <1>3

(* A list that has come stays, and ticks follow it.                        *)
LEMMA SomeListedStays ==
  ASSUME Types, ListOK, Numbered, [Next]_vars, SomeListed
  PROVE  SomeListed'
<1>1. PICK c \in Client : client[c].listed
  BY DEF SomeListed
<1>2. client'[c].listed
  <2>1. CASE \E w \in Worker : New(w)
    <3>1. CASE c = Fresh
      BY <1>1, <2>1, <3>1, NewAfter
    <3>2. CASE c # Fresh
      BY <1>1, <2>1, <3>2, NewAfter
    <3> QED
      BY <3>1, <3>2
  <2>2. CASE ~\E w \in Worker : New(w)
    BY <1>1, <2>2, ClientStep, Zenon DEF ClientAfter
  <2> QED
    BY <2>1, <2>2
<1> QED
  BY <1>2 DEF SomeListed

LEMMA TicksStep ==
  ASSUME Types, ListOK, Numbered, ListedOK, TicksOK, [Next]_vars
  PROVE  TicksOK'
<1>0. SomeListed => SomeListed'
  BY SomeListedStays
<1>1. ASSUME NEW k \in Sender, count'[k] # 0 PROVE SomeListed'
  <2>1. CASE count[k] # 0
    BY <1>0, <2>1 DEF TicksOK
  <2>2. CASE \E c \in Client : Tick(c)
    <3>1. \E c \in Client : client[c].listed
      BY <2>2 DEF Tick, ListedOK
    <3> QED
      BY <1>0, <3>1 DEF SomeListed
  <2>3. CASE \E c \in Client : Send(c, k)
    <3>1. \E c \in Client : sender[c][k] = "send"
      BY <2>3 DEF Send, SetSender
    <3> QED
      BY <1>0, <3>1 DEF TicksOK
  <2> QED
    BY <1>1, <2>1, <2>2, <2>3, CountStep
<1>2. ASSUME NEW c \in Client, NEW k \in Sender
      PROVE  /\ sender'[c][k] # "none" => c \in Created'
             /\ sender'[c][k] = "send" => SomeListed'
  <2>1. CASE \E w \in Worker : New(w)
    <3>1. PICK w \in Worker : New(w)
      BY <2>1
    <3>2. CASE c = Fresh
      <4>1. sender'[c] = [j \in Sender |-> "check"] /\ c \in Created'
        BY <3>1, <3>2, NewAfter
      <4> QED
        BY <4>1
    <3>3. CASE c # Fresh
      <4>1. sender'[c] = sender[c] /\ Created \subseteq Created'
        BY <3>1, <3>3, NewAfter
      <4> QED
        BY <1>0, <4>1 DEF TicksOK
    <3> QED
      BY <3>2, <3>3
  <2>2. CASE ~\E w \in Worker : New(w)
    <3>1. Created' = Created
      BY <2>2, CreatedThen
    <3>2. /\ sender'[c][k] = "send" => sender[c][k] = "send" \/ Look(c, k)
          /\ sender[c][k] = "none" => sender'[c][k] = "none"
      BY <2>2, SenderStep
    <3>3. Look(c, k) => SomeListed
      BY DEF Look, TicksOK
    <3> QED
      BY <1>0, <3>1, <3>2, <3>3 DEF TicksOK
  <2> QED
    BY <2>1, <2>2
<1> QED
  BY <1>1, <1>2 DEF TicksOK

(* A sender fails that goes beyond its client's numbers, and nothing else. *)
LEMMA FaultStep ==
  ASSUME Types, ListOK, [Next]_vars
  PROVE  \/ fault' \in {fault, "timer"}
         \/ \E c \in Client, k \in Sender :
              /\ Send(c, k) /\ fault' = "range"
              /\ ~(client[c].listed /\ client[c].n >= k * Share)
<1>1. ASSUME NEW w \in Worker,
             \/ CloseStart(w) \/ CloseJoin(w) \/ CloseTimer(w) \/ Delete(w)
      PROVE  fault' = fault
  <2>1. PICK from \in Closing : \E to : CloseStep(w, from, to)
    BY <1>1 DEF CloseStart, CloseJoin, CloseTimer, Delete, Closing
  <2>2. wpc[w] \in Closing
    BY <2>1 DEF CloseStep, Go
  <2>3. client[cur[w]].state = "live"
    BY <2>2, AtCurLives
  <2> QED
    BY <2>1, <2>3 DEF CloseStep
<1>2. ASSUME NEW c \in Client, NEW k \in Sender, Send(c, k)
      PROVE  \/ fault' = fault
             \/ /\ fault' = "range"
                /\ ~(client[c].listed /\ client[c].n >= k * Share)
  BY <1>2, Zenon DEF Send
<1>3. ASSUME ~\E w \in Worker : \/ CloseStart(w) \/ CloseJoin(w)
                                \/ CloseTimer(w) \/ Delete(w),
             ~\E c \in Client, k \in Sender : Send(c, k),
             ~\E c \in Client : TickEnds(c)
      PROVE  UNCHANGED fault
  BY <1>3, Zenon
  DEF Next, User, Start, StartThread, Stop, Exit,
      OnSysCommand, CloseWindow, Work, ReadSize, Begin,
      Begun, NewRead, New, InitList, InitRequest, InitTimers, SetClient, Push,
      BeginDrain, Drain, Finish, TimerQueue, Beat, Beaten, Reactor, Tick,
      SendHartPacket, Look, SenderEnds, SetSender, vars
<1>4. ASSUME NEW c \in Client, TickEnds(c) PROVE fault' \in {fault, "timer"}
  BY <1>4 DEF TickEnds
<1> QED
  BY <1>1, <1>2, <1>3, <1>4

(* A client that comes alone is the first, or comes when all senders are   *)
(* told to end.                                                            *)
LEMMA NewAlone ==
  ASSUME Types, Numbered, EndedOK, ~g_flag, ~crowd',
         NEW w \in Worker, New(w)
  PROVE  Fresh = 1 /\ Created' = {1}
<1>1. Live = {}
  BY NewTakes
<1>2. \A c \in Client : client[c].state \in {"none", "deleted"}
  <2>1. \A c \in Client : client[c].state \in {"none", "live", "deleted"}
    BY TypesAre DEF ClientTypes, ClientType
  <2> QED
    BY <1>1, <2>1 DEF Live
<1>3. Created = {}
  BY <1>2 DEF Created, EndedOK
<1>4. Fresh \in Nat \ {0} /\ Created = 1..Fresh - 1
  BY NewAfter DEF Client
<1>5. Fresh = 1
  <2>1. Fresh > 1 => 1 \in Created
    BY <1>4
  <2> QED
    BY <1>3, <1>4, <2>1
<1> QED
  BY <1>5, NewAfter

(* While there is one client at a time, ticks are taken by the first, and  *)
(* each by one sender.                                                     *)
LEMMA FirstOnlyStep ==
  ASSUME Types, ListOK, Numbered, EndedOK, ListedOK, TicksOK, FirstOnly,
         [Next]_vars, ~crowd'
  PROVE  FirstOnly'
<1>0. /\ \A k \in Sender : count[k] \in Int
      /\ g_flag \in BOOLEAN
  <2>1. MaxCount \in Nat
    BY PressTestAssumption
  <2> QED
    BY <2>1, TypesAre DEF GlobalTypes
<1>1. ASSUME ~g_flag' PROVE Created' \subseteq {1}
  <2>1. ~g_flag
    BY <1>1, FlagStays
  <2>2. CASE \E w \in Worker : New(w)
    BY <2>1, <2>2, NewAlone
  <2>3. CASE ~\E w \in Worker : New(w)
    BY <2>1, <2>3, CreatedThen DEF FirstOnly
  <2> QED
    BY <2>2, <2>3
<1>2. ASSUME NEW k \in Sender PROVE count'[k] >= 0
  <2>1. ASSUME NEW c \in Client, Send(c, k) PROVE count[k] > 0
    BY <2>1 DEF Send, SetSender, FirstOnly
  <2> QED
    BY <1>0, <2>1, CountStep DEF FirstOnly
<1>3. ASSUME NEW c \in Client, NEW k \in Sender, sender'[c][k] = "send"
      PROVE  c = 1 /\ client'[c].listed /\ count'[k] > 0
  <2>1. CASE \E w \in Worker : New(w)
    <3>1. PICK w \in Worker : New(w)
      BY <2>1
    <3>2. c # Fresh
      <4>1. sender'[Fresh] = [j \in Sender |-> "check"]
        BY <3>1, NewAfter
      <4> QED
        BY <1>3, <4>1
    <3>3. client'[c] = client[c] /\ sender'[c] = sender[c] /\ count' = count
      BY <3>1, <3>2, NewAfter, NewIs
    <3> QED
      BY <1>3, <3>3 DEF FirstOnly
  <2>2. CASE ~(\E w \in Worker : New(w)) /\ sender[c][k] = "send"
    <3>1. c = 1 /\ client[c].listed /\ count[k] > 0
      BY <2>2 DEF FirstOnly
    <3>2. client'[c].listed
      BY <2>2, <3>1, ClientStep DEF ClientAfter
    <3>3. ASSUME NEW d \in Client, Send(d, k) PROVE FALSE
      <4>1. /\ sender[d][k] = "send"
            /\ sender' = [sender EXCEPT ![d][k] = "check"]
        BY <3>3 DEF Send, SetSender
      <4>2. d = c
        BY <3>1, <4>1 DEF FirstOnly
      <4>3. sender'[c][k] = "check"
        BY <4>1, <4>2, TypesAre DEF ClientTypes
      <4> QED
        BY <1>3, <4>3
    <3> QED
      BY <1>0, <3>1, <3>2, <3>3, CountStep
  <2>3. CASE ~(\E w \in Worker : New(w)) /\ Look(c, k)
    <3>1. /\ ~g_flag /\ count[k] # 0 /\ sender[c][k] = "check"
          /\ count' = count
      BY <2>3 DEF Look, SetSender
    <3>2. PICK d \in Client : client[d].listed
      BY <3>1 DEF TicksOK, SomeListed
    <3>3. c = 1 /\ d = 1
      BY <3>1, <3>2 DEF TicksOK, ListedOK, FirstOnly
    <3>4. client'[c].listed
      BY <2>3, <3>2, <3>3, ClientStep DEF ClientAfter
    <3> QED
      BY <1>0, <3>1, <3>3, <3>4 DEF FirstOnly
  <2> QED
    BY <1>3, <2>1, <2>2, <2>3, SenderStep
<1> QED
  BY <1>1, <1>2, <1>3 DEF FirstOnly

(* ... and a sender fails only when there were too few numbers for all.    *)
LEMMA ExcusedStep ==
  ASSUME Types, ListOK, Numbered, SizesOK, ListedOK, FirstOnly, Excused,
         [Next]_vars
  PROVE  Excused'
<1>1. CASE \E w \in Worker : New(w)
  <2>1. fault = "none" /\ fault' = fault
    BY <1>1, NewIs DEF Go, Running
  <2> QED
    BY <2>1 DEF Excused
<1>2. CASE ~\E w \in Worker : New(w)
  <2>0. \A c \in Client : client'[c].n = client[c].n
    BY <1>2, ClientStep DEF ClientAfter
  <2>1. CASE fault' \in {fault, "timer"}
    BY <2>0, <2>1 DEF Excused
  <2>2. CASE fault' \notin {fault, "timer"}
    <3>1. PICK c \in Client, k \in Sender :
            /\ Send(c, k)
            /\ ~(client[c].listed /\ client[c].n >= k * Share)
      BY <2>2, FaultStep
    <3>2. client[c].listed /\ c \in Created
      BY <3>1 DEF Send, SetSender, FirstOnly, ListedOK
    <3>3. client[c].n \in Nat \ {0}
      <4>1. client[c].n \in Nat
        BY TypesAre DEF ClientTypes, ClientType
      <4> QED
        BY <3>2, <4>1 DEF SizesOK
    <3>4. k * Share <= Senders * Share
      <4>1. k \in Nat /\ Senders \in Nat /\ k <= Senders /\ Share \in Nat
        BY PressTestAssumption DEF Sender
      <4>2. \A s \in Nat : k * s <= Senders * s
        BY <4>1
      <4> QED
        BY <4>1, <4>2
    <3>5. k * Share \in Nat /\ Senders * Share \in Nat
      BY PressTestAssumption DEF Sender
    <3>6. client[c].n \in 1..Senders * Share - 1
      BY <3>1, <3>2, <3>3, <3>4, <3>5
    <3> QED
      BY <2>0, <3>6 DEF Excused
  <2> QED
    BY <2>1, <2>2
<1> QED
  BY <1>1, <1>2

LEMMA AloneStep ==
  ASSUME Types, OneTest, ListOK, Numbered, SizesOK, EndedOK, AloneOK,
         [Next]_vars
  PROVE  AloneOK'
<1>1. /\ ListedOK /\ TicksOK
      /\ ~crowd => FirstOnly /\ Excused
      /\ fault # "deleted"
  BY AloneIs
<1>2. ListedOK' /\ TicksOK'
  BY <1>1, ListedStep, TicksStep
<1>3. ~crowd' => ~crowd
  <2>1. CASE \E w \in Worker : New(w)
    BY <2>1, NewTakes
  <2>2. CASE ~\E w \in Worker : New(w)
    BY <2>2, Zenon
    DEF Next, User, Start, StartThread, Stop, Exit,
        OnSysCommand, CloseWindow, Work, ReadSize, Begin,
        Begun, NewRead, InitList, InitRequest, InitTimers, SetClient, Push,
        BeginDrain, Drain, CloseStart, CloseJoin, CloseTimer, CloseStep,
        Delete, Finish, TimerQueue, Beat, Beaten, Reactor, Tick, TickEnds,
        SendHartPacket, Look, Send, SenderEnds, SetSender, vars, history
  <2> QED
    BY <2>1, <2>2
<1>4. ~crowd' => FirstOnly' /\ Excused'
  BY <1>1, <1>3, FirstOnlyStep, ExcusedStep
<1>5. fault' # "deleted"
  BY <1>1, FaultStep
<1> QED
  BY <1>2, <1>4, <1>5, AloneIsThen

-----------------------------------------------------------------------------
(* Memory and serial numbers.                                              *)

(* The parts of SharesOK.                                                  *)
PoolOK ==
  /\ Pool(blocks)
  /\ \A w \in Worker : wpc[w] = "alloc" => found[w] = blocks
UnitsOK ==
  \A c \in Created :
    /\ Given(client[c].unit, blocks)
    /\ \A d \in Created : c # d => client[c].unit # client[d].unit
Before(c, d) == client[c].first + client[c].n <= client[d].first
RangesOK ==
  \A c \in Live :
    /\ client[c].first + client[c].n <= g_sn
    /\ \A d \in Live : c # d => Before(c, d) \/ Before(d, c)
LEMMA SharesAre == SharesOK <=> PoolOK /\ UnitsOK /\ RangesOK
BY Zenon DEF SharesOK, PoolOK, UnitsOK, RangesOK, Before
LEMMA SharesAreThen == SharesOK' <=> PoolOK' /\ UnitsOK' /\ RangesOK'
BY Zenon DEF SharesOK, PoolOK, UnitsOK, RangesOK, Before

(* Without a worker no client lives.                                       *)
LEMMA NoneLive ==
  ASSUME ListOK, \A w \in Worker : Ended(w)
  PROVE  Live = {} /\ m_clientlist = <<>>
<1>1. m_clientlist = <<>>
  BY DEF ListOK
<1>2. \A c : ~InList(c)
  BY <1>1 DEF InList
<1>3. \A c : ~AtHand(c)
  BY DEF AtHand, Ended, Creating
<1>4. \A c \in Client : client[c].state # "live"
  BY <1>2, <1>3 DEF ListOK
<1> QED
  BY <1>1, <1>4 DEF Live

(* A worker comes to Alloc with the pool as it is.                         *)
LEMMA AllocStays ==
  ASSUME Types, [Next]_vars, NEW w \in Worker, wpc'[w] = "alloc"
  PROVE  wpc[w] = "alloc" \/ NewRead(w)
<1>0. WorkerTypes /\ DialogTypes
  BY TypesAre
<1>1. ASSUME NEW v \in Worker, NEW from, NEW to, Go(v, from, to),
             to # "alloc"
      PROVE  wpc[w] = "alloc"
  BY <1>0, <1>1 DEF Go, WorkerTypes
<1>2. ASSUME NEW v \in Worker, Work(v), ~NewRead(w)
      PROVE  wpc[w] = "alloc"
  <2>1. CASE NewRead(v)
    BY <1>0, <1>2, <2>1 DEF NewRead, Go, WorkerTypes
  <2>2. CASE New(v)
    BY <1>1, <2>2, NewIs
  <2>3. CASE InitRequest(v)
    BY <1>1, <2>3 DEF InitRequest
  <2>4. CASE Finish(v)
    BY <1>1, <2>4 DEF Finish
  <2>5. CASE \/ ReadSize(v) \/ Begin(v) \/ Begun(v) \/ InitList(v)
             \/ InitTimers(v) \/ Push(v) \/ BeginDrain(v) \/ Drain(v)
             \/ CloseStart(v) \/ CloseJoin(v) \/ CloseTimer(v) \/ Delete(v)
    <3>1. \E from : \E to \in {"loop", "batch", "request", "push", "drain",
                               "close", "join", "timer", "free"} :
            Go(v, from, to)
      BY <2>5
      DEF ReadSize, Begin, Begun, InitList, InitTimers, Push, BeginDrain,
          Drain, CloseStart, CloseJoin, CloseTimer, Delete, CloseStep
    <3> QED
      BY <1>1, <3>1
  <2> QED
    BY <1>2, <2>1, <2>2, <2>3, <2>4, <2>5 DEF Work
<1>3. CASE StartThread
  BY <1>0, <1>3 DEF StartThread, WorkerTypes
<1>4. CASE Start \/ Stop \/ Exit \/ OnSysCommand \/ Elsewhere
  BY <1>4, ElsewhereKeeps DEF Start, Stop, Exit,
                              OnSysCommand, CloseWindow, worker
<1> QED
  BY <1>2, <1>3, <1>4 DEF Next, User, Work, Elsewhere

(* What New alone changes.                                                 *)
LEMMA SharesKept ==
  ASSUME Types, [Next]_vars, ~\E w \in Worker : New(w)
  PROVE  /\ blocks' = blocks
         /\ g_sn' = g_sn \/ Start
         /\ \A w \in Worker : found'[w] = found[w] \/ NewRead(w)
<1>1. blocks' = blocks
  <2>1. ASSUME NEW w \in Worker, Delete(w) PROVE blocks' = blocks
    BY <2>1, Zenon DEF Delete, FreeAlloc, Hash
  <2> QED
    BY <2>1, Zenon
    DEF Next, User, Start, StartThread, Stop, Exit,
        OnSysCommand, CloseWindow, Work, ReadSize, Begin,
        Begun, NewRead, InitList, InitRequest, InitTimers, SetClient, Push,
        BeginDrain, Drain, CloseStart, CloseJoin, CloseTimer, Finish,
        TimerQueue, Beat, Beaten, Reactor, Tick, TickEnds, SendHartPacket,
        Look, Send, SenderEnds, SetSender, vars, globals
<1>2. g_sn' = g_sn \/ Start
  BY Zenon
  DEF Next, User, StartThread, Stop, Exit,
      OnSysCommand, CloseWindow, Work, ReadSize, Begin,
      Begun, NewRead, InitList, InitRequest, InitTimers, SetClient, Push,
      BeginDrain, Drain, CloseStart, CloseJoin, CloseTimer, CloseStep, Delete,
      Finish, TimerQueue, Beat, Beaten, Reactor, Tick, TickEnds,
      SendHartPacket, Look, Send, SenderEnds, SetSender, vars, dialog
<1>3. (~\E v \in Worker : NewRead(v)) => UNCHANGED found
  BY Zenon
  DEF Next, User, Start, StartThread, Stop, Exit,
      OnSysCommand, CloseWindow, Work, ReadSize, Begin,
      Begun, InitList, InitRequest, InitTimers, SetClient, Push,
      BeginDrain, Drain, CloseStart, CloseJoin, CloseTimer, CloseStep, Delete,
      Finish, TimerQueue, Beat, Beaten, Reactor, Tick, TickEnds,
      SendHartPacket, Look, Send, SenderEnds, SetSender, vars, worker
<1>4. ASSUME NEW v \in Worker, NewRead(v), NEW w \in Worker, w # v
      PROVE  found'[w] = found[w]
  <2>1. found' = [found EXCEPT ![v] = blocks]
    BY <1>4, Zenon DEF NewRead
  <2>2. w \in DOMAIN found
    BY TypesAre DEF WorkerTypes
  <2> QED
    BY <1>4, <2>1, <2>2, Zenon
<1> QED
  BY <1>1, <1>2, <1>3, <1>4, Zenon

LEMMA PoolStep ==
  ASSUME Types, OneTest, PoolOK, [Next]_vars
  PROVE  PoolOK'
<1>0. WorkerTypes /\ GlobalTypes
  BY TypesAre
<1>1. ASSUME NEW w \in Worker, New(w) PROVE PoolOK'
  <2>1. wpc[w] = "alloc" /\ wpc'[w] \in {"init", "spin"} /\ Work(w)
    BY <1>0, <1>1, NewIs, GoTypes DEF Work
  <2>2. blocks' = Alloc(blocks).blocks
    BY <1>1, <2>1, NewTakes DEF PoolOK
  <2>3. Pool(blocks')
    BY <1>0, <2>2, AllocOf DEF PoolOK, GlobalTypes
  <2>4. \A v \in Worker : wpc'[v] # "alloc"
    BY <2>1, OthersStay DEF Ended
  <2> QED
    BY <2>3, <2>4 DEF PoolOK
<1>2. CASE ~\E w \in Worker : New(w)
  <2>1. blocks' = blocks
    BY <1>2, SharesKept
  <2>2. ASSUME NEW w \in Worker, wpc'[w] = "alloc"
        PROVE  found'[w] = blocks
    <3>1. CASE NewRead(w)
      <4>1. found' = [found EXCEPT ![w] = blocks]
        BY <3>1, Zenon DEF NewRead
      <4>2. w \in DOMAIN found
        BY <1>0 DEF WorkerTypes
      <4> QED
        BY <4>1, <4>2, Zenon
    <3>2. CASE ~NewRead(w)
      <4>1. wpc[w] = "alloc"
        BY <2>2, <3>2, AllocStays
      <4>2. found'[w] = found[w]
        BY <1>2, <3>2, SharesKept
      <4> QED
        BY <4>1, <4>2 DEF PoolOK
    <3> QED
      BY <3>1, <3>2
  <2> QED
    BY <2>1, <2>2, Zenon DEF PoolOK
<1> QED
  BY <1>1, <1>2

LEMMA UnitsStep ==
  ASSUME Types, ListOK, Numbered, PoolOK, UnitsOK, [Next]_vars
  PROVE  UnitsOK'
<1>0. GlobalTypes
  BY TypesAre
<1>1. ASSUME NEW w \in Worker, New(w) PROVE UnitsOK'
  <2> DEFINE u == Alloc(blocks).unit
             B == Alloc(blocks).blocks
  <2>1. wpc[w] = "alloc"
    BY <1>1, NewIs DEF Go
  <2>2. found[w] = blocks
    BY <2>1 DEF PoolOK
  <2>3. /\ Fresh \in Client /\ Fresh \notin Created
        /\ Created' = Created \cup {Fresh}
        /\ client'[Fresh].unit = u /\ blocks' = B
        /\ \A d \in Client : d # Fresh => client'[d] = client[d]
    BY <1>1, <2>2, NewAfter, NewTakes
  <2>4. /\ ~Given(u, blocks) /\ Given(u, B)
        /\ \A v : Given(v, blocks) => Given(v, B)
    BY <1>0, AllocOf DEF PoolOK, GlobalTypes
  <2> HIDE DEF u, B
  <2>5. \A c \in Created :
          /\ client'[c].unit = client[c].unit
          /\ Given(client[c].unit, blocks)
          /\ Given(client'[c].unit, B)
          /\ client[c].unit # u
          /\ \A d \in Created : c # d => client[c].unit # client[d].unit
    <3>1. SUFFICES ASSUME NEW c \in Created
                   PROVE  /\ client'[c].unit = client[c].unit
                          /\ Given(client[c].unit, blocks)
                          /\ \A d \in Created :
                               c # d => client[c].unit # client[d].unit
      BY <2>4
    <3>2. client'[c] = client[c]
      BY <2>3 DEF Created
    <3> QED
      BY <3>2 DEF UnitsOK
  <2>6. ASSUME NEW c \in Created' PROVE Given(client'[c].unit, B)
    BY <2>3, <2>4, <2>5
  <2>7. ASSUME NEW c \in Created', NEW d \in Created', c # d
        PROVE  client'[c].unit # client'[d].unit
    BY <2>3, <2>5, <2>7
  <2> QED
    BY <2>3, <2>6, <2>7 DEF UnitsOK, Given
<1>2. CASE ~\E w \in Worker : New(w)
  <2>1. blocks' = blocks
    BY <1>2, SharesKept
  <2>2. Created' = Created /\ Created \subseteq Client
    BY <1>2, CreatedThen DEF Created
  <2>3. \A c \in Client : client'[c].unit = client[c].unit
    BY <1>2, ClientStep DEF ClientAfter
  <2> QED
    BY <2>1, <2>2, <2>3 DEF UnitsOK, Given
<1> QED
  BY <1>1, <1>2

LEMMA RangesStep ==
  ASSUME Patient, Types, ListOK, Numbered, RangesOK, [Next]_vars
  PROVE  RangesOK'
<1>0. g_sn \in Nat /\ \A c \in Client : client[c].first \in Nat /\ client[c].n \in Nat
  BY TypesAre DEF DialogTypes, ClientTypes, ClientType
<1>1. ASSUME NEW w \in Worker, New(w) PROVE RangesOK'
  <2>1. PICK m : m = Mantissa(size[w], BatchSize(w))
    OBVIOUS
  <2>2. m \in Int
    <3>1. size[w] \in Int
      BY TypesAre DEF WorkerTypes
    <3> QED
      BY <2>1, <3>1, BatchOf DEF Mantissa
  <2>3. /\ Fresh \in Client /\ Fresh \notin Created
        /\ client'[Fresh].state = "live" /\ client'[Fresh].first = g_sn
        /\ client'[Fresh].n = IF m > 0 THEN m ELSE 0
        /\ \A d \in Client : d # Fresh => client'[d] = client[d]
    BY <1>1, <2>1, NewAfter
  <2>4. g_sn' = IF m > 0 THEN g_sn + m ELSE g_sn
    BY <1>1, <2>1, NewIs
  <2>5. client'[Fresh].first + client'[Fresh].n = g_sn' /\ g_sn <= g_sn'
    BY <1>0, <2>2, <2>3, <2>4
  <2>6. \A d \in Live' : d = Fresh \/ (d \in Live /\ client'[d] = client[d])
    BY <2>3 DEF Live
  <2>7. \A d \in Live : client[d].first + client[d].n <= g_sn
    BY DEF RangesOK
  <2>8. ASSUME NEW c \in Live'
        PROVE  client'[c].first + client'[c].n <= g_sn'
    <3>1. CASE c = Fresh
      BY <1>0, <2>2, <2>4, <2>5, <3>1
    <3>2. CASE c \in Live /\ client'[c] = client[c]
      <4>1. client[c].first \in Nat /\ client[c].n \in Nat
        BY <1>0, <3>2 DEF Live
      <4>2. client[c].first + client[c].n <= g_sn
        BY <2>7, <3>2
      <4> QED
        BY <1>0, <2>2, <2>4, <3>2, <4>1, <4>2
    <3> QED
      BY <2>6, <3>1, <3>2
  <2>9. ASSUME NEW c \in Live', NEW d \in Live', c # d
        PROVE  Before(c, d)' \/ Before(d, c)'
    <3>1. CASE c \in Live /\ client'[c] = client[c] /\ d = Fresh
      BY <2>3, <2>7, <3>1 DEF Before
    <3>2. CASE d \in Live /\ client'[d] = client[d] /\ c = Fresh
      BY <2>3, <2>7, <3>2 DEF Before
    <3>3. CASE /\ c \in Live /\ client'[c] = client[c]
               /\ d \in Live /\ client'[d] = client[d]
      BY <2>9, <3>3, Zenon DEF RangesOK, Before
    <3> QED
      BY <2>6, <2>9, <3>1, <3>2, <3>3
  <2> QED
    BY <2>8, <2>9, Zenon DEF RangesOK
<1>2. CASE (~\E w \in Worker : New(w)) /\ g_sn' = g_sn
  <2>1. ASSUME NEW c \in Client
        PROVE  /\ client'[c].first = client[c].first
               /\ client'[c].n = client[c].n
               /\ client'[c].state = "live" => client[c].state = "live"
    BY <1>2, <2>1, ClientStep DEF ClientAfter
  <2>2. Live' \subseteq Live /\ Live \subseteq Client
    BY <2>1 DEF Live
  <2> QED
    BY <1>2, <2>1, <2>2 DEF RangesOK, Before
<1>3. CASE Start
  <2>1. Live = {} /\ UNCHANGED client
    BY <1>3, NoneLive DEF Start, clients
  <2>2. Live' = {}
    BY <2>1 DEF Live
  <2> QED
    BY <2>2 DEF RangesOK
<1> QED
  BY <1>1, <1>2, <1>3, SharesKept

-----------------------------------------------------------------------------
(* The invariant.                                                          *)

LEMMA InitInv == Init => Inv
<1> SUFFICES ASSUME Init PROVE Inv
  OBVIOUS
<1>0. /\ MaxStarts \in Nat /\ MaxClients \in Nat /\ MaxCount \in Nat
      /\ Sizes \subseteq Nat
  BY PressTestAssumption
<1>1. \A w \in Worker : wpc[w] = "none"
  BY DEF Init
<1>2. \A c \in Client :
        /\ client[c].state = "none" /\ ~client[c].listed
        /\ ~client[c].scheduled
  BY DEF Init
<1>3. Created = {} /\ Live = {}
  BY <1>2 DEF Created, Live
<1>4. \A c \in Client, k \in Sender : sender[c][k] = "none"
  BY DEF Init
<1>5. m_clientlist = <<>> /\ blocks = <<>> /\ count = [k \in Sender |-> 0]
  BY DEF Init
<1>6. Types
  <2>1. DialogTypes
    <3>1. info \in [size : Sizes \cup {0, -1}, exam : BOOLEAN]
      BY DEF Init
    <3>2. g_sn \in Nat /\ starts \in 0..MaxStarts
      BY <1>0 DEF Init
    <3> QED
      BY <3>1, <3>2, Zenon DEF Init, DialogTypes
  <2>2. WorkerTypes
    BY DEF Init, WorkerTypes, Places
  <2>3. client \in [Client -> ClientType]
    BY DEF Init, ClientType
  <2>4. ClientTypes
    BY <2>3 DEF Init, ClientTypes
  <2>5. GlobalTypes
    <3>1. count \in [Sender -> -MaxCount..MaxCount]
      BY <1>0, <1>5
    <3>2. blocks \in Seq(Block)
      BY <1>5
    <3> QED
      BY <3>1, <3>2, Zenon DEF Init, GlobalTypes
  <2> QED
    BY <2>1, <2>2, <2>4, <2>5, TypesAre
<1>7. OneTest
  BY <1>1 DEF Init, OneTest, Ended, Draining, Closing
<1>8. SizesOK
  BY <1>1, <1>3 DEF Init, SizesOK, Ended, Creating
<1>9. Numbered
  <2>1. 0 \in 0..MaxClients /\ 1..0 = {}
    BY <1>0
  <2> QED
    BY <1>3, <2>1, Zenon DEF Numbered
<1>10. ListOK
  BY <1>1, <1>2, <1>5
  DEF ListOK, InList, AtHand, Ended, Creating, Closing
<1>11. EndedOK
  BY <1>1, <1>2 DEF EndedOK
<1>14. CancelledOK
  BY <1>2 DEF CancelledOK
<1>12. AloneOK
  <2>1. \A k \in Sender : count[k] = 0
    BY <1>5
  <2> QED
    BY <1>1, <1>2, <1>3, <1>4, <2>1 DEF Init, AloneOK
<1>13. SharesOK
  BY <1>1, <1>3, <1>5 DEF SharesOK, Pool
<1> QED
  BY <1>6, <1>7, <1>8, <1>9, <1>10, <1>11, <1>12, <1>13, <1>14
  DEF Inv

LEMMA InvStep ==
  ASSUME Patient, Inv, [Next]_vars
  PROVE  Inv'
<1>1. /\ Types /\ OneTest /\ SizesOK /\ Numbered /\ ListOK
      /\ EndedOK /\ CancelledOK /\ AloneOK /\ SharesOK
  BY DEF Inv
<1>2. PoolOK /\ UnitsOK /\ RangesOK
  BY <1>1, SharesAre
<1>3. Types' /\ OneTest' /\ SizesOK' /\ Numbered' /\ ListOK'
  BY <1>1, TypesStep, OneTestStep, SizesStep, NumberedStep, ListStep
<1>4. EndedOK' /\ CancelledOK' /\ AloneOK'
  BY <1>1, EndedStep, CancelledStep, AloneStep
<1>5. PoolOK' /\ UnitsOK' /\ RangesOK'
  BY <1>1, <1>2, PoolStep, UnitsStep, RangesStep
<1>6. SharesOK'
  BY <1>5, SharesAreThen
<1> QED
  BY <1>3, <1>4, <1>6 DEF Inv

LEMMA InvHolds == ASSUME Patient PROVE Spec => []Inv
<1>1. Init => Inv
  BY InitInv
<1>2. Inv /\ [Next]_vars => Inv'
  BY InvStep
<1> QED
  BY <1>1, <1>2, PTL DEF Spec

-----------------------------------------------------------------------------
(* The theorems.  They are about a user who waits for a test to end: one   *)
(* who does not may have two workers on one list and one pool.             *)

(* Everything stays what it is declared to be: what workers, clients, the  *)
(* pool and the dialog hand to each other fits (CMy80PressTestDlg,         *)
(* ThreadWorker, CUdpClient).                                              *)
THEOREM PressTypes == ASSUME Patient PROVE Spec => []TypeOK
<1>1. Inv => TypeOK
  BY DEF Inv, Types
<1> QED
  BY <1>1, InvHolds, PTL

(* No loop is endless: the -1 that the end of a test leaves in the size is *)
(* replaced before the next worker reads it, in whichever mode, so neither *)
(* the numbers of a client nor the rows are counted from a negative size   *)
(* (GetInfo, ThreadWorker).                                                *)
NoEndlessLoop ==
  \A w \in Worker :
    /\ wpc[w] # "spin"
    /\ wpc[w] = "alloc" => size[w] > 0
    /\ ~Ended(w) => info.size > 0
THEOREM LoopsEnd == ASSUME Patient PROVE Spec => []NoEndlessLoop
<1>1. ASSUME Inv, NEW w \in Worker, wpc[w] = "alloc" PROVE size[w] > 0
  <2>1. batches[w] \in Nat /\ size[w] > batches[w] * BatchSize(w)
    BY <1>1 DEF Inv, SizesOK
  <2>2. size[w] \in Int /\ BatchSize(w) \in Nat
    BY <1>1, TypesAre, BatchOf DEF Inv, WorkerTypes
  <2>3. \A m, n \in Nat : m * n >= 0
    OBVIOUS
  <2>4. batches[w] * BatchSize(w) \in Nat
    BY <2>1, <2>2, <2>3
  <2> QED
    BY <2>1, <2>2, <2>4
<1>2. Inv => NoEndlessLoop
  BY <1>1 DEF Inv, OneTest, SizesOK, NoEndlessLoop
<1> QED
  BY <1>2, InvHolds, PTL

(* A client is deleted when its senders and its heartbeat have ended, and  *)
(* with its exam timer if it knows its reactor; none is left when the exit *)
(* button closes the window (Close, remove_timer_handler, ThreadWorker,    *)
(* OnBnClickedExit).                                                       *)
THEOREM ClientsEndCleanly == ASSUME Patient PROVE Spec => []EndsCleanly
<1>1. Inv => EndsCleanly
  <2> SUFFICES ASSUME Inv PROVE EndsCleanly
    OBVIOUS
  <2>1. ASSUME NEW c \in Client, client[c].state = "deleted"
        PROVE  /\ ~client[c].timer /\ ~client[c].beating
               /\ client[c].scheduled => c \notin Knowing
               /\ \A k \in Sender : sender[c][k] = "end"
    BY <2>1 DEF Inv, EndedOK, CancelledOK, SendersEnded, TimersEnded
  <2>2. ASSUME user = "exit"
        PROVE  Live = {} /\ m_clientlist = <<>> /\ \A w \in Worker : Ended(w)
    <3>1. \A w \in Worker : Ended(w)
      BY <2>2 DEF Inv, OneTest
    <3>2. ListOK
      BY DEF Inv
    <3> QED
      BY <3>1, <3>2, NoneLive
  <2> QED
    BY <2>1, <2>2 DEF EndsCleanly
<1> QED
  BY <1>1, InvHolds, PTL

(* While there is one client at a time no count falls below 0 and no       *)
(* serial number is read that is not there, if there are enough of them;   *)
(* two clients never share memory or serial numbers (SendHartPacket,       *)
(* operator new, ThreadWorker).                                            *)
THEOREM ClientAloneIsSafe == ASSUME Patient PROVE Spec => []AloneIsSafe
<1>1. Inv => AloneIsSafe
  <2> SUFFICES ASSUME Inv PROVE AloneIsSafe
    OBVIOUS
  <2>1. ~crowd => FirstOnly /\ Excused
    BY AloneIs DEF Inv
  <2>2. ASSUME NEW c \in Live, NEW d \in Live, c # d
        PROVE  /\ client[c].unit # client[d].unit
               /\ \/ client[c].first + client[c].n <= client[d].first
                  \/ client[d].first + client[d].n <= client[c].first
    <3>1. UnitsOK /\ RangesOK
      BY SharesAre DEF Inv
    <3>2. c \in Created /\ d \in Created
      BY <2>2 DEF Live, Created
    <3> QED
      BY <2>2, <3>1, <3>2, Zenon DEF UnitsOK, RangesOK, Before
  <2>3. fault # "deleted"
    BY AloneIs DEF Inv
  <2> QED
    BY <2>1, <2>2, <2>3 DEF AloneIsSafe, FirstOnly, Excused
<1> QED
  BY <1>1, InvHolds, PTL

(* Close never touches a client that has been deleted, and the pool does   *)
(* not give out a unit twice, not even that of a deleted client (Close,    *)
(* Alloc, FreeAlloc).                                                      *)
NoneTouched ==
  /\ fault # "deleted"
  /\ \A c, d \in Created : c # d => client[c].unit # client[d].unit
THEOREM NoDeletedClientIsUsed == ASSUME Patient PROVE Spec => []NoneTouched
<1>1. Inv => NoneTouched
  BY DEF Inv, AloneOK, SharesOK, NoneTouched
<1> QED
  BY <1>1, InvHolds, PTL

(* A client that is deleted is so for good: no sender and no heartbeat of  *)
(* it comes back, and its place is not taken (Close, CUdpClient,           *)
(* InitTimers).                                                            *)
Gone(c) ==
  client[c].state = "deleted" /\ SendersEnded(c) /\ TimersEnded(c)
StaysGone == \A c \in Client : Gone(c) => Gone(c)'
THEOREM DeletedForGood == ASSUME Patient PROVE Spec => [][StaysGone]_vars
<1>1. Inv /\ Inv' /\ [Next]_vars => StaysGone
  <2> SUFFICES ASSUME Inv, Inv', [Next]_vars,
                      NEW c \in Client, Gone(c)
               PROVE  Gone(c)'
    BY DEF StaysGone
  <2>1. client'[c].state = "deleted"
    <3>1. /\ Types /\ ListOK /\ Numbered
          /\ c \in Created /\ client[c].state = "deleted"
      BY DEF Inv, Gone, Created
    <3>2. CASE \E w \in Worker : New(w)
      <4>1. c # Fresh /\ client'[c] = client[c]
        BY <3>1, <3>2, NewAfter
      <4> QED
        BY <3>1, <4>1
    <3>3. CASE ~\E w \in Worker : New(w)
      BY <3>1, <3>3, ClientStep DEF ClientAfter
    <3> QED
      BY <3>2, <3>3
  <2> QED
    BY <2>1 DEF Inv, EndedOK, Gone
<1> QED
  BY <1>1, InvHolds, PTL DEF Spec
=============================================================================
