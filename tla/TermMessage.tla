------------------------------ MODULE TermMessage ----------------------------
(* A terminal message on its way from one peer to another: makePackages     *)
(* cuts the body into packages, the datagrams may be lost, repeated or      *)
(* reordered, and the threads of the receiver put them together in one      *)
(* message object with initFromTermPackage (termMessageImp.cpp,             *)
(* termPackageImp.cpp).                                                     *)
(*                                                                          *)
(* A package stands for a datagram that verify() accepts: with the CRC over *)
(* all of it, a damaged one is dropped like a lost one.  The serial number  *)
(* and the message id are the same in all packages of a message and are     *)
(* left out.                                                                *)
EXTENDS Integers, Sequences

CONSTANTS Threads,              \* receiver threads
          Headers,              \* topics and commands
          Bodies,               \* bodies a message may have
          STARTP_BODY_MAX_SIZE  \* bytes of body in a package

Octet == 0..255
ASSUME SizeAssumption == STARTP_BODY_MAX_SIZE \in Nat \ {0}
ASSUME BodiesAssumption == Bodies \subseteq Seq(Octet)
ASSUME ThreadsAssumption == Threads \subseteq Nat

None == -1     \* no thread, no package
Hole == -1     \* a byte of new[] nothing was copied to

VARIABLES
  header,       \* topic, command and acknowledgement, in every package
  body,         \* the sender's message data
  allocated,    \* m_msgData # NULL at the receiver
  m_msgData,    \* the receiver's message data
  m_sliceMap,   \* indexes of the slices still missing
  mutex,        \* the thread in m_sliceMapMutex
  pc,           \* where a thread is in initFromTermPackage
  pkg,          \* the index of the package it is at
  rc,           \* the code it returned
  arrived,      \* indexes of the packages some thread has taken
  message       \* what a thread got from getJsonMsg: the data, with its rc

vars == <<header, body, allocated, m_msgData, m_sliceMap, mutex, pc, pkg, rc,
          arrived, message>>

-----------------------------------------------------------------------------
(* makePackages: the number of packages, and of package i the offset and    *)
(* the end of its part of the body.  An empty body still takes one.         *)
SliceCount(b) ==
  IF b = <<>> THEN 1 ELSE ((Len(b) - 1) \div STARTP_BODY_MAX_SIZE) + 1
Slices(b) == 0..(SliceCount(b) - 1)
SliceOffset(i) == i * STARTP_BODY_MAX_SIZE

SliceEnd(b, i) ==
  IF Len(b) - SliceOffset(i) > STARTP_BODY_MAX_SIZE
  THEN SliceOffset(i) + STARTP_BODY_MAX_SIZE ELSE Len(b)

(* termPackageImp::isSlicePkg                                               *)
IsSlicePkg(b) == SliceCount(b) > 1

-----------------------------------------------------------------------------
NoMessage == [rc |-> None, data |-> <<>>]

Init ==
  /\ header \in Headers
  /\ body \in Bodies
  /\ allocated = FALSE
  /\ m_msgData = <<>>
  /\ m_sliceMap = {}
  /\ mutex = None
  /\ pc = [t \in Threads |-> "idle"]
  /\ pkg = [t \in Threads |-> None]
  /\ rc = [t \in Threads |-> 0]
  /\ arrived = {}
  /\ message = [t \in Threads |-> NoMessage]

(* isComplete takes no lock.                                                *)
isComplete == allocated /\ m_sliceMap = {}

At(t, label) == pc[t] = label
GoTo(t, label) == pc' = [pc EXCEPT ![t] = label]

(* A datagram reaches a thread: any package, in any order, any number of    *)
(* times, or never.                                                         *)
Receive(t, i) ==
  /\ At(t, "idle")
  /\ GoTo(t, "enter")
  /\ pkg' = [pkg EXCEPT ![t] = i]
  /\ arrived' = arrived \cup {i}
  /\ UNCHANGED <<header, body, allocated, m_msgData, m_sliceMap, mutex, rc,
                 message>>

(* initFromTermPackage, from the lock_guard on.                             *)
Lock_NoMutex(t) ==
  /\ At(t, "enter")
  /\ mutex' = t
  /\ GoTo(t, IF allocated THEN "find" ELSE "allocate")
  /\ UNCHANGED <<header, body, allocated, m_msgData, m_sliceMap, pkg, rc,
                 arrived, message>>

Lock(t) ==
  /\ At(t, "enter")
  /\ mutex = None
  /\ mutex' = t
  /\ GoTo(t, IF allocated THEN "find" ELSE "allocate")
  /\ UNCHANGED <<header, body, allocated, m_msgData, m_sliceMap, pkg, rc,
                 arrived, message>>

Allocate(t) ==
  /\ At(t, "allocate")
  /\ allocated' = TRUE
  /\ m_msgData' = [o \in 1..Len(body) |-> Hole]
  /\ GoTo(t, IF IsSlicePkg(body) THEN "fill" ELSE "find")
  /\ UNCHANGED <<header, body, m_sliceMap, mutex, pkg, rc, arrived, message>>

FillSliceMap(t) ==
  /\ At(t, "fill")
  /\ m_sliceMap' = Slices(body)
  /\ GoTo(t, "find")
  /\ UNCHANGED <<header, body, allocated, m_msgData, mutex, pkg, rc, arrived,
                 message>>

(* The package is not sliced, or its slice is missing and is erased from    *)
(* the map before its bytes are copied.                                     *)
FindSlice(t) ==
  /\ At(t, "find")
  /\ ~IsSlicePkg(body) \/ pkg[t] \in m_sliceMap
  /\ m_sliceMap' = m_sliceMap \ {pkg[t]}
  /\ GoTo(t, "copy")
  /\ UNCHANGED <<header, body, allocated, m_msgData, mutex, pkg, rc, arrived,
                 message>>

Return(t) ==
  /\ rc' = [rc EXCEPT ![t] = IF isComplete THEN 1 ELSE 0]
  /\ mutex' = None
  /\ GoTo(t, "returned")
  /\ UNCHANGED <<header, body, allocated, m_msgData, m_sliceMap, pkg,
                 arrived, message>>

RepeatedSlice_NoUnlock(t) ==
  /\ At(t, "find")
  /\ IsSlicePkg(body) /\ pkg[t] \notin m_sliceMap
  /\ rc' = [rc EXCEPT ![t] = IF isComplete THEN 1 ELSE 0]
  /\ GoTo(t, "returned")
  /\ UNCHANGED <<header, body, allocated, m_msgData, m_sliceMap, mutex, pkg,
                 arrived, message>>

RepeatedSlice(t) ==
  /\ At(t, "find")
  /\ IsSlicePkg(body) /\ pkg[t] \notin m_sliceMap
  /\ Return(t)

CopyBody_AtStart(t) ==
  /\ At(t, "copy")
  /\ m_msgData' = [o \in 1..Len(body) |->
       IF o <= SliceEnd(body, pkg[t]) - SliceOffset(pkg[t])
       THEN body[SliceOffset(pkg[t]) + o] ELSE m_msgData[o]]
  /\ GoTo(t, "leave")
  /\ UNCHANGED <<header, body, allocated, m_sliceMap, mutex, pkg, rc, arrived,
                 message>>

CopyBody(t) ==
  /\ At(t, "copy")
  /\ m_msgData' = [o \in 1..Len(body) |->
       IF o \in SliceOffset(pkg[t]) + 1 .. SliceEnd(body, pkg[t])
       THEN body[o] ELSE m_msgData[o]]
  /\ GoTo(t, "leave")
  /\ UNCHANGED <<header, body, allocated, m_sliceMap, mutex, pkg, rc,
                 arrived, message>>

Leave(t) ==
  /\ At(t, "leave")
  /\ Return(t)

(* The caller, with the object: when isComplete() it calls getJsonMsg,      *)
(* otherwise it waits for the next package.                                 *)
TakeMessage(t) ==
  /\ At(t, "returned")
  /\ isComplete
  /\ message' = [message EXCEPT ![t] = [rc |-> rc[t], data |-> m_msgData]]
  /\ GoTo(t, "idle")
  /\ UNCHANGED <<header, body, allocated, m_msgData, m_sliceMap, mutex, pkg,
                 rc, arrived>>

AwaitMore(t) ==
  /\ At(t, "returned")
  /\ ~isComplete
  /\ GoTo(t, "idle")
  /\ UNCHANGED <<header, body, allocated, m_msgData, m_sliceMap, mutex, pkg,
                 rc, arrived, message>>

Step(t) ==
  \/ Allocate(t) \/ FillSliceMap(t) \/ FindSlice(t) \/ RepeatedSlice(t)
  \/ CopyBody(t) \/ Leave(t) \/ TakeMessage(t) \/ AwaitMore(t)

Next == \E t \in Threads :
          \/ \E i \in Slices(body) : Receive(t, i)
          \/ Lock(t)
          \/ Step(t)

(* A thread goes on with its call, and one that keeps asking for the mutex  *)
(* gets it; that a datagram arrives is never assumed.                       *)
Fairness == \A t \in Threads : WF_vars(Step(t)) /\ SF_vars(Lock(t))

Spec == Init /\ [][Next]_vars
FairSpec == Spec /\ Fairness
-----------------------------------------------------------------------------
Critical == {"allocate", "fill", "find", "copy", "leave"}

TypeOK ==
  /\ header \in Headers
  /\ body \in Bodies
  /\ allocated \in BOOLEAN
  /\ m_msgData \in Seq(Octet \cup {Hole})
  /\ m_sliceMap \subseteq Slices(body)
  /\ mutex \in Threads \cup {None}
  /\ pc \in [Threads -> {"idle", "enter", "returned"} \cup Critical]
  /\ pkg \in [Threads -> Slices(body) \cup {None}]
  /\ rc \in [Threads -> {0, 1}]
  /\ arrived \subseteq Slices(body)
  /\ message \in [Threads -> [rc : {None, 0, 1},
                             data : Seq(Octet \cup {Hole})]]

(* A thread whose initFromTermPackage returned 1 reads the body as it was   *)
(* sent, whatever the order and the number of the datagrams and whatever    *)
(* the other threads do (termMessageImp.cpp:95 promises several threads).   *)
OneMeansWhole == \A t \in Threads : message[t].rc = 1 => message[t].data = body

(* From the first call that returns 1 on, the data are those that were      *)
(* sent, and no later package changes them (Transfer).                      *)
Received == {m_msgData : t \in {u \in Threads : rc[u] = 1}}
Abstract == INSTANCE Transfer WITH sent <- body, received <- Received
ImplementsTransfer == Abstract!Spec

(* When every package has reached some thread, some call returns 1: no      *)
(* slice is forgotten because another thread, or a repeated package, was in *)
(* between, and no thread keeps the mutex.                                  *)
AllArrivedCompletes ==
  (arrived = Slices(body)) ~> (\E t \in Threads : rc[t] = 1)
=============================================================================
