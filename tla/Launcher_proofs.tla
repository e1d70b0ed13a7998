-------------------------- MODULE Launcher_proofs --------------------------
(***************************************************************************)
(* Theorems about Launcher, for any number of handler threads and streams: *)
(* types, and what can go wrong while the process starts and ends.         *)
(***************************************************************************)
EXTENDS Launcher, TLAPS

(* Where main is in each of its steps.                                     *)
LEMMA Places ==
  ASSUME at \in 1..28
  PROVE  /\ DOMAIN Program = 1..28 /\ Len(Program) = 28
         /\ Program[at] = "initConfig" <=> at = 1
         /\ Program[at] = "initStream" <=> at = 2
         /\ Program[at] = "initInterface" <=> at = 3
         /\ Program[at] = "initClient" <=> at = 4
         /\ Program[at] = "openStream" <=> at = 5
         /\ Program[at] = "openInterface" <=> at = 6
         /\ Program[at] = "openClient" <=> at = 7
         /\ Program[at] = "register" <=> at = 8
         /\ Program[at] = "sign" <=> at = 9
         /\ Program[at] = "loop" <=> at = 10
         /\ Program[at] = "stopFile" <=> at = 11
         /\ Program[at] = "joinFile" <=> at = 12
         /\ Program[at] = "clearFile" <=> at = 13
         /\ Program[at] = "stopRealtime" <=> at = 14
         /\ Program[at] = "joinRealtime" <=> at = 15
         /\ Program[at] = "clearRealtime" <=> at = 16
         /\ Program[at] = "closeInterface" <=> at = 17
         /\ Program[at] = "quitProgress" <=> at = 18
         /\ Program[at] = "awaitProgress" <=> at = 19
         /\ Program[at] = "deleteProgress" <=> at = 20
         /\ Program[at] = "quitStop" <=> at = 21
         /\ Program[at] = "awaitStop" <=> at = 22
         /\ Program[at] = "deleteStop" <=> at = 23
         /\ Program[at] = "closeManage" <=> at = 24
         /\ Program[at] = "finitConfig" <=> at = 25
         /\ Program[at] = "finitStream" <=> at = 26
         /\ Program[at] = "finitInterface" <=> at = 27
         /\ Program[at] = "end" <=> at = 28
  BY DEF Program

(* The same for the steps taken once per manager or per client.            *)
LEMMA PlacesOf ==
  ASSUME at \in 1..28
  PROVE  /\ \A k \in Kind :
              /\ Program[at] = StopOf[k] => at = IF k = "file" THEN 11 ELSE 14
              /\ Program[at] = JoinOf[k] => at = IF k = "file" THEN 12 ELSE 15
              /\ Program[at] = ClearOf[k] => at = IF k = "file" THEN 13 ELSE 16
         /\ \A c \in Callback :
              /\ Program[at] = QuitOf[c] =>
                   at = IF c = "progress" THEN 18 ELSE 21
              /\ Program[at] = AwaitOf[c] =>
                   at = IF c = "progress" THEN 19 ELSE 22
              /\ Program[at] = DeleteOf[c] =>
                   at = IF c = "progress" THEN 20 ELSE 23
  BY Places
  DEF Kind, Callback, StopOf, JoinOf, ClearOf, QuitOf, AwaitOf, DeleteOf
(* Every step keeps the types.                                             *)
LEMMA Domain == DOMAIN Program = 1..28
  BY DEF Program

LEMMA FailsTypes ==
  ASSUME TypeOK, NEW w \in Faults \cup {"exited"}, Fails(w)
  PROVE  TypeOK'
<1>1. sign' \in BOOLEAN
  BY Zenon DEF Fails, main, TypeOK
<1>2. /\ at' \in DOMAIN Program
      /\ proc' \in {"alive", "exited"} \cup Faults
  BY Domain DEF Fails, main, TypeOK
<1>3. UNCHANGED <<manager, http, handlers, workers, clients>>
  BY DEF Fails
<1> QED
  BY <1>1, <1>2, <1>3
  DEF TypeOK, manager, http, handlers, workers, clients

LEMMA AdvanceTypes ==
  ASSUME TypeOK, NEW step, Program[at] = step, step # "end", Advance
  PROVE  at' \in DOMAIN Program /\ sign' \in BOOLEAN
<1>1. at \in 1..28
  BY Domain DEF TypeOK
<1>2. at' = at + 1 /\ at # 28
  BY <1>1, Places DEF Advance
<1>3. at' \in 1..28
  BY <1>1, <1>2
<1>4. sign' \in BOOLEAN
  BY Zenon DEF Advance, TypeOK
<1> QED
  BY <1>3, <1>4, Domain
(* Types, action by action: a step that is not a failure changes what it   *)
(* names, within its type.                                                 *)
LEMMA TypesStep == TypeOK /\ [Next]_vars => TypeOK'
<1> SUFFICES ASSUME TypeOK, [Next]_vars PROVE TypeOK'
  OBVIOUS
<1>0. ASSUME \E w \in Faults \cup {"exited"} : Fails(w) PROVE TypeOK'
  BY <1>0, FailsTypes
<1> DEFINE Safe == ~\E w \in Faults \cup {"exited"} : Fails(w)
<1> USE DEF Kind, Callback
<1>1. ASSUME InitStream PROVE TypeOK'
  <2>1. at' \in DOMAIN Program /\ sign' \in BOOLEAN
    <3>1. Advance /\ \E step : Program[at] = step /\ step # "end"
      BY <1>1 DEF InitStream, At
    <3> QED
      BY <3>1, AdvanceTypes
  <2>2. proc' \in {"alive", "exited"} \cup Faults
    BY <1>1 DEF InitStream, At, TypeOK
  <2> QED
    BY <1>1, <2>1, <2>2
    DEF TypeOK, InitStream, manager, http, handlers, workers, clients
<1>2. ASSUME InitRest PROVE TypeOK'
  <2>1. at' \in DOMAIN Program /\ sign' \in BOOLEAN
    <3>1. Advance /\ \E step : Program[at] = step /\ step # "end"
      BY <1>2 DEF InitRest, At
    <3> QED
      BY <3>1, AdvanceTypes
  <2>2. proc' \in {"alive", "exited"} \cup Faults
    BY <1>2 DEF InitRest, At, TypeOK
  <2> QED
    BY <1>2, <2>1, <2>2
    DEF TypeOK, InitRest, manager, http, handlers, workers, clients
<1>3. ASSUME OpenStream PROVE TypeOK'
  <2>1. at' \in DOMAIN Program /\ sign' \in BOOLEAN
    <3>1. Advance /\ \E step : Program[at] = step /\ step # "end"
      BY <1>3 DEF OpenStream, At
    <3> QED
      BY <3>1, AdvanceTypes
  <2>2. proc' \in {"alive", "exited"} \cup Faults
    BY <1>3 DEF OpenStream, At, TypeOK
  <2> QED
    BY <1>3, <2>1, <2>2
    DEF TypeOK, OpenStream, manager, http, handlers, workers, clients
<1>4. ASSUME OpenInterface PROVE TypeOK'
  <2>1. at' \in DOMAIN Program /\ sign' \in BOOLEAN
    <3>1. Advance /\ \E step : Program[at] = step /\ step # "end"
      BY <1>4 DEF OpenInterface, At
    <3> QED
      BY <3>1, AdvanceTypes
  <2>2. proc' \in {"alive", "exited"} \cup Faults
    BY <1>4 DEF OpenInterface, At, TypeOK
  <2> QED
    BY <1>4, <2>1, <2>2
    DEF TypeOK, OpenInterface, manager, http, handlers, workers, clients
<1>5. ASSUME OpenClient PROVE TypeOK'
  <2>1. at' \in DOMAIN Program /\ sign' \in BOOLEAN
    <3>1. Advance /\ \E step : Program[at] = step /\ step # "end"
      BY <1>5 DEF OpenClient, At
    <3> QED
      BY <3>1, AdvanceTypes
  <2>2. proc' \in {"alive", "exited"} \cup Faults
    BY <1>5 DEF OpenClient, At, TypeOK
  <2> QED
    BY <1>5, <2>1, <2>2
    DEF TypeOK, OpenClient, manager, http, handlers, workers, clients
<1>6. ASSUME Register PROVE TypeOK'
  <2>1. at' \in DOMAIN Program /\ sign' \in BOOLEAN
    <3>1. Advance /\ \E step : Program[at] = step /\ step # "end"
      BY <1>6 DEF Register, At
    <3> QED
      BY <3>1, AdvanceTypes
  <2>2. proc' \in {"alive", "exited"} \cup Faults
    BY <1>6 DEF Register, At, TypeOK
  <2> QED
    BY <1>6, <2>1, <2>2
    DEF TypeOK, Register, manager, http, handlers, workers, clients
<1>7. ASSUME SetSign PROVE TypeOK'
  <2>1. at' \in DOMAIN Program /\ sign' \in BOOLEAN
    <3>1. at \in 1..28
      BY Domain DEF TypeOK
    <3>2. at' = at + 1 /\ at = 9
      BY <1>7, <3>1, Places DEF SetSign, At
    <3>3. sign' \in BOOLEAN
      BY Zenon, <1>7 DEF SetSign
    <3> QED
      BY <3>2, <3>3, Domain
  <2>2. proc' \in {"alive", "exited"} \cup Faults
    BY <1>7 DEF SetSign, At, TypeOK
  <2> QED
    BY <1>7, <2>1, <2>2
    DEF TypeOK, SetSign, manager, http, handlers, workers, clients
<1>8. ASSUME LeaveLoop PROVE TypeOK'
  <2>1. at' \in DOMAIN Program /\ sign' \in BOOLEAN
    <3>1. Advance /\ \E step : Program[at] = step /\ step # "end"
      BY <1>8 DEF LeaveLoop, At
    <3> QED
      BY <3>1, AdvanceTypes
  <2>2. proc' \in {"alive", "exited"} \cup Faults
    BY <1>8 DEF LeaveLoop, At, TypeOK
  <2> QED
    BY <1>8, <2>1, <2>2
    DEF TypeOK, LeaveLoop, manager, http, handlers, workers, clients
<1>9. ASSUME OnlyUsage PROVE TypeOK'
  <2>1. at' \in DOMAIN Program /\ sign' \in BOOLEAN
    <3>1. at' = 28
      BY <1>9, Domain, Places DEF OnlyUsage, TypeOK
    <3>2. sign' \in BOOLEAN
      BY Zenon, <1>9 DEF OnlyUsage, TypeOK
    <3> QED
      BY <3>1, <3>2, Domain
  <2>2. proc' \in {"alive", "exited"} \cup Faults
    BY <1>9 DEF OnlyUsage, At, TypeOK
  <2> QED
    BY <1>9, <2>1, <2>2
    DEF TypeOK, OnlyUsage, manager, http, handlers, workers, clients
<1>10. ASSUME Interrupt PROVE TypeOK'
  <2>1. at' \in DOMAIN Program /\ sign' \in BOOLEAN
    <3>1. sign' \in BOOLEAN
      BY Zenon, <1>10 DEF Interrupt
    <3> QED
      BY <1>10, <3>1 DEF Interrupt, TypeOK
  <2>2. proc' \in {"alive", "exited"} \cup Faults
    BY <1>10 DEF Interrupt, Registered, At, TypeOK
  <2> QED
    BY <1>10, <2>1, <2>2
    DEF TypeOK, Interrupt, Registered, manager, http, handlers, workers,
        clients
<1>11. ASSUME NEW k \in Kind, StopManager(k) PROVE TypeOK'
  <2>1. at' \in DOMAIN Program /\ sign' \in BOOLEAN
    <3>1. Advance /\ \E step : Program[at] = step /\ step # "end"
      BY <1>11, Domain, PlacesOf, Places
      DEF StopManager, At, TypeOK, StopOf, JoinOf, ClearOf, QuitOf, AwaitOf,
          DeleteOf
    <3> QED
      BY <3>1, AdvanceTypes
  <2>2. proc' \in {"alive", "exited"} \cup Faults
    BY <1>11 DEF StopManager, At, TypeOK
  <2> QED
    BY <1>11, <2>1, <2>2
    DEF TypeOK, StopManager, manager, http, handlers, workers, clients
<1>12. ASSUME NEW k \in Kind, JoinCollector(k) PROVE TypeOK'
  <2>1. at' \in DOMAIN Program /\ sign' \in BOOLEAN
    <3>1. Advance /\ \E step : Program[at] = step /\ step # "end"
      BY <1>12, Domain, PlacesOf, Places
      DEF JoinCollector, At, TypeOK, StopOf, JoinOf, ClearOf, QuitOf, AwaitOf,
          DeleteOf
    <3> QED
      BY <3>1, AdvanceTypes
  <2>2. proc' \in {"alive", "exited"} \cup Faults
    BY <1>12 DEF JoinCollector, At, TypeOK
  <2> QED
    BY <1>12, <2>1, <2>2
    DEF TypeOK, JoinCollector, manager, http, handlers, workers, clients
<1>13. ASSUME NEW k \in Kind, ClearStreams(k), Safe PROVE TypeOK'
  <2>1. at' \in DOMAIN Program /\ sign' \in BOOLEAN
    <3>1. Advance /\ \E step : Program[at] = step /\ step # "end"
      BY <1>13, Domain, PlacesOf, Places
      DEF ClearStreams, DropMaps, Destroyed, At, TypeOK, StopOf, JoinOf,
          ClearOf, QuitOf, AwaitOf, DeleteOf, Faults
    <3> QED
      BY <3>1, AdvanceTypes
  <2>2. proc' \in {"alive", "exited"} \cup Faults
    BY <1>13 DEF ClearStreams, DropMaps, Destroyed, At, Faults, TypeOK
  <2> QED
    BY <1>13, <2>1, <2>2
    DEF TypeOK, ClearStreams, DropMaps, Destroyed, manager, http, handlers,
        workers, clients, Faults
<1>14. ASSUME CloseInterface, Safe PROVE TypeOK'
  <2>1. at' \in DOMAIN Program /\ sign' \in BOOLEAN
    <3>1. Advance /\ \E step : Program[at] = step /\ step # "end"
      BY <1>14 DEF CloseInterface, At, Faults
    <3> QED
      BY <3>1, AdvanceTypes
  <2>2. proc' \in {"alive", "exited"} \cup Faults
    BY <1>14 DEF CloseInterface, At, Faults, TypeOK
  <2> QED
    BY <1>14, <2>1, <2>2
    DEF TypeOK, CloseInterface, manager, http, handlers, workers, clients,
        Faults
<1>15. ASSUME NEW c \in Callback, QuitClient(c) PROVE TypeOK'
  <2>1. at' \in DOMAIN Program /\ sign' \in BOOLEAN
    <3>1. Advance /\ \E step : Program[at] = step /\ step # "end"
      BY <1>15, Domain, PlacesOf, Places
      DEF QuitClient, At, TypeOK, StopOf, JoinOf, ClearOf, QuitOf, AwaitOf,
          DeleteOf
    <3> QED
      BY <3>1, AdvanceTypes
  <2>2. proc' \in {"alive", "exited"} \cup Faults
    BY <1>15 DEF QuitClient, At, TypeOK
  <2> QED
    BY <1>15, <2>1, <2>2
    DEF TypeOK, QuitClient, manager, http, handlers, workers, clients
<1>16. ASSUME NEW c \in Callback, JoinSender(c) PROVE TypeOK'
  <2>1. at' \in DOMAIN Program /\ sign' \in BOOLEAN
    <3>1. Advance /\ \E step : Program[at] = step /\ step # "end"
      BY <1>16, Domain, PlacesOf, Places
      DEF JoinSender, At, TypeOK, StopOf, JoinOf, ClearOf, QuitOf, AwaitOf,
          DeleteOf
    <3> QED
      BY <3>1, AdvanceTypes
  <2>2. proc' \in {"alive", "exited"} \cup Faults
    BY <1>16 DEF JoinSender, At, TypeOK
  <2> QED
    BY <1>16, <2>1, <2>2
    DEF TypeOK, JoinSender, manager, http, handlers, workers, clients
<1>17. ASSUME NEW c \in Callback, DeleteClient(c) PROVE TypeOK'
  <2>1. at' \in DOMAIN Program /\ sign' \in BOOLEAN
    <3>1. Advance /\ \E step : Program[at] = step /\ step # "end"
      BY <1>17, Domain, PlacesOf, Places
      DEF DeleteClient, At, TypeOK, StopOf, JoinOf, ClearOf, QuitOf, AwaitOf,
          DeleteOf
    <3> QED
      BY <3>1, AdvanceTypes
  <2>2. proc' \in {"alive", "exited"} \cup Faults
    BY <1>17 DEF DeleteClient, At, TypeOK
  <2> QED
    BY <1>17, <2>1, <2>2
    DEF TypeOK, DeleteClient, manager, http, handlers, workers, clients
<1>18. ASSUME CloseManage PROVE TypeOK'
  <2>1. at' \in DOMAIN Program /\ sign' \in BOOLEAN
    <3>1. Advance /\ \E step : Program[at] = step /\ step # "end"
      BY <1>18 DEF CloseManage, At
    <3> QED
      BY <3>1, AdvanceTypes
  <2>2. proc' \in {"alive", "exited"} \cup Faults
    BY <1>18 DEF CloseManage, At, TypeOK
  <2> QED
    BY <1>18, <2>1, <2>2
    DEF TypeOK, CloseManage, manager, http, handlers, workers, clients
<1>19. ASSUME FinitConfig, Safe PROVE TypeOK'
  <2>1. at' \in DOMAIN Program /\ sign' \in BOOLEAN
    <3>1. Advance /\ \E step : Program[at] = step /\ step # "end"
      BY <1>19 DEF FinitConfig, At, Faults
    <3> QED
      BY <3>1, AdvanceTypes
  <2>2. proc' \in {"alive", "exited"} \cup Faults
    BY <1>19 DEF FinitConfig, At, Faults, TypeOK
  <2> QED
    BY <1>19, <2>1, <2>2
    DEF TypeOK, FinitConfig, manager, http, handlers, workers, clients, Faults
<1>20. ASSUME FinitStream, Safe PROVE TypeOK'
  <2>1. at' \in DOMAIN Program /\ sign' \in BOOLEAN
    <3>1. Advance /\ \E step : Program[at] = step /\ step # "end"
      BY <1>20 DEF FinitStream, DropMaps, Destroyed, At, Faults
    <3> QED
      BY <3>1, AdvanceTypes
  <2>2. proc' \in {"alive", "exited"} \cup Faults
    BY <1>20 DEF FinitStream, DropMaps, Destroyed, At, Faults, TypeOK
  <2> QED
    BY <1>20, <2>1, <2>2
    DEF TypeOK, FinitStream, DropMaps, Destroyed, manager, http, handlers,
        workers, clients, Faults
<1>21. ASSUME FinitInterface PROVE TypeOK'
  <2>1. at' \in DOMAIN Program /\ sign' \in BOOLEAN
    <3>1. Advance /\ \E step : Program[at] = step /\ step # "end"
      BY <1>21 DEF FinitInterface, At
    <3> QED
      BY <3>1, AdvanceTypes
  <2>2. proc' \in {"alive", "exited"} \cup Faults
    BY <1>21 DEF FinitInterface, At, TypeOK
  <2> QED
    BY <1>21, <2>1, <2>2
    DEF TypeOK, FinitInterface, manager, http, handlers, workers, clients
<1>22. ASSUME Listen, Safe PROVE TypeOK'
  <2>1. at' \in DOMAIN Program /\ sign' \in BOOLEAN
    <3>1. UNCHANGED <<at, sign>>
      BY <1>22 DEF Listen, main, Faults
    <3> QED
      BY Zenon, <3>1 DEF TypeOK
  <2>2. proc' \in {"alive", "exited"} \cup Faults
    BY <1>22 DEF Listen, At, Faults, TypeOK
  <2> QED
    BY <1>22, <2>1, <2>2
    DEF TypeOK, Listen, manager, http, handlers, workers, clients, Faults
<1>23. ASSUME ListenerEnds, Safe PROVE TypeOK'
  <2>1. at' \in DOMAIN Program /\ sign' \in BOOLEAN
    <3>1. UNCHANGED <<at, sign>>
      BY <1>23 DEF ListenerEnds, main, Faults
    <3> QED
      BY Zenon, <3>1 DEF TypeOK
  <2>2. proc' \in {"alive", "exited"} \cup Faults
    BY <1>23 DEF ListenerEnds, At, Faults, TypeOK
  <2> QED
    BY <1>23, <2>1, <2>2
    DEF TypeOK, ListenerEnds, manager, http, handlers, workers, clients, Faults
<1>24. ASSUME NEW h \in Handler, Accept(h), Safe PROVE TypeOK'
  <2>1. at' \in DOMAIN Program /\ sign' \in BOOLEAN
    <3>1. UNCHANGED <<at, sign>>
      BY <1>24 DEF Accept, Request, main, Faults
    <3> QED
      BY Zenon, <3>1 DEF TypeOK
  <2>2. proc' \in {"alive", "exited"} \cup Faults
    BY <1>24 DEF Accept, Request, At, Faults, TypeOK
  <2> QED
    BY <1>24, <2>1, <2>2
    DEF TypeOK, Accept, Request, manager, http, handlers, workers, clients,
        Faults
<1>25. ASSUME NEW h \in Handler, ReadConfig(h), Safe PROVE TypeOK'
  <2>1. at' \in DOMAIN Program /\ sign' \in BOOLEAN
    <3>1. UNCHANGED <<at, sign>>
      BY <1>25 DEF ReadConfig, main, Faults
    <3> QED
      BY Zenon, <3>1 DEF TypeOK
  <2>2. proc' \in {"alive", "exited"} \cup Faults
    BY <1>25 DEF ReadConfig, At, Faults, TypeOK
  <2> QED
    BY <1>25, <2>1, <2>2
    DEF TypeOK, ReadConfig, manager, http, handlers, workers, clients, Faults
<1>26. ASSUME NEW h \in Handler, Create(h) PROVE TypeOK'
  <2>1. at' \in DOMAIN Program /\ sign' \in BOOLEAN
    <3>1. UNCHANGED <<at, sign>>
      BY <1>26 DEF Create, Request, main
    <3> QED
      BY Zenon, <3>1 DEF TypeOK
  <2>2. proc' \in {"alive", "exited"} \cup Faults
    BY <1>26 DEF Create, Request, At, TypeOK
  <2> QED
    BY <1>26, <2>1, <2>2
    DEF TypeOK, Create, Request, manager, http, handlers, workers, clients
<1>27. ASSUME NEW h \in Handler, Get(h) PROVE TypeOK'
  <2>1. at' \in DOMAIN Program /\ sign' \in BOOLEAN
    <3>1. UNCHANGED <<at, sign>>
      BY <1>27 DEF Get, Request, main
    <3> QED
      BY Zenon, <3>1 DEF TypeOK
  <2>3. held' \in [Handler -> Stream \cup {NoStream}]
    <3>1. \A k \in Kind : streams[k] \subseteq Stream
      BY DEF TypeOK
    <3>2. hreq[h].kind \in Kind
      BY DEF TypeOK, Request, NoReq
    <3> QED
      BY <1>27, <3>1, <3>2 DEF Get, TypeOK
  <2>2. proc' \in {"alive", "exited"} \cup Faults
    BY <1>27 DEF Get, Request, At, TypeOK
  <2> QED
    BY <1>27, <2>1, <2>2, <2>3
    DEF TypeOK, Get, Request, manager, http, handlers, workers, clients
<1>28. ASSUME NEW h \in Handler, Start(h) PROVE TypeOK'
  <2>1. at' \in DOMAIN Program /\ sign' \in BOOLEAN
    <3>1. UNCHANGED <<at, sign>>
      BY <1>28 DEF Start, main
    <3> QED
      BY Zenon, <3>1 DEF TypeOK
  <2>2. proc' \in {"alive", "exited"} \cup Faults
    BY <1>28 DEF Start, At, TypeOK
  <2> QED
    BY <1>28, <2>1, <2>2
    DEF TypeOK, Start, manager, http, handlers, workers, clients
<1>29. ASSUME NEW h \in Handler, Stop(h) PROVE TypeOK'
  <2>1. at' \in DOMAIN Program /\ sign' \in BOOLEAN
    <3>1. UNCHANGED <<at, sign>>
      BY <1>29 DEF Stop, main
    <3> QED
      BY Zenon, <3>1 DEF TypeOK
  <2>2. proc' \in {"alive", "exited"} \cup Faults
    BY <1>29 DEF Stop, At, TypeOK
  <2> QED
    BY <1>29, <2>1, <2>2
    DEF TypeOK, Stop, manager, http, handlers, workers, clients
<1>30. ASSUME NEW h \in Handler, Return(h), Safe PROVE TypeOK'
  <2>1. at' \in DOMAIN Program /\ sign' \in BOOLEAN
    <3>1. UNCHANGED <<at, sign>>
      BY <1>30 DEF Return, Destroyed, NoReq, main, Faults
    <3> QED
      BY Zenon, <3>1 DEF TypeOK
  <2>2. proc' \in {"alive", "exited"} \cup Faults
    BY <1>30 DEF Return, Destroyed, NoReq, At, Faults, TypeOK
  <2> QED
    BY <1>30, <2>1, <2>2
    DEF TypeOK, Return, Destroyed, NoReq, manager, http, handlers, workers,
        clients, Faults
<1>31. ASSUME NEW k \in Kind, Collect(k), Safe PROVE TypeOK'
  <2>1. at' \in DOMAIN Program /\ sign' \in BOOLEAN
    <3>1. UNCHANGED <<at, sign>>
      BY <1>31 DEF Collect, main, Faults
    <3> QED
      BY Zenon, <3>1 DEF TypeOK
  <2>2. proc' \in {"alive", "exited"} \cup Faults
    BY <1>31 DEF Collect, At, Faults, TypeOK
  <2> QED
    BY <1>31, <2>1, <2>2
    DEF TypeOK, Collect, manager, http, handlers, workers, clients, Faults
<1>32. ASSUME NEW s \in Stream, NEW c \in Callback, GetClient(s, c)
       PROVE  TypeOK'
  <2>1. at' \in DOMAIN Program /\ sign' \in BOOLEAN
    <3>1. UNCHANGED <<at, sign>>
      BY <1>32 DEF GetClient, main
    <3> QED
      BY Zenon, <3>1 DEF TypeOK
  <2>3. /\ reports' \in [Stream -> 0..MaxReport]
        /\ lost' \in [Loss -> Nat]
    BY <1>32, LauncherAssumption DEF GetClient, TypeOK
  <2>2. proc' \in {"alive", "exited"} \cup Faults
    BY <1>32 DEF GetClient, At, TypeOK
  <2> QED
    BY <1>32, <2>1, <2>2, <2>3
    DEF TypeOK, GetClient, manager, http, handlers, workers, clients
<1>33. ASSUME NEW s \in Stream, Push(s), Safe PROVE TypeOK'
  <2>1. at' \in DOMAIN Program /\ sign' \in BOOLEAN
    <3>1. UNCHANGED <<at, sign>>
      BY <1>33 DEF Push, main, Faults
    <3> QED
      BY Zenon, <3>1 DEF TypeOK
  <2>2. proc' \in {"alive", "exited"} \cup Faults
    BY <1>33 DEF Push, At, Faults, TypeOK
  <2> QED
    BY <1>33, <2>1, <2>2
    DEF TypeOK, Push, manager, http, handlers, workers, clients, Faults
<1>34. ASSUME NEW s \in Stream, StreamEnds(s) PROVE TypeOK'
  <2>1. at' \in DOMAIN Program /\ sign' \in BOOLEAN
    <3>1. UNCHANGED <<at, sign>>
      BY <1>34 DEF StreamEnds, main
    <3> QED
      BY Zenon, <3>1 DEF TypeOK
  <2>2. proc' \in {"alive", "exited"} \cup Faults
    BY <1>34 DEF StreamEnds, At, TypeOK
  <2>3. reports' \in [Stream -> 0..MaxReport]
    BY <1>34, LauncherAssumption DEF StreamEnds, TypeOK
  <2> QED
    BY <1>34, <2>1, <2>2, <2>3
    DEF TypeOK, StreamEnds, manager, http, handlers, workers, clients
<1>35. ASSUME NEW c \in Callback, Send(c) PROVE TypeOK'
  <2>1. at' \in DOMAIN Program /\ sign' \in BOOLEAN
    <3>1. UNCHANGED <<at, sign>>
      BY <1>35 DEF Send, main
    <3> QED
      BY Zenon, <3>1 DEF TypeOK
  <2>2. proc' \in {"alive", "exited"} \cup Faults
    BY <1>35 DEF Send, At, TypeOK
  <2> QED
    BY <1>35, <2>1, <2>2
    DEF TypeOK, Send, manager, http, handlers, workers, clients
<1>36. ASSUME NEW c \in Callback, SenderEnds(c) PROVE TypeOK'
  <2>1. at' \in DOMAIN Program /\ sign' \in BOOLEAN
    <3>1. UNCHANGED <<at, sign>>
      BY <1>36 DEF SenderEnds, main
    <3> QED
      BY Zenon, <3>1 DEF TypeOK
  <2>2. proc' \in {"alive", "exited"} \cup Faults
    BY <1>36 DEF SenderEnds, At, TypeOK
  <2> QED
    BY <1>36, <2>1, <2>2
    DEF TypeOK, SenderEnds, manager, http, handlers, workers, clients
<1>37. CASE UNCHANGED vars
  <2>1. sign' \in BOOLEAN
    BY Zenon, <1>37 DEF vars, main, TypeOK
  <2> QED
    BY <1>37, <2>1
    DEF TypeOK, vars, main, manager, http, handlers, workers, clients
<1>38. Exit \/ Reload => \E w \in Faults \cup {"exited"} : Fails(w)
  BY DEF Exit, Reload, Faults
<1> QED
  BY <1>0, <1>1, <1>2, <1>3, <1>4, <1>5, <1>6, <1>7, <1>8, <1>9, <1>10, <1>11,
     <1>12, <1>13, <1>14, <1>15, <1>16, <1>17, <1>18, <1>19, <1>20, <1>21,
     <1>22, <1>23, <1>24, <1>25, <1>26, <1>27, <1>28, <1>29, <1>30, <1>31,
     <1>32, <1>33, <1>34, <1>35, <1>36, <1>37, <1>38
  DEF Next, Main, Pool
-----------------------------------------------------------------------------
(* How far main is tells what exists: the collectors run from the opening  *)
(* of the managers until they are joined, the managers exist from then     *)
(* until finit and are open until they are stopped, and the callback       *)
(* clients are there from their opening until they are deleted.            *)
Collectors ==
  \A k \in Kind :
    col[k] = "sleep" => 5 < at /\ at <= IF k = "file" THEN 12 ELSE 15

Managers ==
  \A k \in Kind :
    /\ mng[k] = "null" => at <= 2 \/ 26 < at
    /\ mng[k] = "open" => 5 < at /\ at <= IF k = "file" THEN 11 ELSE 14

Clients ==
  \A c \in Callback :
    /\ client[c] \in {"null", "deleted"} => at <= 7 \/ 20 < at
    /\ client[c] # "null" => 7 < at

Order == Collectors /\ Managers /\ Clients

LEMMA OrderStep == TypeOK /\ Order /\ [Next]_vars => Order'
<1> SUFFICES ASSUME TypeOK, Order, [Next]_vars PROVE Order'
  OBVIOUS
<1>0. at \in 1..28
  BY Domain DEF TypeOK
<1> USE DEF Order, Collectors, Managers, Clients
<1>u. ASSUME UNCHANGED <<at, col, mng, client>> PROVE Order'
  BY <1>u
<1>1. ASSUME OnlyUsage PROVE Order'
  <2>1. at = 1 /\ at' = 28
    BY <1>1, <1>0, Places DEF OnlyUsage, At
  <2>2. UNCHANGED <<col, mng, client>>
    BY <1>1 DEF OnlyUsage, manager, clients
  <2> QED
    BY <2>1, <2>2
<1>2. ASSUME InitStream PROVE Order'
  BY <1>2, <1>0, Places, PlacesOf
  DEF InitStream, At, Advance, Kind, Callback, TypeOK, manager, clients
<1>3. ASSUME InitRest PROVE Order'
  BY <1>3, <1>0, Places, PlacesOf
  DEF InitRest, At, Advance, Kind, Callback, TypeOK, manager, clients
<1>4. ASSUME OpenStream PROVE Order'
  BY <1>4, <1>0, Places, PlacesOf
  DEF OpenStream, At, Advance, Kind, Callback, TypeOK, manager, clients
<1>5. ASSUME OpenInterface PROVE Order'
  BY <1>5, <1>0, Places, PlacesOf
  DEF OpenInterface, At, Advance, Kind, Callback, TypeOK, manager, clients
<1>6. ASSUME OpenClient PROVE Order'
  BY <1>6, <1>0, Places, PlacesOf
  DEF OpenClient, At, Advance, Kind, Callback, TypeOK, manager, clients
<1>7. ASSUME Register PROVE Order'
  BY <1>7, <1>0, Places, PlacesOf
  DEF Register, At, Advance, Kind, Callback, TypeOK, manager, clients
<1>8. ASSUME SetSign PROVE Order'
  BY <1>8, <1>0, Places, PlacesOf
  DEF SetSign, At, Advance, Kind, Callback, TypeOK, manager, clients
<1>9. ASSUME LeaveLoop PROVE Order'
  BY <1>9, <1>0, Places, PlacesOf
  DEF LeaveLoop, At, Advance, Kind, Callback, TypeOK, manager, clients
<1>10. ASSUME NEW k \in Kind, StopManager(k) PROVE Order'
  BY <1>10, <1>0, Places, PlacesOf
  DEF StopManager, At, Advance, Kind, Callback, TypeOK, manager, clients
<1>11. ASSUME NEW k \in Kind, JoinCollector(k) PROVE Order'
  BY <1>11, <1>0, Places, PlacesOf
  DEF JoinCollector, At, Advance, Kind, Callback, TypeOK, manager, clients
<1>12. ASSUME NEW c \in Callback, QuitClient(c) PROVE Order'
  BY <1>12, <1>0, Places, PlacesOf
  DEF QuitClient, At, Advance, Kind, Callback, TypeOK, manager, clients
<1>13. ASSUME NEW c \in Callback, JoinSender(c) PROVE Order'
  BY <1>13, <1>0, Places, PlacesOf
  DEF JoinSender, At, Advance, Kind, Callback, TypeOK, manager, clients
<1>14. ASSUME NEW c \in Callback, DeleteClient(c) PROVE Order'
  BY <1>14, <1>0, Places, PlacesOf
  DEF DeleteClient, At, Advance, Kind, Callback, TypeOK, manager, clients
<1>15. ASSUME CloseManage PROVE Order'
  BY <1>15, <1>0, Places, PlacesOf
  DEF CloseManage, At, Advance, Kind, Callback, TypeOK, manager, clients
<1>16. ASSUME FinitInterface PROVE Order'
  BY <1>16, <1>0, Places, PlacesOf
  DEF FinitInterface, At, Advance, Kind, Callback, TypeOK, manager, clients
<1>17. ASSUME NEW w, Fails(w) PROVE UNCHANGED <<at, col, mng, client>>
  BY <1>17 DEF Fails, main, manager, clients
<1>18. ASSUME NEW k \in Kind, ClearStreams(k) PROVE Order'
  <2>1. CASE \E w \in Faults : Fails(w)
    BY <1>u, <1>17, <2>1
  <2>2. CASE ~\E w \in Faults : Fails(w)
    <3>0. {k} # Kind
      BY DEF Kind
    <3>1. /\ at' = at + 1 /\ UNCHANGED <<col, client>>
          /\ mng' = mng
      BY <1>18, <2>2, <3>0
      DEF ClearStreams, DropMaps, Faults, At, Advance, Kind, Callback, TypeOK,
          manager, clients
    <3>2. at = 13 \/ at = 16
      BY <1>18, <1>0, Places, PlacesOf
      DEF ClearStreams, At, Advance, Kind, Callback, TypeOK, manager, clients
    <3> QED
      BY <3>1, <3>2 DEF Kind, Callback
  <2> QED
    BY <2>1, <2>2
<1>19. ASSUME CloseInterface PROVE Order'
  <2>1. CASE \E w \in Faults : Fails(w)
    BY <1>u, <1>17, <2>1
  <2>2. CASE ~\E w \in Faults : Fails(w)
    <3>1. /\ at' = at + 1 /\ UNCHANGED <<col, client>>
          /\ mng' = mng
      BY <1>19, <2>2
      DEF CloseInterface, DropMaps, Faults, At, Advance, Kind, Callback,
          TypeOK, manager, clients
    <3>2. at = 17
      BY <1>19, <1>0, Places, PlacesOf
      DEF CloseInterface, At, Advance, Kind, Callback, TypeOK, manager, clients
    <3> QED
      BY <3>1, <3>2 DEF Kind, Callback
  <2> QED
    BY <2>1, <2>2
<1>20. ASSUME FinitConfig PROVE Order'
  <2>1. CASE \E w \in Faults : Fails(w)
    BY <1>u, <1>17, <2>1
  <2>2. CASE ~\E w \in Faults : Fails(w)
    <3>1. /\ at' = at + 1 /\ UNCHANGED <<col, client>>
          /\ mng' = mng
      BY <1>20, <2>2
      DEF FinitConfig, DropMaps, Faults, At, Advance, Kind, Callback, TypeOK,
          manager, clients
    <3>2. at = 25
      BY <1>20, <1>0, Places, PlacesOf
      DEF FinitConfig, At, Advance, Kind, Callback, TypeOK, manager, clients
    <3> QED
      BY <3>1, <3>2 DEF Kind, Callback
  <2> QED
    BY <2>1, <2>2
<1>21. ASSUME FinitStream PROVE Order'
  <2>1. CASE \E w \in Faults : Fails(w)
    BY <1>u, <1>17, <2>1
  <2>2. CASE ~\E w \in Faults : Fails(w)
    <3>1. /\ at' = at + 1 /\ UNCHANGED <<col, client>>
          /\ mng' = [i \in Kind |-> "null"]
      BY <1>21, <2>2
      DEF FinitStream, DropMaps, Faults, At, Advance, Kind, Callback, TypeOK,
          manager, clients
    <3>2. at = 26
      BY <1>21, <1>0, Places, PlacesOf
      DEF FinitStream, At, Advance, Kind, Callback, TypeOK, manager, clients
    <3> QED
      BY <3>1, <3>2 DEF Kind, Callback
  <2> QED
    BY <2>1, <2>2
<1>22. ASSUME NEW k \in Kind, Collect(k) PROVE Order'
  <2>1. CASE \E w \in Faults : Fails(w)
    BY <1>u, <1>17, <2>1
  <2>2. CASE ~\E w \in Faults : Fails(w)
    BY <1>22, <2>2
    DEF Collect, Faults, main, At, Advance, Kind, Callback, TypeOK, manager,
        clients
  <2> QED
    BY <2>1, <2>2
<1>23. CASE Interrupt \/ UNCHANGED vars
  BY <1>u, <1>23 DEF Interrupt, vars, main, manager, clients
<1>24. CASE Exit \/ Reload \/ Listen \/ ListenerEnds
  BY <1>u, <1>17, <1>24
  DEF Exit, Reload, Listen, ListenerEnds, main, manager, clients
<1>25. ASSUME NEW h \in Handler, Pool(h)
       PROVE  UNCHANGED <<at, col, mng, client>>
  BY <1>17, <1>25
  DEF Pool, Accept, ReadConfig, Create, Get, Start, Stop, Return, main,
      manager, clients
<1>26. ASSUME NEW s \in Stream,
             Push(s) \/ StreamEnds(s) \/ \E c \in Callback : GetClient(s, c)
      PROVE  UNCHANGED <<at, col, mng, client>>
  BY <1>17, <1>26 DEF Push, StreamEnds, GetClient, main, manager, clients
<1>27. ASSUME NEW c \in Callback, Send(c) \/ SenderEnds(c)
      PROVE  UNCHANGED <<at, col, mng, client>>
  BY <1>27 DEF Send, SenderEnds, main, manager, clients
<1> QED
  BY <1>u, <1>1, <1>2, <1>3, <1>4, <1>5, <1>6, <1>7, <1>8, <1>9, <1>10, <1>11,
     <1>12, <1>13, <1>14, <1>15, <1>16, <1>17, <1>18, <1>19, <1>20, <1>21,
     <1>22, <1>23, <1>24, <1>25, <1>26, <1>27
  DEF Next, Main
(* A thread that holds a pointer to a client is a streams of a living      *)
(* object: no step destroys an object whose thread is not joined.          *)
Pushing == \A s \in Stream : got[s] # "none" => life[s] = "running" /\ 7 < at

LEMMA PushingStep ==
  TypeOK /\ Order /\ Pushing /\ [Next]_vars => Pushing'
<1> SUFFICES ASSUME TypeOK, Order, Pushing, [Next]_vars PROVE Pushing'
  OBVIOUS
<1>0. at \in 1..28
  BY Domain DEF TypeOK
<1>t. at' \in 1..28
  BY TypesStep, Domain DEF TypeOK
<1>u. ASSUME UNCHANGED <<life, got>>, at' >= at PROVE Pushing'
  BY <1>u, <1>0, <1>t DEF Pushing
<1>f. ASSUME NEW w, Fails(w) PROVE Pushing'
  <2>1. UNCHANGED <<at, life, got>>
    BY <1>f DEF Fails, main, workers
  <2> QED
    BY <1>u, <1>0, <2>1
<1>1. CASE OnlyUsage
  <2>1. at' = 28 /\ UNCHANGED <<life, got>>
    BY <1>1, Places, <1>0 DEF OnlyUsage, workers
  <2> QED
    BY <1>0, <1>u, <2>1
<1>2. CASE \/ InitStream \/ InitRest \/ OpenStream \/ OpenInterface
           \/ OpenClient \/ Register \/ SetSign \/ LeaveLoop \/ CloseManage
           \/ FinitInterface
  <2>1. at' = at + 1 /\ UNCHANGED <<life, got>>
    BY <1>2
    DEF InitStream, InitRest, OpenStream, OpenInterface, OpenClient, Register,
        SetSign, LeaveLoop, CloseManage, FinitInterface, Advance, workers
  <2> QED
    BY <1>0, <1>u, <2>1
<1>3. ASSUME NEW k \in Kind, StopManager(k) \/ JoinCollector(k)
      PROVE  Pushing'
  <2>1. at' = at + 1 /\ UNCHANGED <<life, got>>
    BY <1>3 DEF StopManager, JoinCollector, Advance, workers
  <2> QED
    BY <1>0, <1>u, <2>1
<1>4. ASSUME NEW c \in Callback,
             QuitClient(c) \/ JoinSender(c) \/ DeleteClient(c)
      PROVE  Pushing'
  <2>1. at' = at + 1 /\ UNCHANGED <<life, got>>
    BY <1>4 DEF QuitClient, JoinSender, DeleteClient, Advance, workers
  <2> QED
    BY <1>0, <1>u, <2>1
<1>5. ASSUME NEW X \in SUBSET Kind, DropMaps(X) PROVE Pushing'
  <2>1. CASE \E w \in Faults : Fails(w)
    BY <1>f, <2>1
  <2>2. CASE ~\E w \in Faults : Fails(w)
    <3>1. /\ at' = at + 1 /\ got' = got
          /\ \A s \in Stream : life[s] = "running" => life'[s] = "running"
      BY <1>5, <2>2 DEF DropMaps, Faults, Advance, Destroyed, Joinable
    <3> QED
      BY <1>0, <3>1 DEF Pushing
  <2> QED
    BY <2>1, <2>2
<1>6. CASE (\E k \in Kind : ClearStreams(k)) \/ FinitStream
  BY <1>6, <1>5 DEF ClearStreams, FinitStream
<1>7. CASE CloseInterface \/ FinitConfig
  <2>1. CASE \E w \in Faults : Fails(w)
    BY <1>f, <2>1
  <2>2. CASE ~\E w \in Faults : Fails(w)
    <3>1. at' = at + 1 /\ UNCHANGED <<life, got>>
      BY <1>7, <2>2 DEF CloseInterface, FinitConfig, Faults, Advance, workers
    <3> QED
      BY <1>0, <1>u, <3>1
  <2> QED
    BY <2>1, <2>2
<1>8. CASE Exit \/ Reload
  BY <1>f, <1>8 DEF Exit, Reload
<1>9. CASE Listen \/ ListenerEnds \/ Interrupt \/ UNCHANGED vars
  <2>1. CASE \E w \in Faults : Fails(w)
    BY <1>f, <2>1
  <2>2. CASE ~\E w \in Faults : Fails(w)
    <3>1. UNCHANGED <<at, life, got>>
      BY <1>9, <2>2
      DEF Listen, ListenerEnds, Interrupt, vars, Faults, main, workers
    <3> QED
      BY <1>0, <1>u, <3>1
  <2> QED
    BY <2>1, <2>2
<1>10. ASSUME NEW h \in Handler, Pool(h) PROVE Pushing'
  <2>1. CASE \E w \in Faults : Fails(w)
    BY <1>f, <2>1
  <2>2. CASE ~\E w \in Faults : Fails(w)
    <3>1. CASE Accept(h) \/ ReadConfig(h) \/ Get(h)
      <4>1. UNCHANGED <<at, life, got>>
        BY <3>1, <2>2 DEF Accept, ReadConfig, Get, Faults, main, workers
      <4> QED
        BY <1>0, <1>u, <4>1
    <3>2. CASE Create(h) \/ Start(h) \/ Stop(h) \/ Return(h)
      <4>1. /\ UNCHANGED <<at, got>>
            /\ \A s \in Stream : life[s] = "running" => life'[s] = "running"
        BY <3>2, <2>2
        DEF Create, Start, Stop, Return, Faults, Destroyed, Joinable, main,
            TypeOK
      <4> QED
        BY <1>0, <4>1 DEF Pushing
    <3> QED
      BY <1>10, <3>1, <3>2 DEF Pool
  <2> QED
    BY <2>1, <2>2
<1>11. ASSUME NEW k \in Kind, Collect(k) PROVE Pushing'
  <2>1. CASE \E w \in Faults : Fails(w)
    BY <1>f, <2>1
  <2>2. CASE ~\E w \in Faults : Fails(w)
    <3>1. /\ UNCHANGED <<at, got>>
          /\ \A s \in Stream : life[s] = "running" => life'[s] = "running"
      BY <1>11, <2>2 DEF Collect, Faults, main
    <3> QED
      BY <1>0, <3>1 DEF Pushing
  <2> QED
    BY <2>1, <2>2
<1>12. ASSUME NEW s \in Stream, NEW c \in Callback, GetClient(s, c)
       PROVE  Pushing'
  <2>1. UNCHANGED <<at, life>> /\ life[s] = "running"
    BY <1>12 DEF GetClient, main
  <2>2. got' = got \/ (client[c] # "null" /\ got' = [got EXCEPT ![s] = c])
    BY <1>12 DEF GetClient
  <2>3. client[c] # "null" => 7 < at
    BY DEF Order, Clients
  <2> QED
    BY <2>1, <2>2, <2>3 DEF Pushing, TypeOK
<1>13. ASSUME NEW s \in Stream, Push(s) \/ StreamEnds(s) PROVE Pushing'
  <2>1. CASE \E w \in Faults : Fails(w)
    BY <1>f, <2>1
  <2>2. CASE ~\E w \in Faults : Fails(w)
    BY <1>13, <2>2 DEF Push, StreamEnds, Faults, main, Pushing, TypeOK
  <2> QED
    BY <2>1, <2>2
<1>14. ASSUME NEW c \in Callback, Send(c) \/ SenderEnds(c) PROVE Pushing'
  <2>1. UNCHANGED <<at, life, got>>
    BY <1>14 DEF Send, SenderEnds, main, workers
  <2> QED
    BY <1>0, <1>u, <2>1
<1> QED
  BY <1>1, <1>2, <1>3, <1>4, <1>6, <1>7, <1>8, <1>9, <1>10, <1>11, <1>12,
     <1>13, <1>14
  DEF Next, Main

(* A failure is met by a thread that goes on while main goes on without it.*)
LEMMA FailStep ==
  ASSUME TypeOK, Order, Pushing, [Next]_vars, proc' # proc
  PROVE  QuietIsSafe' /\ ClientsOutliveManagers'
<1> USE DEF Faults
<1>0. at \in 1..28
  BY Domain DEF TypeOK
<1>1. ASSUME NEW w \in Faults, Fails(w), w # "freedClient", Busy
      PROVE  QuietIsSafe' /\ ClientsOutliveManagers'
  BY <1>1
  DEF Fails, QuietIsSafe, ClientsOutliveManagers, Busy, Joinable, http,
      handlers, workers
<1>2. ASSUME NEW k \in Kind, Collect(k) PROVE FALSE
  <2>1. mng[k] = "null" /\ col[k] = "sleep"
    BY <1>2 DEF Collect
  <2> QED
    BY <1>0, <2>1 DEF Order, Collectors, Managers, Kind
<1>3. ASSUME NEW s \in Stream, Push(s)
      PROVE  QuietIsSafe' /\ ClientsOutliveManagers'
  <2>1. /\ Fails("freedClient") /\ got[s] # "none"
        /\ client[got[s]] \in {"null", "deleted"}
    BY <1>3 DEF Push
  <2>2. got[s] \in Callback
    BY <2>1 DEF TypeOK
  <2>3. life[s] = "running" /\ 20 < at
    BY <1>0, <2>1, <2>2 DEF Pushing, Order, Clients
  <2>4. \A k \in Kind : mng[k] # "open"
    BY <1>0, <2>3 DEF Order, Managers
  <2>5. Busy
    BY <2>3 DEF Busy, Joinable
  <2> QED
    BY <2>1, <2>4, <2>5
    DEF Fails, QuietIsSafe, ClientsOutliveManagers, Busy, Joinable, http,
        handlers, workers, manager
<1>4. ASSUME NEW X \in SUBSET Kind, DropMaps(X)
      PROVE  QuietIsSafe' /\ ClientsOutliveManagers'
  <2>1. (Fails("race") \/ Fails("terminate")) /\ Busy
    <3>1. \/ Fails("race") /\ \E h \in Handler, k \in X : InMap(h, k)
          \/ /\ Fails("terminate")
             /\ \E s \in UNION {streams[k] : k \in X} : Joinable(s)
      BY <1>4 DEF DropMaps
    <3>2. UNION {streams[k] : k \in X} \subseteq Stream
      BY DEF TypeOK
    <3> QED
      BY <3>1, <3>2 DEF Busy, InMap
  <2> QED
    BY <1>1, <2>1
<1>5. CASE (\E k \in Kind : ClearStreams(k)) \/ FinitStream
  BY <1>4, <1>5 DEF ClearStreams, FinitStream
<1>6. CASE CloseInterface \/ FinitConfig \/ Reload
  <2>1. (\E w \in {"race", "freedConfig", "tornConfig"} : Fails(w)) /\ Busy
    BY <1>6 DEF CloseInterface, FinitConfig, Reload, Busy, Reading
  <2> QED
    BY <1>1, <2>1
<1>7. CASE Exit
  BY <1>7 DEF Exit, Fails, QuietIsSafe, ClientsOutliveManagers
<1>8. CASE Listen \/ ListenerEnds
  <2>1. Fails("freedServer") /\ Busy
    BY <1>8 DEF Listen, ListenerEnds, Busy
  <2> QED
    BY <1>1, <2>1
<1>9. ASSUME NEW h \in Handler, Pool(h)
      PROVE  QuietIsSafe' /\ ClientsOutliveManagers'
  <2>1. (\E w \in {"noManager", "terminate", "freedServer"} : Fails(w)) /\ Busy
    BY <1>9
    DEF Pool, Accept, ReadConfig, Create, Get, Start, Stop, Return, Busy
  <2> QED
    BY <1>1, <2>1
<1>10. CASE InitStream \/ InitRest \/ OpenStream \/ OpenInterface \/ OpenClient
            \/ Register \/ SetSign \/ LeaveLoop \/ CloseManage
            \/ FinitInterface \/ OnlyUsage \/ Interrupt \/ UNCHANGED vars
  BY <1>10
  DEF InitStream, InitRest, OpenStream, OpenInterface, OpenClient, Register,
      SetSign, LeaveLoop, CloseManage, FinitInterface, OnlyUsage, Interrupt,
      vars
<1>11. ASSUME NEW k \in Kind, StopManager(k) \/ JoinCollector(k) PROVE FALSE
  BY <1>11 DEF StopManager, JoinCollector
<1>12. ASSUME NEW c \in Callback,
              \/ QuitClient(c) \/ JoinSender(c) \/ DeleteClient(c)
              \/ Send(c) \/ SenderEnds(c)
       PROVE  FALSE
  BY <1>12 DEF QuitClient, JoinSender, DeleteClient, Send, SenderEnds
<1>13. ASSUME NEW s \in Stream,
              StreamEnds(s) \/ \E c \in Callback : GetClient(s, c)
       PROVE  FALSE
  BY <1>13 DEF StreamEnds, GetClient
<1> QED
  BY <1>2, <1>3, <1>5, <1>6, <1>7, <1>8, <1>9, <1>10, <1>11, <1>12, <1>13
  DEF Next, Main

(* After a failure nothing happens.                                        *)
LEMMA Dead == proc # "alive" /\ [Next]_vars => UNCHANGED vars
<1> SUFFICES ASSUME proc # "alive", Next PROVE FALSE
  OBVIOUS
<1> QED
  BY DEF Next, Main, Pool, At, Registered, InitStream, InitRest, OpenStream,
     OpenInterface, OpenClient, Register, SetSign, LeaveLoop, StopManager,
     JoinCollector, ClearStreams, CloseInterface, QuitClient, JoinSender,
     DeleteClient, CloseManage, FinitConfig, FinitStream, FinitInterface, Exit,
     OnlyUsage, Interrupt, Reload, Listen, ListenerEnds, Accept, ReadConfig,
     Create, Get, Start, Stop, Return, Collect, GetClient, Push, StreamEnds,
     Send, SenderEnds

IInv ==
  TypeOK /\ Order /\ Pushing /\ QuietIsSafe /\ ClientsOutliveManagers

LEMMA Invariance == Spec => []IInv
<1>1. Init => IInv
  <2> SUFFICES ASSUME Init PROVE IInv
    OBVIOUS
  <2>1. at = 1 /\ proc = "alive"
    BY DEF Init
  <2>2. at \in DOMAIN Program
    BY <2>1, Domain
  <2>3. sign \in BOOLEAN
    BY Zenon DEF Init
  <2>4. TypeOK
    BY <2>2, <2>3, LauncherAssumption DEF Init, TypeOK
  <2>5. Order /\ Pushing
    BY <2>1 DEF Init, Order, Collectors, Managers, Clients, Pushing
  <2>6. QuietIsSafe /\ ClientsOutliveManagers
    BY <2>1 DEF QuietIsSafe, ClientsOutliveManagers, Faults
  <2> QED
    BY <2>4, <2>5, <2>6 DEF IInv
<1>2. IInv /\ [Next]_vars => IInv'
  <2> SUFFICES ASSUME IInv, [Next]_vars PROVE IInv'
    OBVIOUS
  <2>1. TypeOK' /\ Order' /\ Pushing'
    BY TypesStep, OrderStep, PushingStep DEF IInv
  <2>2. QuietIsSafe' /\ ClientsOutliveManagers'
    <3>1. CASE proc' # proc
      BY <3>1, FailStep DEF IInv
    <3>2. CASE proc' = proc /\ proc = "alive"
      BY <3>2 DEF QuietIsSafe, ClientsOutliveManagers, Faults
    <3>3. CASE proc # "alive"
      <4>1. UNCHANGED vars
        BY <3>3, Dead
      <4> QED
        BY <4>1
        DEF IInv, vars, QuietIsSafe, ClientsOutliveManagers, Busy, Joinable,
            http, handlers, workers, manager
    <3> QED
      BY <3>1, <3>2, <3>3
  <2> QED
    BY <2>1, <2>2 DEF IInv
<1> QED
  BY <1>1, <1>2, PTL DEF Spec

(* The types.                                                              *)
THEOREM TypesCorrect == Spec => []TypeOK
BY Invariance, PTL DEF IInv

(* main.cpp and Launcher.cpp with any number of requests and streams: the  *)
(* process fails only while a stream's thread is not joined, a request is  *)
(* in progress or the HTTP listener has not ended.                         *)
THEOREM SafeWhenQuiet == Spec => []QuietIsSafe
BY Invariance, PTL DEF IInv

(* A callback meets a deleted HttpClient only after both managers have     *)
(* been closed.                                                            *)
THEOREM ClientsLast == Spec => []ClientsOutliveManagers
BY Invariance, PTL DEF IInv

(* While main is in the loop of Launcher::open the order of the services   *)
(* costs no callback: every report finds a client, and no client goes with *)
(* callbacks in its queue.  A full queue and requests that fail still do.  *)
THEOREM NoneLostToTheOrder == Spec => LostAtTheEdges
<1> DEFINE Kept == /\ lost'.noClient = lost.noClient
                   /\ lost'.withClient = lost.withClient
<1>1. ASSUME IInv, [Next]_vars, Program[at] = "loop" PROVE Kept
  <2>0. at \in 1..28
    BY <1>1, Domain DEF IInv, TypeOK
  <2>1. CASE \E s \in Stream, c \in Callback : GetClient(s, c)
    <3>1. \A c \in Callback : client[c] # "null"
      BY <1>1, <2>0, Places DEF IInv, Order, Clients
    <3> QED
      BY <2>1, <3>1 DEF GetClient
  <2>2. CASE \E c \in Callback : DeleteClient(c)
    BY <1>1, <2>0, <2>2, Places, PlacesOf DEF DeleteClient, At, Callback
  <2>3. \/ UNCHANGED lost
        \/ \E s \in Stream, c \in Callback : GetClient(s, c)
        \/ \E c \in Callback : DeleteClient(c)
    BY <1>1
    DEF Next, Main, Pool, Fails, clients, vars, InitStream, InitRest,
        OpenStream, OpenInterface, OpenClient, Register, SetSign, LeaveLoop,
        StopManager, JoinCollector, ClearStreams, DropMaps, CloseInterface,
        QuitClient, JoinSender, CloseManage, FinitConfig, FinitStream,
        FinitInterface, Exit, OnlyUsage, Interrupt, Reload, Listen,
        ListenerEnds, Accept, ReadConfig, Create, Get, Start, Stop, Return,
        Collect, Push, StreamEnds, Send, SenderEnds
  <2> QED
    BY <2>1, <2>2, <2>3
<1> QED
  BY <1>1, Invariance, PTL DEF Spec, LostAtTheEdges
=============================================================================
