------------------------ MODULE SpawnProtocolProofs ------------------------
(***************************************************************************)
(* What SpawnProtocol promises, for every number of clients, servers,      *)
(* checkout moves and faults.                                              *)
(***************************************************************************)
EXTENDS SpawnProtocol, TLAPS

-----------------------------------------------------------------------------
(* The inductive invariants.                                               *)

\* Every spawn under way is guarded by the one lock file.
LockInv ==
    /\ lockFile # "stale"
    /\ \A c \in Clients : client[c] \notin {"removing", "reclaiming"}
    /\ InFlight # {} => lockFile = "fresh"
    /\ AtMostOneSpawn

\* The server that server.json names published it and has not closed since.
PublishedInv ==
    infoFile # NoInfo =>
      server[infoFile.pid] \in
          {"published", "serving", "closing", "unpublishing", "crashed"}

\* Versions only come from the checkout, which only moves on.
VersionInv ==
    /\ infoFile # NoInfo => infoFile.version <= checkout
    /\ \A s \in Servers : label[s] <= checkout
    /\ \A c \in Clients : snapshot[c] # NoInfo => snapshot[c].version <= checkout

\* A server that no longer serves the checkout, for good.
Gone(info) ==
    info # NoInfo =>
      \/ info.version < checkout
      \/ server[info.pid] \in {"off", "crashed"}

\* A client reads of a server only once it has published, and one that means to
\* spawn was right to give up on the server it read of.
JudgedInv ==
    \A c \in Clients :
      /\ snapshot[c] # NoInfo =>
           server[snapshot[c].pid] \notin {"starting", "loaded", "bound"}
      /\ client[c] \in {"retiring", "claiming", "contended", "removing", "reclaiming",
                        "holding", "spawning"}
           => Gone(snapshot[c])


-----------------------------------------------------------------------------
(* Types.                                                                  *)

LEMMA NoInfoIsNoRecord == NoInfo \notin Info
  BY ConstantsAssumption DEF Info

\* Every variable keeps its type, so no step can read a field of an absent
\* server.json or leave a process in a place the code does not have.
THEOREM TypeCorrect == Spec => []TypeOK
<1>1. Init => TypeOK
  BY ConstantsAssumption DEF Init, TypeOK, ServerPhase, ClientPhase, CtlPhase
<1>2. TypeOK /\ [Next]_vars => TypeOK'
  <2> SUFFICES ASSUME TypeOK, [Next]_vars
               PROVE  TypeOK'
    OBVIOUS
  <2> USE ConstantsAssumption
  <2>1. ASSUME NEW c \in Clients, ReadInfo(c)
        PROVE TypeOK'
    BY <2>1 DEF ReadInfo, TypeOK, Info, ServerPhase, ClientPhase, CtlPhase, serverVars, clientVars, ctlVars
  <2>2. ASSUME NEW c \in Clients, Classify(c)
        PROVE TypeOK'
    BY <2>2 DEF Classify, Goto, TypeOK, Info, ServerPhase, ClientPhase, CtlPhase, serverVars, clientVars, ctlVars
  <2>3. ASSUME NEW c \in Clients, SendRequest(c)
        PROVE TypeOK'
    BY <2>3 DEF SendRequest, Goto, Deliver, TypeOK, Info, ServerPhase, ClientPhase, CtlPhase, serverVars, clientVars, ctlVars
  <2>4. ASSUME NEW c \in Clients, TimeOut(c)
        PROVE TypeOK'
    BY <2>4 DEF TimeOut, Goto, Leave, TypeOK, Info, ServerPhase, ClientPhase, CtlPhase, serverVars, clientVars, ctlVars
  <2>5. ASSUME NEW c \in Clients, PrintReply(c)
        PROVE TypeOK'
    BY <2>5 DEF PrintReply, Leave, TypeOK, Info, ServerPhase, ClientPhase, CtlPhase, serverVars, clientVars, ctlVars
  <2>6. ASSUME NEW c \in Clients, RetireServer(c)
        PROVE TypeOK'
    BY <2>6 DEF RetireServer, Goto, Deliver, TypeOK, Info, ServerPhase, ClientPhase, CtlPhase, serverVars, clientVars, ctlVars
  <2>7. ASSUME NEW c \in Clients, ClaimLock(c)
        PROVE TypeOK'
    BY <2>7 DEF ClaimLock, Goto, TypeOK, Info, ServerPhase, ClientPhase, CtlPhase, serverVars, clientVars, ctlVars
  <2>8. ASSUME NEW c \in Clients, CheckStale(c)
        PROVE TypeOK'
    BY <2>8 DEF CheckStale, Goto, Leave, TypeOK, Info, ServerPhase, ClientPhase, CtlPhase, serverVars, clientVars, ctlVars
  <2>9. ASSUME NEW c \in Clients, RemoveStaleLock(c)
        PROVE TypeOK'
    BY <2>9 DEF RemoveStaleLock, Goto, TypeOK, Info, ServerPhase, ClientPhase, CtlPhase, serverVars, clientVars, ctlVars
  <2>10. ASSUME NEW c \in Clients, ReclaimLock(c)
        PROVE TypeOK'
    BY <2>10 DEF ReclaimLock, Goto, Leave, TypeOK, Info, ServerPhase, ClientPhase, CtlPhase, serverVars, clientVars, ctlVars
  <2>11. ASSUME NEW c \in Clients, Recheck(c)
        PROVE TypeOK'
    BY <2>11 DEF Recheck, Goto, TypeOK, Info, ServerPhase, ClientPhase, CtlPhase, serverVars, clientVars, ctlVars
  <2>12. ASSUME NEW c \in Clients, ReleaseLock(c)
        PROVE TypeOK'
    BY <2>12 DEF ReleaseLock, Leave, TypeOK, Info, ServerPhase, ClientPhase, CtlPhase, serverVars, clientVars, ctlVars
  <2>13. ASSUME NEW c \in Clients, SpawnFails(c)
        PROVE TypeOK'
    BY <2>13 DEF SpawnFails, Goto, TypeOK, Info, ServerPhase, ClientPhase, CtlPhase, serverVars, clientVars, ctlVars
  <2>14. ASSUME NEW c \in Clients, KillClient(c)
        PROVE TypeOK'
    BY <2>14 DEF KillClient, Leave, TypeOK, Info, ServerPhase, ClientPhase, CtlPhase, serverVars, clientVars, ctlVars
  <2>15. ASSUME NEW c \in Clients, NEW s \in Servers, Spawn(c, s)
        PROVE TypeOK'
    BY <2>15 DEF Spawn, TypeOK, Info, ServerPhase, ClientPhase, CtlPhase, serverVars, clientVars, ctlVars
  <2>16. ASSUME NEW s \in Servers, Import(s)
        PROVE TypeOK'
    BY <2>16 DEF Import, TypeOK, Info, ServerPhase, ClientPhase, CtlPhase, serverVars, clientVars, ctlVars
  <2>17. ASSUME NEW s \in Servers, Bind(s)
        PROVE TypeOK'
    BY <2>17 DEF Bind, TypeOK, Info, ServerPhase, ClientPhase, CtlPhase, serverVars, clientVars, ctlVars
  <2>18. ASSUME NEW s \in Servers, PublishInfo(s)
        PROVE TypeOK'
    BY <2>18 DEF PublishInfo, TypeOK, Info, ServerPhase, ClientPhase, CtlPhase, serverVars, clientVars, ctlVars
  <2>19. ASSUME NEW s \in Servers, ClearSpawnLock(s)
        PROVE TypeOK'
    BY <2>19 DEF ClearSpawnLock, TypeOK, Info, ServerPhase, ClientPhase, CtlPhase, serverVars, clientVars, ctlVars
  <2>20. ASSUME NEW s \in Servers, HandleShutdown(s)
        PROVE TypeOK'
    BY <2>20 DEF HandleShutdown, TypeOK, Info, ServerPhase, ClientPhase, CtlPhase, serverVars, clientVars, ctlVars
  <2>21. ASSUME NEW s \in Servers, IdleExit(s)
        PROVE TypeOK'
    BY <2>21 DEF IdleExit, TypeOK, Info, ServerPhase, ClientPhase, CtlPhase, serverVars, clientVars, ctlVars
  <2>22. ASSUME NEW s \in Servers, CloseReadsInfo(s)
        PROVE TypeOK'
    BY <2>22 DEF CloseReadsInfo, TypeOK, Info, ServerPhase, ClientPhase, CtlPhase, serverVars, clientVars, ctlVars
  <2>23. ASSUME NEW s \in Servers, CloseRemovesInfo(s)
        PROVE TypeOK'
    BY <2>23 DEF CloseRemovesInfo, TypeOK, Info, ServerPhase, ClientPhase, CtlPhase, serverVars, clientVars, ctlVars
  <2>24. ASSUME NEW s \in Servers, CloseSocket(s)
        PROVE TypeOK'
    BY <2>24 DEF CloseSocket, TypeOK, Info, ServerPhase, ClientPhase, CtlPhase, serverVars, clientVars, ctlVars
  <2>25. ASSUME NEW s \in Servers, CrashServer(s)
        PROVE TypeOK'
    BY <2>25 DEF CrashServer, TypeOK, Info, ServerPhase, ClientPhase, CtlPhase, serverVars, clientVars, ctlVars
  <2>26. ASSUME NEW s \in Servers, NEW c \in Clients, HandleRequest(s, c)
        PROVE TypeOK'
    BY <2>26 DEF HandleRequest, Goto, TypeOK, Info, ServerPhase, ClientPhase, CtlPhase, serverVars, clientVars, ctlVars
  <2>27. CASE CtlReadInfo
    BY <2>27 DEF CtlReadInfo, TypeOK, Info, ServerPhase, ClientPhase, CtlPhase, serverVars, clientVars, ctlVars
  <2>28. CASE CtlRequestShutdown
    BY <2>28 DEF CtlRequestShutdown, Deliver, TypeOK, Info, ServerPhase, ClientPhase, CtlPhase, serverVars, clientVars, ctlVars
  <2>29. CASE CtlPoll
    BY <2>29 DEF CtlPoll, TypeOK, Info, ServerPhase, ClientPhase, CtlPhase, serverVars, clientVars, ctlVars
  <2>30. CASE CtlReport
    BY <2>30 DEF CtlReport, TypeOK, Info, ServerPhase, ClientPhase, CtlPhase, serverVars, clientVars, ctlVars
  <2>31. CASE MoveCheckout
    BY <2>31 DEF MoveCheckout, TypeOK, Info, ServerPhase, ClientPhase, CtlPhase, serverVars, clientVars, ctlVars
  <2>32. CASE LockAges
    BY <2>32 DEF LockAges, TypeOK, Info, ServerPhase, ClientPhase, CtlPhase, serverVars, clientVars, ctlVars
  <2>33. CASE UNCHANGED vars
    BY <2>33 DEF vars, TypeOK, Info, ServerPhase, ClientPhase, CtlPhase, serverVars, clientVars, ctlVars
  <2>34. QED
    BY <2>1, <2>2, <2>3, <2>4, <2>5, <2>6, <2>7, <2>8, <2>9, <2>10, <2>11,
       <2>12, <2>13, <2>14, <2>15, <2>16, <2>17, <2>18, <2>19, <2>20, <2>21,
       <2>22, <2>23, <2>24, <2>25, <2>26, <2>27, <2>28, <2>29, <2>30, <2>31,
       <2>32, <2>33
       DEF Next, ClientStep, ServerStep
<1>3. QED
  BY <1>1, <1>2, PTL DEF Spec

-----------------------------------------------------------------------------
(* One spawn at a time.                                                    *)

\* While no lock goes stale, at most one spawn is under way (ensure_server:
\* "at most one across every racing client").
THEOREM SpawnExclusion ==
  ASSUME Aging = "never"
  PROVE  Spec => [](LockInv /\ AtMostOneSpawn)
<1> USE DEF AtMostOneSpawn, InFlight
<1>1. Init => LockInv
  BY DEF Init, LockInv
<1>2. TypeOK /\ LockInv /\ [Next]_vars => LockInv'
  <2> SUFFICES ASSUME TypeOK, LockInv, [Next]_vars
               PROVE  LockInv'
    OBVIOUS
  <2> USE ConstantsAssumption DEF TypeOK, LockInv
  <2>1. ASSUME NEW c \in Clients, ReadInfo(c)
        PROVE LockInv'
    BY <2>1 DEF ReadInfo, serverVars, clientVars, ctlVars
  <2>2. ASSUME NEW c \in Clients, Classify(c)
        PROVE LockInv'
    BY <2>2 DEF Classify, Goto, serverVars, clientVars, ctlVars
  <2>3. ASSUME NEW c \in Clients, SendRequest(c)
        PROVE LockInv'
    BY <2>3 DEF SendRequest, Goto, Deliver, serverVars, clientVars, ctlVars
  <2>4. ASSUME NEW c \in Clients, TimeOut(c)
        PROVE LockInv'
    BY <2>4 DEF TimeOut, Goto, Leave, serverVars, clientVars, ctlVars
  <2>5. ASSUME NEW c \in Clients, PrintReply(c)
        PROVE LockInv'
    BY <2>5 DEF PrintReply, Leave, serverVars, clientVars, ctlVars
  <2>6. ASSUME NEW c \in Clients, RetireServer(c)
        PROVE LockInv'
    BY <2>6 DEF RetireServer, Goto, Deliver, serverVars, clientVars, ctlVars
  <2>7. ASSUME NEW c \in Clients, ClaimLock(c)
        PROVE LockInv'
    BY <2>7 DEF ClaimLock, Goto, serverVars, clientVars, ctlVars
  <2>8. ASSUME NEW c \in Clients, CheckStale(c)
        PROVE LockInv'
    BY <2>8 DEF CheckStale, Goto, Leave, serverVars, clientVars, ctlVars
  <2>9. ASSUME NEW c \in Clients, RemoveStaleLock(c)
        PROVE LockInv'
    BY <2>9 DEF RemoveStaleLock, Goto, serverVars, clientVars, ctlVars
  <2>10. ASSUME NEW c \in Clients, ReclaimLock(c)
        PROVE LockInv'
    BY <2>10 DEF ReclaimLock, Goto, Leave, serverVars, clientVars, ctlVars
  <2>11. ASSUME NEW c \in Clients, Recheck(c)
        PROVE LockInv'
    BY <2>11 DEF Recheck, Goto, serverVars, clientVars, ctlVars
  <2>12. ASSUME NEW c \in Clients, ReleaseLock(c)
        PROVE LockInv'
    BY <2>12 DEF ReleaseLock, Leave, serverVars, clientVars, ctlVars
  <2>13. ASSUME NEW c \in Clients, SpawnFails(c)
        PROVE LockInv'
    BY <2>13 DEF SpawnFails, Goto, serverVars, clientVars, ctlVars
  <2>14. ASSUME NEW c \in Clients, KillClient(c)
        PROVE LockInv'
    BY <2>14 DEF KillClient, Leave, serverVars, clientVars, ctlVars
  <2>15. ASSUME NEW c \in Clients, NEW s \in Servers, Spawn(c, s)
        PROVE LockInv'
    BY <2>15 DEF Spawn, serverVars, clientVars, ctlVars
  <2>16. ASSUME NEW s \in Servers, Import(s)
        PROVE LockInv'
    BY <2>16 DEF Import, serverVars, clientVars, ctlVars
  <2>17. ASSUME NEW s \in Servers, Bind(s)
        PROVE LockInv'
    BY <2>17 DEF Bind, serverVars, clientVars, ctlVars
  <2>18. ASSUME NEW s \in Servers, PublishInfo(s)
        PROVE LockInv'
    BY <2>18 DEF PublishInfo, serverVars, clientVars, ctlVars
  <2>19. ASSUME NEW s \in Servers, ClearSpawnLock(s)
        PROVE LockInv'
    BY <2>19 DEF ClearSpawnLock, serverVars, clientVars, ctlVars
  <2>20. ASSUME NEW s \in Servers, HandleShutdown(s)
        PROVE LockInv'
    BY <2>20 DEF HandleShutdown, serverVars, clientVars, ctlVars
  <2>21. ASSUME NEW s \in Servers, IdleExit(s)
        PROVE LockInv'
    BY <2>21 DEF IdleExit, serverVars, clientVars, ctlVars
  <2>22. ASSUME NEW s \in Servers, CloseReadsInfo(s)
        PROVE LockInv'
    BY <2>22 DEF CloseReadsInfo, serverVars, clientVars, ctlVars
  <2>23. ASSUME NEW s \in Servers, CloseRemovesInfo(s)
        PROVE LockInv'
    BY <2>23 DEF CloseRemovesInfo, serverVars, clientVars, ctlVars
  <2>24. ASSUME NEW s \in Servers, CloseSocket(s)
        PROVE LockInv'
    BY <2>24 DEF CloseSocket, serverVars, clientVars, ctlVars
  <2>25. ASSUME NEW s \in Servers, CrashServer(s)
        PROVE LockInv'
    BY <2>25 DEF CrashServer, serverVars, clientVars, ctlVars
  <2>26. ASSUME NEW s \in Servers, NEW c \in Clients, HandleRequest(s, c)
        PROVE LockInv'
    BY <2>26 DEF HandleRequest, Goto, serverVars, clientVars, ctlVars
  <2>27. CASE CtlReadInfo
    BY <2>27 DEF CtlReadInfo, serverVars, clientVars, ctlVars
  <2>28. CASE CtlRequestShutdown
    BY <2>28 DEF CtlRequestShutdown, Deliver, serverVars, clientVars, ctlVars
  <2>29. CASE CtlPoll
    BY <2>29 DEF CtlPoll, serverVars, clientVars, ctlVars
  <2>30. CASE CtlReport
    BY <2>30 DEF CtlReport, serverVars, clientVars, ctlVars
  <2>31. CASE MoveCheckout
    BY <2>31 DEF MoveCheckout, serverVars, clientVars, ctlVars
  <2>32. CASE LockAges
    BY <2>32 DEF LockAges, serverVars, clientVars, ctlVars
  <2>33. CASE UNCHANGED vars
    BY <2>33 DEF vars, serverVars, clientVars, ctlVars
  <2>34. QED
    BY <2>1, <2>2, <2>3, <2>4, <2>5, <2>6, <2>7, <2>8, <2>9, <2>10, <2>11,
       <2>12, <2>13, <2>14, <2>15, <2>16, <2>17, <2>18, <2>19, <2>20, <2>21,
       <2>22, <2>23, <2>24, <2>25, <2>26, <2>27, <2>28, <2>29, <2>30, <2>31,
       <2>32, <2>33
       DEF Next, ClientStep, ServerStep
<1>3. QED
  BY <1>1, <1>2, TypeCorrect, PTL DEF Spec, LockInv

-----------------------------------------------------------------------------
(* server.json after a clean exit.                                         *)

\* A server that closes of its own accord leaves no server.json naming it.
THEOREM CleanExit == Spec => [](PublishedInv /\ CleanExitUnpublishes)
<1>1. Init => PublishedInv
  BY DEF Init, PublishedInv
<1>2. TypeOK /\ PublishedInv /\ [Next]_vars => PublishedInv'
  <2> SUFFICES ASSUME TypeOK, PublishedInv, [Next]_vars
               PROVE  PublishedInv'
    OBVIOUS
  <2> USE ConstantsAssumption, NoInfoIsNoRecord DEF TypeOK, PublishedInv, Info
  <2>1. ASSUME NEW c \in Clients, ReadInfo(c)
        PROVE PublishedInv'
    BY <2>1 DEF ReadInfo, serverVars, clientVars, ctlVars
  <2>2. ASSUME NEW c \in Clients, Classify(c)
        PROVE PublishedInv'
    BY <2>2 DEF Classify, Goto, serverVars, clientVars, ctlVars
  <2>3. ASSUME NEW c \in Clients, SendRequest(c)
        PROVE PublishedInv'
    BY <2>3 DEF SendRequest, Goto, Deliver, serverVars, clientVars, ctlVars
  <2>4. ASSUME NEW c \in Clients, TimeOut(c)
        PROVE PublishedInv'
    BY <2>4 DEF TimeOut, Goto, Leave, serverVars, clientVars, ctlVars
  <2>5. ASSUME NEW c \in Clients, PrintReply(c)
        PROVE PublishedInv'
    BY <2>5 DEF PrintReply, Leave, serverVars, clientVars, ctlVars
  <2>6. ASSUME NEW c \in Clients, RetireServer(c)
        PROVE PublishedInv'
    BY <2>6 DEF RetireServer, Goto, Deliver, serverVars, clientVars, ctlVars
  <2>7. ASSUME NEW c \in Clients, ClaimLock(c)
        PROVE PublishedInv'
    BY <2>7 DEF ClaimLock, Goto, serverVars, clientVars, ctlVars
  <2>8. ASSUME NEW c \in Clients, CheckStale(c)
        PROVE PublishedInv'
    BY <2>8 DEF CheckStale, Goto, Leave, serverVars, clientVars, ctlVars
  <2>9. ASSUME NEW c \in Clients, RemoveStaleLock(c)
        PROVE PublishedInv'
    BY <2>9 DEF RemoveStaleLock, Goto, serverVars, clientVars, ctlVars
  <2>10. ASSUME NEW c \in Clients, ReclaimLock(c)
        PROVE PublishedInv'
    BY <2>10 DEF ReclaimLock, Goto, Leave, serverVars, clientVars, ctlVars
  <2>11. ASSUME NEW c \in Clients, Recheck(c)
        PROVE PublishedInv'
    BY <2>11 DEF Recheck, Goto, serverVars, clientVars, ctlVars
  <2>12. ASSUME NEW c \in Clients, ReleaseLock(c)
        PROVE PublishedInv'
    BY <2>12 DEF ReleaseLock, Leave, serverVars, clientVars, ctlVars
  <2>13. ASSUME NEW c \in Clients, SpawnFails(c)
        PROVE PublishedInv'
    BY <2>13 DEF SpawnFails, Goto, serverVars, clientVars, ctlVars
  <2>14. ASSUME NEW c \in Clients, KillClient(c)
        PROVE PublishedInv'
    BY <2>14 DEF KillClient, Leave, serverVars, clientVars, ctlVars
  <2>15. ASSUME NEW c \in Clients, NEW s \in Servers, Spawn(c, s)
        PROVE PublishedInv'
    BY <2>15 DEF Spawn, serverVars, clientVars, ctlVars, Named
  <2>16. ASSUME NEW s \in Servers, Import(s)
        PROVE PublishedInv'
    BY <2>16 DEF Import, serverVars, clientVars, ctlVars
  <2>17. ASSUME NEW s \in Servers, Bind(s)
        PROVE PublishedInv'
    BY <2>17 DEF Bind, serverVars, clientVars, ctlVars
  <2>18. ASSUME NEW s \in Servers, PublishInfo(s)
        PROVE PublishedInv'
    BY <2>18 DEF PublishInfo, serverVars, clientVars, ctlVars
  <2>19. ASSUME NEW s \in Servers, ClearSpawnLock(s)
        PROVE PublishedInv'
    BY <2>19 DEF ClearSpawnLock, serverVars, clientVars, ctlVars
  <2>20. ASSUME NEW s \in Servers, HandleShutdown(s)
        PROVE PublishedInv'
    BY <2>20 DEF HandleShutdown, serverVars, clientVars, ctlVars
  <2>21. ASSUME NEW s \in Servers, IdleExit(s)
        PROVE PublishedInv'
    BY <2>21 DEF IdleExit, serverVars, clientVars, ctlVars
  <2>22. ASSUME NEW s \in Servers, CloseReadsInfo(s)
        PROVE PublishedInv'
    BY <2>22 DEF CloseReadsInfo, serverVars, clientVars, ctlVars
  <2>23. ASSUME NEW s \in Servers, CloseRemovesInfo(s)
        PROVE PublishedInv'
    BY <2>23 DEF CloseRemovesInfo, serverVars, clientVars, ctlVars
  <2>24. ASSUME NEW s \in Servers, CloseSocket(s)
        PROVE PublishedInv'
    BY <2>24 DEF CloseSocket, serverVars, clientVars, ctlVars
  <2>25. ASSUME NEW s \in Servers, CrashServer(s)
        PROVE PublishedInv'
    BY <2>25 DEF CrashServer, serverVars, clientVars, ctlVars
  <2>26. ASSUME NEW s \in Servers, NEW c \in Clients, HandleRequest(s, c)
        PROVE PublishedInv'
    BY <2>26 DEF HandleRequest, Goto, serverVars, clientVars, ctlVars
  <2>27. CASE CtlReadInfo
    BY <2>27 DEF CtlReadInfo, serverVars, clientVars, ctlVars
  <2>28. CASE CtlRequestShutdown
    BY <2>28 DEF CtlRequestShutdown, Deliver, serverVars, clientVars, ctlVars
  <2>29. CASE CtlPoll
    BY <2>29 DEF CtlPoll, serverVars, clientVars, ctlVars
  <2>30. CASE CtlReport
    BY <2>30 DEF CtlReport, serverVars, clientVars, ctlVars
  <2>31. CASE MoveCheckout
    BY <2>31 DEF MoveCheckout, serverVars, clientVars, ctlVars
  <2>32. CASE LockAges
    BY <2>32 DEF LockAges, serverVars, clientVars, ctlVars
  <2>33. CASE UNCHANGED vars
    BY <2>33 DEF vars, serverVars, clientVars, ctlVars
  <2>34. QED
    BY <2>1, <2>2, <2>3, <2>4, <2>5, <2>6, <2>7, <2>8, <2>9, <2>10, <2>11,
       <2>12, <2>13, <2>14, <2>15, <2>16, <2>17, <2>18, <2>19, <2>20, <2>21,
       <2>22, <2>23, <2>24, <2>25, <2>26, <2>27, <2>28, <2>29, <2>30, <2>31,
       <2>32, <2>33
       DEF Next, ClientStep, ServerStep
<1>3. PublishedInv => CleanExitUnpublishes
  BY DEF PublishedInv, CleanExitUnpublishes
<1>4. QED
  BY <1>1, <1>2, <1>3, TypeCorrect, PTL DEF Spec

-----------------------------------------------------------------------------
(* No pile-up.                                                             *)

\* No version is ahead of the checkout.
LEMMA VersionsBehind == Spec => []VersionInv
<1>1. Init => VersionInv
  BY ConstantsAssumption DEF Init, VersionInv
<1>2. TypeOK /\ VersionInv /\ [Next]_vars => VersionInv'
  <2> SUFFICES ASSUME TypeOK, VersionInv, [Next]_vars
               PROVE  VersionInv'
    OBVIOUS
  <2> USE ConstantsAssumption, NoInfoIsNoRecord DEF TypeOK, VersionInv, Info
  <2>1. ASSUME NEW c \in Clients, ReadInfo(c)
        PROVE VersionInv'
    BY <2>1 DEF ReadInfo, serverVars, clientVars, ctlVars
  <2>2. ASSUME NEW c \in Clients, Classify(c)
        PROVE VersionInv'
    BY <2>2 DEF Classify, Goto, serverVars, clientVars, ctlVars
  <2>3. ASSUME NEW c \in Clients, SendRequest(c)
        PROVE VersionInv'
    BY <2>3 DEF SendRequest, Goto, Deliver, serverVars, clientVars, ctlVars
  <2>4. ASSUME NEW c \in Clients, TimeOut(c)
        PROVE VersionInv'
    BY <2>4 DEF TimeOut, Goto, Leave, serverVars, clientVars, ctlVars
  <2>5. ASSUME NEW c \in Clients, PrintReply(c)
        PROVE VersionInv'
    BY <2>5 DEF PrintReply, Leave, serverVars, clientVars, ctlVars
  <2>6. ASSUME NEW c \in Clients, RetireServer(c)
        PROVE VersionInv'
    BY <2>6 DEF RetireServer, Goto, Deliver, serverVars, clientVars, ctlVars
  <2>7. ASSUME NEW c \in Clients, ClaimLock(c)
        PROVE VersionInv'
    BY <2>7 DEF ClaimLock, Goto, serverVars, clientVars, ctlVars
  <2>8. ASSUME NEW c \in Clients, CheckStale(c)
        PROVE VersionInv'
    BY <2>8 DEF CheckStale, Goto, Leave, serverVars, clientVars, ctlVars
  <2>9. ASSUME NEW c \in Clients, RemoveStaleLock(c)
        PROVE VersionInv'
    BY <2>9 DEF RemoveStaleLock, Goto, serverVars, clientVars, ctlVars
  <2>10. ASSUME NEW c \in Clients, ReclaimLock(c)
        PROVE VersionInv'
    BY <2>10 DEF ReclaimLock, Goto, Leave, serverVars, clientVars, ctlVars
  <2>11. ASSUME NEW c \in Clients, Recheck(c)
        PROVE VersionInv'
    BY <2>11 DEF Recheck, Goto, serverVars, clientVars, ctlVars
  <2>12. ASSUME NEW c \in Clients, ReleaseLock(c)
        PROVE VersionInv'
    BY <2>12 DEF ReleaseLock, Leave, serverVars, clientVars, ctlVars
  <2>13. ASSUME NEW c \in Clients, SpawnFails(c)
        PROVE VersionInv'
    BY <2>13 DEF SpawnFails, Goto, serverVars, clientVars, ctlVars
  <2>14. ASSUME NEW c \in Clients, KillClient(c)
        PROVE VersionInv'
    BY <2>14 DEF KillClient, Leave, serverVars, clientVars, ctlVars
  <2>15. ASSUME NEW c \in Clients, NEW s \in Servers, Spawn(c, s)
        PROVE VersionInv'
    BY <2>15 DEF Spawn, serverVars, clientVars, ctlVars
  <2>16. ASSUME NEW s \in Servers, Import(s)
        PROVE VersionInv'
    BY <2>16 DEF Import, serverVars, clientVars, ctlVars
  <2>17. ASSUME NEW s \in Servers, Bind(s)
        PROVE VersionInv'
    BY <2>17 DEF Bind, serverVars, clientVars, ctlVars
  <2>18. ASSUME NEW s \in Servers, PublishInfo(s)
        PROVE VersionInv'
    BY <2>18 DEF PublishInfo, serverVars, clientVars, ctlVars
  <2>19. ASSUME NEW s \in Servers, ClearSpawnLock(s)
        PROVE VersionInv'
    BY <2>19 DEF ClearSpawnLock, serverVars, clientVars, ctlVars
  <2>20. ASSUME NEW s \in Servers, HandleShutdown(s)
        PROVE VersionInv'
    BY <2>20 DEF HandleShutdown, serverVars, clientVars, ctlVars
  <2>21. ASSUME NEW s \in Servers, IdleExit(s)
        PROVE VersionInv'
    BY <2>21 DEF IdleExit, serverVars, clientVars, ctlVars
  <2>22. ASSUME NEW s \in Servers, CloseReadsInfo(s)
        PROVE VersionInv'
    BY <2>22 DEF CloseReadsInfo, serverVars, clientVars, ctlVars
  <2>23. ASSUME NEW s \in Servers, CloseRemovesInfo(s)
        PROVE VersionInv'
    BY <2>23 DEF CloseRemovesInfo, serverVars, clientVars, ctlVars
  <2>24. ASSUME NEW s \in Servers, CloseSocket(s)
        PROVE VersionInv'
    BY <2>24 DEF CloseSocket, serverVars, clientVars, ctlVars
  <2>25. ASSUME NEW s \in Servers, CrashServer(s)
        PROVE VersionInv'
    BY <2>25 DEF CrashServer, serverVars, clientVars, ctlVars
  <2>26. ASSUME NEW s \in Servers, NEW c \in Clients, HandleRequest(s, c)
        PROVE VersionInv'
    BY <2>26 DEF HandleRequest, Goto, serverVars, clientVars, ctlVars
  <2>27. CASE CtlReadInfo
    BY <2>27 DEF CtlReadInfo, serverVars, clientVars, ctlVars
  <2>28. CASE CtlRequestShutdown
    BY <2>28 DEF CtlRequestShutdown, Deliver, serverVars, clientVars, ctlVars
  <2>29. CASE CtlPoll
    BY <2>29 DEF CtlPoll, serverVars, clientVars, ctlVars
  <2>30. CASE CtlReport
    BY <2>30 DEF CtlReport, serverVars, clientVars, ctlVars
  <2>31. CASE MoveCheckout
    BY <2>31 DEF MoveCheckout, serverVars, clientVars, ctlVars
  <2>32. CASE LockAges
    BY <2>32 DEF LockAges, serverVars, clientVars, ctlVars
  <2>33. CASE UNCHANGED vars
    BY <2>33 DEF vars, serverVars, clientVars, ctlVars
  <2>34. QED
    BY <2>1, <2>2, <2>3, <2>4, <2>5, <2>6, <2>7, <2>8, <2>9, <2>10, <2>11,
       <2>12, <2>13, <2>14, <2>15, <2>16, <2>17, <2>18, <2>19, <2>20, <2>21,
       <2>22, <2>23, <2>24, <2>25, <2>26, <2>27, <2>28, <2>29, <2>30, <2>31,
       <2>32, <2>33
       DEF Next, ClientStep, ServerStep
<1>3. QED
  BY <1>1, <1>2, TypeCorrect, PTL DEF Spec

\* A client only ever gives up on a server that is gone for good.
LEMMA JudgedRightly == Spec => []JudgedInv
<1>1. Init => JudgedInv
  BY DEF Init, JudgedInv
<1>2. TypeOK /\ VersionInv /\ PublishedInv /\ JudgedInv /\ [Next]_vars => JudgedInv'
  <2> SUFFICES ASSUME TypeOK, VersionInv, PublishedInv, JudgedInv, [Next]_vars
               PROVE  JudgedInv'
    OBVIOUS
  <2> USE ConstantsAssumption, NoInfoIsNoRecord
      DEF TypeOK, VersionInv, JudgedInv, Gone, Info
  <2>1. ASSUME NEW c \in Clients, ReadInfo(c)
        PROVE JudgedInv'
    BY <2>1 DEF ReadInfo, serverVars, clientVars, ctlVars, PublishedInv
  <2>2. ASSUME NEW c \in Clients, Classify(c)
        PROVE JudgedInv'
    BY <2>2 DEF Classify, Goto, serverVars, clientVars, ctlVars
  <2>3. ASSUME NEW c \in Clients, SendRequest(c)
        PROVE JudgedInv'
    BY <2>3 DEF SendRequest, Goto, Deliver, serverVars, clientVars, ctlVars, Listening, ServerPhase
  <2>4. ASSUME NEW c \in Clients, TimeOut(c)
        PROVE JudgedInv'
    <3>1. CASE snapshot[c].version # checkout
      <4>1. snapshot[c] # NoInfo => snapshot[c].version < checkout
        BY <3>1
      <4>2. /\ client' = [client EXCEPT ![c] = "retiring"]
            /\ snapshot' = snapshot /\ server' = server /\ checkout' = checkout
        BY <2>4, <3>1 DEF TimeOut, Goto, clientVars
      <4>3. QED
        BY <4>1, <4>2
    <3>2. CASE snapshot[c].version = checkout
      <4>1. /\ client' = [client EXCEPT ![c] = "idle"]
            /\ snapshot' = [snapshot EXCEPT ![c] = NoInfo]
            /\ server' = server /\ checkout' = checkout
        BY <2>4, <3>2 DEF TimeOut, Leave
      <4>2. QED
        BY <4>1
    <3>3. QED
      BY <3>1, <3>2
  <2>5. ASSUME NEW c \in Clients, PrintReply(c)
        PROVE JudgedInv'
    BY <2>5 DEF PrintReply, Leave, serverVars, clientVars, ctlVars
  <2>6. ASSUME NEW c \in Clients, RetireServer(c)
        PROVE JudgedInv'
    BY <2>6 DEF RetireServer, Goto, Deliver, serverVars, clientVars, ctlVars
  <2>7. ASSUME NEW c \in Clients, ClaimLock(c)
        PROVE JudgedInv'
    BY <2>7 DEF ClaimLock, Goto, serverVars, clientVars, ctlVars
  <2>8. ASSUME NEW c \in Clients, CheckStale(c)
        PROVE JudgedInv'
    BY <2>8 DEF CheckStale, Goto, Leave, serverVars, clientVars, ctlVars
  <2>9. ASSUME NEW c \in Clients, RemoveStaleLock(c)
        PROVE JudgedInv'
    BY <2>9 DEF RemoveStaleLock, Goto, serverVars, clientVars, ctlVars
  <2>10. ASSUME NEW c \in Clients, ReclaimLock(c)
        PROVE JudgedInv'
    BY <2>10 DEF ReclaimLock, Goto, Leave, serverVars, clientVars, ctlVars
  <2>11. ASSUME NEW c \in Clients, Recheck(c)
        PROVE JudgedInv'
    BY <2>11 DEF Recheck, Goto, serverVars, clientVars, ctlVars
  <2>12. ASSUME NEW c \in Clients, ReleaseLock(c)
        PROVE JudgedInv'
    BY <2>12 DEF ReleaseLock, Leave, serverVars, clientVars, ctlVars
  <2>13. ASSUME NEW c \in Clients, SpawnFails(c)
        PROVE JudgedInv'
    BY <2>13 DEF SpawnFails, Goto, serverVars, clientVars, ctlVars
  <2>14. ASSUME NEW c \in Clients, KillClient(c)
        PROVE JudgedInv'
    BY <2>14 DEF KillClient, Leave, serverVars, clientVars, ctlVars
  <2>15. ASSUME NEW c \in Clients, NEW s \in Servers, Spawn(c, s)
        PROVE JudgedInv'
    BY <2>15 DEF Spawn, serverVars, clientVars, ctlVars, Named
  <2>16. ASSUME NEW s \in Servers, Import(s)
        PROVE JudgedInv'
    BY <2>16 DEF Import, serverVars, clientVars, ctlVars
  <2>17. ASSUME NEW s \in Servers, Bind(s)
        PROVE JudgedInv'
    BY <2>17 DEF Bind, serverVars, clientVars, ctlVars
  <2>18. ASSUME NEW s \in Servers, PublishInfo(s)
        PROVE JudgedInv'
    BY <2>18 DEF PublishInfo, serverVars, clientVars, ctlVars
  <2>19. ASSUME NEW s \in Servers, ClearSpawnLock(s)
        PROVE JudgedInv'
    BY <2>19 DEF ClearSpawnLock, serverVars, clientVars, ctlVars
  <2>20. ASSUME NEW s \in Servers, HandleShutdown(s)
        PROVE JudgedInv'
    BY <2>20 DEF HandleShutdown, serverVars, clientVars, ctlVars
  <2>21. ASSUME NEW s \in Servers, IdleExit(s)
        PROVE JudgedInv'
    BY <2>21 DEF IdleExit, serverVars, clientVars, ctlVars
  <2>22. ASSUME NEW s \in Servers, CloseReadsInfo(s)
        PROVE JudgedInv'
    BY <2>22 DEF CloseReadsInfo, serverVars, clientVars, ctlVars
  <2>23. ASSUME NEW s \in Servers, CloseRemovesInfo(s)
        PROVE JudgedInv'
    BY <2>23 DEF CloseRemovesInfo, serverVars, clientVars, ctlVars
  <2>24. ASSUME NEW s \in Servers, CloseSocket(s)
        PROVE JudgedInv'
    BY <2>24 DEF CloseSocket, serverVars, clientVars, ctlVars
  <2>25. ASSUME NEW s \in Servers, CrashServer(s)
        PROVE JudgedInv'
    BY <2>25 DEF CrashServer, serverVars, clientVars, ctlVars
  <2>26. ASSUME NEW s \in Servers, NEW c \in Clients, HandleRequest(s, c)
        PROVE JudgedInv'
    BY <2>26 DEF HandleRequest, Goto, serverVars, clientVars, ctlVars
  <2>27. CASE CtlReadInfo
    BY <2>27 DEF CtlReadInfo, serverVars, clientVars, ctlVars
  <2>28. CASE CtlRequestShutdown
    BY <2>28 DEF CtlRequestShutdown, Deliver, serverVars, clientVars, ctlVars
  <2>29. CASE CtlPoll
    BY <2>29 DEF CtlPoll, serverVars, clientVars, ctlVars
  <2>30. CASE CtlReport
    BY <2>30 DEF CtlReport, serverVars, clientVars, ctlVars
  <2>31. CASE MoveCheckout
    BY <2>31 DEF MoveCheckout, serverVars, clientVars, ctlVars
  <2>32. CASE LockAges
    BY <2>32 DEF LockAges, serverVars, clientVars, ctlVars
  <2>33. CASE UNCHANGED vars
    BY <2>33 DEF vars, serverVars, clientVars, ctlVars
  <2>34. QED
    BY <2>1, <2>2, <2>3, <2>4, <2>5, <2>6, <2>7, <2>8, <2>9, <2>10, <2>11,
       <2>12, <2>13, <2>14, <2>15, <2>16, <2>17, <2>18, <2>19, <2>20, <2>21,
       <2>22, <2>23, <2>24, <2>25, <2>26, <2>27, <2>28, <2>29, <2>30, <2>31,
       <2>32, <2>33
       DEF Next, ClientStep, ServerStep
<1>3. QED
  BY <1>1, <1>2, TypeCorrect, VersionsBehind, CleanExit, PTL DEF Spec

\* While no lock goes stale, nobody starts a server beside a healthy one
\* (ensure_server: "a second server then is the pile-up the lock exists to
\* prevent").
THEOREM NoPileUpEver ==
  ASSUME Aging = "never"
  PROVE  Spec => []NoPileUp
<1> USE DEF Healthy
<1>1. Init => NoPileUp
  BY DEF Init, NoPileUp
<1>2. /\ TypeOK /\ LockInv /\ VersionInv /\ JudgedInv /\ NoPileUp
      /\ [Next]_vars
      => NoPileUp'
  <2> SUFFICES ASSUME TypeOK, LockInv, VersionInv, JudgedInv, NoPileUp, [Next]_vars
               PROVE  NoPileUp'
    OBVIOUS
  <2> USE ConstantsAssumption, NoInfoIsNoRecord DEF TypeOK, NoPileUp, Info
  <2>1. ASSUME NEW c \in Clients, ReadInfo(c)
        PROVE NoPileUp'
    BY <2>1 DEF ReadInfo, serverVars, clientVars, ctlVars
  <2>2. ASSUME NEW c \in Clients, Classify(c)
        PROVE NoPileUp'
    BY <2>2 DEF Classify, Goto, serverVars, clientVars, ctlVars
  <2>3. ASSUME NEW c \in Clients, SendRequest(c)
        PROVE NoPileUp'
    BY <2>3 DEF SendRequest, Goto, Deliver, serverVars, clientVars, ctlVars
  <2>4. ASSUME NEW c \in Clients, TimeOut(c)
        PROVE NoPileUp'
    BY <2>4 DEF TimeOut, Goto, Leave, serverVars, clientVars, ctlVars
  <2>5. ASSUME NEW c \in Clients, PrintReply(c)
        PROVE NoPileUp'
    BY <2>5 DEF PrintReply, Leave, serverVars, clientVars, ctlVars
  <2>6. ASSUME NEW c \in Clients, RetireServer(c)
        PROVE NoPileUp'
    BY <2>6 DEF RetireServer, Goto, Deliver, serverVars, clientVars, ctlVars
  <2>7. ASSUME NEW c \in Clients, ClaimLock(c)
        PROVE NoPileUp'
    BY <2>7 DEF ClaimLock, Goto, serverVars, clientVars, ctlVars
  <2>8. ASSUME NEW c \in Clients, CheckStale(c)
        PROVE NoPileUp'
    BY <2>8 DEF CheckStale, Goto, Leave, serverVars, clientVars, ctlVars
  <2>9. ASSUME NEW c \in Clients, RemoveStaleLock(c)
        PROVE NoPileUp'
    BY <2>9 DEF RemoveStaleLock, Goto, serverVars, clientVars, ctlVars
  <2>10. ASSUME NEW c \in Clients, ReclaimLock(c)
        PROVE NoPileUp'
    BY <2>10 DEF ReclaimLock, Goto, Leave, serverVars, clientVars, ctlVars
  <2>11. ASSUME NEW c \in Clients, Recheck(c)
        PROVE NoPileUp'
    BY <2>11 DEF Recheck, Goto, serverVars, clientVars, ctlVars, JudgedInv, Gone
  <2>12. ASSUME NEW c \in Clients, ReleaseLock(c)
        PROVE NoPileUp'
    BY <2>12 DEF ReleaseLock, Leave, serverVars, clientVars, ctlVars
  <2>13. ASSUME NEW c \in Clients, SpawnFails(c)
        PROVE NoPileUp'
    BY <2>13 DEF SpawnFails, Goto, serverVars, clientVars, ctlVars
  <2>14. ASSUME NEW c \in Clients, KillClient(c)
        PROVE NoPileUp'
    BY <2>14 DEF KillClient, Leave, serverVars, clientVars, ctlVars
  <2>15. ASSUME NEW c \in Clients, NEW s \in Servers, Spawn(c, s)
        PROVE NoPileUp'
    BY <2>15 DEF Spawn, serverVars, clientVars, ctlVars, Named
  <2>16. ASSUME NEW s \in Servers, Import(s)
        PROVE NoPileUp'
    BY <2>16 DEF Import, serverVars, clientVars, ctlVars
  <2>17. ASSUME NEW s \in Servers, Bind(s)
        PROVE NoPileUp'
    BY <2>17 DEF Bind, serverVars, clientVars, ctlVars
  <2>18. ASSUME NEW s \in Servers, PublishInfo(s)
        PROVE NoPileUp'
    BY <2>18 DEF PublishInfo, serverVars, clientVars, ctlVars, LockInv, AtMostOneSpawn, InFlight, VersionInv
  <2>19. ASSUME NEW s \in Servers, ClearSpawnLock(s)
        PROVE NoPileUp'
    BY <2>19 DEF ClearSpawnLock, serverVars, clientVars, ctlVars
  <2>20. ASSUME NEW s \in Servers, HandleShutdown(s)
        PROVE NoPileUp'
    BY <2>20 DEF HandleShutdown, serverVars, clientVars, ctlVars
  <2>21. ASSUME NEW s \in Servers, IdleExit(s)
        PROVE NoPileUp'
    BY <2>21 DEF IdleExit, serverVars, clientVars, ctlVars
  <2>22. ASSUME NEW s \in Servers, CloseReadsInfo(s)
        PROVE NoPileUp'
    BY <2>22 DEF CloseReadsInfo, serverVars, clientVars, ctlVars
  <2>23. ASSUME NEW s \in Servers, CloseRemovesInfo(s)
        PROVE NoPileUp'
    BY <2>23 DEF CloseRemovesInfo, serverVars, clientVars, ctlVars
  <2>24. ASSUME NEW s \in Servers, CloseSocket(s)
        PROVE NoPileUp'
    BY <2>24 DEF CloseSocket, serverVars, clientVars, ctlVars
  <2>25. ASSUME NEW s \in Servers, CrashServer(s)
        PROVE NoPileUp'
    BY <2>25 DEF CrashServer, serverVars, clientVars, ctlVars
  <2>26. ASSUME NEW s \in Servers, NEW c \in Clients, HandleRequest(s, c)
        PROVE NoPileUp'
    BY <2>26 DEF HandleRequest, Goto, serverVars, clientVars, ctlVars
  <2>27. CASE CtlReadInfo
    BY <2>27 DEF CtlReadInfo, serverVars, clientVars, ctlVars
  <2>28. CASE CtlRequestShutdown
    BY <2>28 DEF CtlRequestShutdown, Deliver, serverVars, clientVars, ctlVars
  <2>29. CASE CtlPoll
    BY <2>29 DEF CtlPoll, serverVars, clientVars, ctlVars
  <2>30. CASE CtlReport
    BY <2>30 DEF CtlReport, serverVars, clientVars, ctlVars
  <2>31. CASE MoveCheckout
    BY <2>31 DEF MoveCheckout, serverVars, clientVars, ctlVars, VersionInv
  <2>32. CASE LockAges
    BY <2>32 DEF LockAges, serverVars, clientVars, ctlVars
  <2>33. CASE UNCHANGED vars
    BY <2>33 DEF vars, serverVars, clientVars, ctlVars
  <2>34. QED
    BY <2>1, <2>2, <2>3, <2>4, <2>5, <2>6, <2>7, <2>8, <2>9, <2>10, <2>11,
       <2>12, <2>13, <2>14, <2>15, <2>16, <2>17, <2>18, <2>19, <2>20, <2>21,
       <2>22, <2>23, <2>24, <2>25, <2>26, <2>27, <2>28, <2>29, <2>30, <2>31,
       <2>32, <2>33
       DEF Next, ClientStep, ServerStep
<1>3. QED
  BY <1>1, <1>2, TypeCorrect, SpawnExclusion, VersionsBehind, JudgedRightly, PTL
     DEF Spec
=============================================================================
