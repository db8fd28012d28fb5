---------------------- MODULE SandboxLifecycle_proofs ----------------------
(***************************************************************************)
(* For every set of processes and configurations: the invariant of         *)
(* SandboxLifecycle is inductive, hence a server runs its requests in its  *)
(* own sandbox and whatever is left on the host was left by a fault.       *)
(***************************************************************************)
EXTENDS SandboxLifecycle, TLAPS

(* A step of a process, or of its runtime, preserves the invariant: the    *)
(* lock holder is the only one to act.                                     *)
LEMMA ProcessStep ==
  ASSUME Inv, NEW p \in Procs,
         \/ AcquireLock(p) \/ CheckFails(p) \/ StartupTimeout(p) \/ Crash(p)
         \/ Starting(p) \/ ServerStops(p) \/ Stopping(p) \/ Runtime(p)
  PROVE  Inv'
<1> USE NoneIsNoProc DEF Inv
<1>1. CASE AcquireLock(p)
  <2>1. TypeOK'
    BY <1>1 DEF AcquireLock, Goto, hostVars, TypeOK, Owners, Resources,
       StartPhases, StopPhases
  <2>2. LockHolder'
    BY <1>1 DEF AcquireLock, Goto, hostVars, TypeOK, LockHolder, Owners
  <2>3. RuntimeOwned'
    BY <1>1 DEF AcquireLock, Goto, hostVars, TypeOK, RuntimeOwned, LockHolder
  <2>4. OwnsWhatItSetUp'
    BY <1>1 DEF AcquireLock, Goto, hostVars, TypeOK, LockHolder, RuntimeOwned,
       OwnsWhatItSetUp, IsNat, SessionPhases, NetworkPhases, SocketPhases,
       Owners
  <2>5. HeldOrExcused'
    BY <1>1 DEF AcquireLock, Goto, hostVars, TypeOK, LockHolder, RuntimeOwned,
       HeldOrExcused, IsNat, SessionPhases, NetworkPhases, SocketPhases,
       Owners, Resources
  <2>6. QED
    BY <2>1, <2>2, <2>3, <2>4, <2>5 DEF Inv
<1>2. CASE CheckFails(p)
  <2>1. TypeOK'
    BY <1>2 DEF CheckFails, Leave, Goto, hostVars, TypeOK, Owners, Resources,
       StartPhases, StopPhases
  <2>2. LockHolder'
    BY <1>2 DEF CheckFails, Leave, Goto, hostVars, TypeOK, LockHolder, Owners
  <2>3. RuntimeOwned'
    BY <1>2 DEF CheckFails, Leave, Goto, hostVars, TypeOK, RuntimeOwned,
       LockHolder
  <2>4. OwnsWhatItSetUp'
    BY <1>2 DEF CheckFails, Leave, Goto, hostVars, TypeOK, LockHolder,
       RuntimeOwned, OwnsWhatItSetUp, IsNat, SessionPhases, NetworkPhases,
       SocketPhases, Owners
  <2>5. HeldOrExcused'
    BY <1>2 DEF CheckFails, Leave, Goto, hostVars, TypeOK, LockHolder,
       RuntimeOwned, HeldOrExcused, IsNat, SessionPhases, NetworkPhases,
       SocketPhases, Owners, Resources
  <2>6. QED
    BY <2>1, <2>2, <2>3, <2>4, <2>5 DEF Inv
<1>3. CASE RemoveOld(p)
  <2>1. TypeOK'
    BY <1>3 DEF RemoveOld, RemoveSucceeds, RemoveFails, Leave, Goto, TypeOK,
       Owners, Resources, StartPhases, StopPhases
  <2>2. LockHolder'
    BY <1>3, ZenonT(60) DEF RemoveOld, RemoveSucceeds, RemoveFails, Leave, Goto, TypeOK,
       LockHolder, Owners
  <2>3. RuntimeOwned'
    BY <1>3 DEF RemoveOld, RemoveSucceeds, RemoveFails, Leave, Goto, TypeOK,
       RuntimeOwned, LockHolder
  <2>4. OwnsWhatItSetUp'
    <3>1. CASE phase'[p] = "removed"
      <4>1. container' = None
        BY <1>3, <3>1 DEF RemoveOld, RemoveSucceeds, Leave, Goto, TypeOK
      <4>2. \A q \in Procs : q # p => phase'[q] = "off"
        BY <1>3, <3>1 DEF RemoveOld, Leave, Goto, TypeOK, LockHolder
      <4>3. QED
        BY <3>1, <4>1, <4>2 DEF OwnsWhatItSetUp, SessionPhases, NetworkPhases,
           SocketPhases
    <3>2. CASE phase'[p] # "removed"
      <4>1. \A q \in Procs : phase'[q] = "off"
        BY <1>3, <3>2 DEF RemoveOld, RemoveSucceeds, RemoveFails, Leave, Goto,
           TypeOK, LockHolder
      <4>2. QED
        BY <4>1 DEF OwnsWhatItSetUp, SessionPhases, NetworkPhases,
           SocketPhases
    <3>3. QED
      BY <1>3, <3>1, <3>2 DEF RemoveOld, RemoveSucceeds, RemoveFails, Leave,
         Goto
  <2>5. HeldOrExcused'
    BY <1>3, ZenonT(60) DEF RemoveOld, RemoveSucceeds, RemoveFails, Leave, Goto, TypeOK,
       LockHolder, RuntimeOwned, HeldOrExcused, IsNat, SessionPhases,
       NetworkPhases, SocketPhases, Owners, Resources
  <2>6. QED
    BY <2>1, <2>2, <2>3, <2>4, <2>5 DEF Inv
<1>4. CASE CleanOld(p)
  <2>1. TypeOK'
    BY <1>4 DEF CleanOld, CleanupResources, Goto, TypeOK, Owners, Resources,
       StartPhases, StopPhases
  <2>2. LockHolder'
    BY <1>4 DEF CleanOld, CleanupResources, Goto, TypeOK, LockHolder, Owners
  <2>3. RuntimeOwned'
    BY <1>4 DEF CleanOld, CleanupResources, Goto, TypeOK, RuntimeOwned,
       LockHolder
  <2>4. OwnsWhatItSetUp'
    BY <1>4 DEF CleanOld, CleanupResources, Goto, TypeOK, LockHolder,
       RuntimeOwned, OwnsWhatItSetUp, IsNat, SessionPhases, NetworkPhases,
       SocketPhases, Owners
  <2>5. HeldOrExcused'
    BY <1>4 DEF CleanOld, CleanupResources, Goto, TypeOK, LockHolder,
       RuntimeOwned, HeldOrExcused, IsNat, SessionPhases, NetworkPhases,
       SocketPhases, Owners, Resources
  <2>6. QED
    BY <2>1, <2>2, <2>3, <2>4, <2>5 DEF Inv
<1>5. CASE EnsureShared(p)
  <2>1. TypeOK'
    BY <1>5 DEF EnsureShared, Leave, Goto, TypeOK, Owners, Resources,
       StartPhases, StopPhases
  <2>2. LockHolder'
    BY <1>5 DEF EnsureShared, Leave, Goto, TypeOK, LockHolder, Owners
  <2>3. RuntimeOwned'
    BY <1>5 DEF EnsureShared, Leave, Goto, TypeOK, RuntimeOwned, LockHolder
  <2>4. OwnsWhatItSetUp'
    BY <1>5 DEF EnsureShared, Leave, Goto, TypeOK, LockHolder, RuntimeOwned,
       OwnsWhatItSetUp, IsNat, SessionPhases, NetworkPhases, SocketPhases,
       Owners
  <2>5. HeldOrExcused'
    BY <1>5 DEF EnsureShared, Leave, Goto, TypeOK, LockHolder, RuntimeOwned,
       HeldOrExcused, IsNat, SessionPhases, NetworkPhases, SocketPhases,
       Owners, Resources
  <2>6. QED
    BY <2>1, <2>2, <2>3, <2>4, <2>5 DEF Inv
<1>6. CASE AddNamespace(p)
  <2>1. TypeOK'
    BY <1>6 DEF AddNamespace, Leave, Goto, TypeOK, Owners, Resources,
       StartPhases, StopPhases
  <2>2. LockHolder'
    BY <1>6 DEF AddNamespace, Leave, Goto, TypeOK, LockHolder, Owners
  <2>3. RuntimeOwned'
    BY <1>6 DEF AddNamespace, Leave, Goto, TypeOK, RuntimeOwned, LockHolder
  <2>4. OwnsWhatItSetUp'
    BY <1>6 DEF AddNamespace, Leave, Goto, TypeOK, LockHolder, RuntimeOwned,
       OwnsWhatItSetUp, IsNat, SessionPhases, NetworkPhases, SocketPhases,
       Owners
  <2>5. HeldOrExcused'
    <3>1. CASE phase'[p] = "veth"
      BY <1>6, <3>1 DEF AddNamespace, Leave, Goto, TypeOK, LockHolder,
         RuntimeOwned, HeldOrExcused, OwnsWhatItSetUp, IsNat, SessionPhases,
         NetworkPhases, SocketPhases, Owners, Resources
    <3>2. CASE phase'[p] # "veth"
      BY <1>6, <3>2 DEF AddNamespace, Leave, Goto, TypeOK, LockHolder,
         RuntimeOwned, HeldOrExcused, OwnsWhatItSetUp, IsNat, SessionPhases,
         NetworkPhases, SocketPhases, Owners, Resources
    <3>3. QED
      BY <1>6, <3>1, <3>2 DEF AddNamespace, Leave, Goto
  <2>6. QED
    BY <2>1, <2>2, <2>3, <2>4, <2>5 DEF Inv
<1>7. CASE AddVeth(p)
  <2>1. TypeOK'
    BY <1>7 DEF AddVeth, CleanupResources, Leave, Goto, TypeOK, Owners,
       Resources, StartPhases, StopPhases
  <2>2. LockHolder'
    BY <1>7 DEF AddVeth, CleanupResources, Leave, Goto, TypeOK, LockHolder,
       Owners
  <2>3. RuntimeOwned'
    BY <1>7 DEF AddVeth, CleanupResources, Leave, Goto, TypeOK, RuntimeOwned,
       LockHolder
  <2>4. OwnsWhatItSetUp'
    BY <1>7 DEF AddVeth, CleanupResources, Leave, Goto, TypeOK, LockHolder,
       RuntimeOwned, OwnsWhatItSetUp, IsNat, SessionPhases, NetworkPhases,
       SocketPhases, Owners
  <2>5. HeldOrExcused'
    <3>1. CASE phase'[p] = "network"
      BY <1>7, <3>1 DEF AddVeth, CleanupResources, Leave, Goto, TypeOK,
         LockHolder, RuntimeOwned, HeldOrExcused, OwnsWhatItSetUp, IsNat,
         SessionPhases, NetworkPhases, SocketPhases, Owners, Resources
    <3>2. CASE phase'[p] # "network"
      BY <1>7, <3>2 DEF AddVeth, CleanupResources, Leave, Goto, TypeOK,
         LockHolder, RuntimeOwned, HeldOrExcused, OwnsWhatItSetUp, IsNat,
         SessionPhases, NetworkPhases, SocketPhases, Owners, Resources
    <3>3. QED
      BY <1>7, <3>1, <3>2 DEF AddVeth, CleanupResources, Leave, Goto
  <2>6. QED
    BY <2>1, <2>2, <2>3, <2>4, <2>5 DEF Inv
<1>8. CASE StartProxy(p)
  <2>1. TypeOK'
    BY <1>8 DEF StartProxy, Goto, TypeOK, Owners, Resources, StartPhases,
       StopPhases
  <2>2. LockHolder'
    BY <1>8 DEF StartProxy, Goto, TypeOK, LockHolder, Owners
  <2>3. RuntimeOwned'
    BY <1>8 DEF StartProxy, Goto, TypeOK, RuntimeOwned, LockHolder
  <2>4. OwnsWhatItSetUp'
    BY <1>8 DEF StartProxy, Goto, TypeOK, LockHolder, RuntimeOwned,
       OwnsWhatItSetUp, IsNat, SessionPhases, NetworkPhases, SocketPhases,
       Owners
  <2>5. HeldOrExcused'
    BY <1>8 DEF StartProxy, Goto, TypeOK, LockHolder, RuntimeOwned,
       HeldOrExcused, IsNat, SessionPhases, NetworkPhases, SocketPhases,
       Owners, Resources
  <2>6. QED
    BY <2>1, <2>2, <2>3, <2>4, <2>5 DEF Inv
<1>9. CASE SpawnContainer(p)
  <2>1. TypeOK'
    BY <1>9 DEF SpawnContainer, Goto, hostVars, TypeOK, Owners, Resources,
       StartPhases, StopPhases
  <2>2. LockHolder'
    BY <1>9 DEF SpawnContainer, Goto, hostVars, TypeOK, LockHolder, Owners
  <2>3. RuntimeOwned'
    BY <1>9 DEF SpawnContainer, Goto, hostVars, TypeOK, RuntimeOwned,
       LockHolder
  <2>4. OwnsWhatItSetUp'
    BY <1>9 DEF SpawnContainer, Goto, hostVars, TypeOK, LockHolder,
       RuntimeOwned, OwnsWhatItSetUp, IsNat, SessionPhases, NetworkPhases,
       SocketPhases, Owners
  <2>5. HeldOrExcused'
    BY <1>9 DEF SpawnContainer, Goto, hostVars, TypeOK, LockHolder,
       RuntimeOwned, HeldOrExcused, IsNat, SessionPhases, NetworkPhases,
       SocketPhases, Owners, Resources
  <2>6. QED
    BY <2>1, <2>2, <2>3, <2>4, <2>5 DEF Inv
<1>10. CASE AbortProxy(p)
  <2>1. TypeOK'
    BY <1>10 DEF AbortProxy, RemoveSocket, Goto, TypeOK, Owners, Resources,
       StartPhases, StopPhases
  <2>2. LockHolder'
    BY <1>10 DEF AbortProxy, RemoveSocket, Goto, TypeOK, LockHolder, Owners
  <2>3. RuntimeOwned'
    BY <1>10 DEF AbortProxy, RemoveSocket, Goto, TypeOK, RuntimeOwned,
       LockHolder
  <2>4. OwnsWhatItSetUp'
    BY <1>10 DEF AbortProxy, RemoveSocket, Goto, TypeOK, LockHolder,
       RuntimeOwned, OwnsWhatItSetUp, IsNat, SessionPhases, NetworkPhases,
       SocketPhases, Owners
  <2>5. HeldOrExcused'
    BY <1>10 DEF AbortProxy, RemoveSocket, Goto, TypeOK, LockHolder,
       RuntimeOwned, HeldOrExcused, IsNat, SessionPhases, NetworkPhases,
       SocketPhases, Owners, Resources
  <2>6. QED
    BY <2>1, <2>2, <2>3, <2>4, <2>5 DEF Inv
<1>11. CASE AbortNetwork(p)
  <2>1. TypeOK'
    BY <1>11 DEF AbortNetwork, NetworkCleanup, CleanupResources, Leave, Goto,
       TypeOK, Owners, Resources, StartPhases, StopPhases
  <2>2. LockHolder'
    BY <1>11 DEF AbortNetwork, NetworkCleanup, CleanupResources, Leave, Goto,
       TypeOK, LockHolder, Owners
  <2>3. RuntimeOwned'
    BY <1>11 DEF AbortNetwork, NetworkCleanup, CleanupResources, Leave, Goto,
       TypeOK, RuntimeOwned, LockHolder
  <2>4. OwnsWhatItSetUp'
    BY <1>11 DEF AbortNetwork, NetworkCleanup, CleanupResources, Leave, Goto,
       TypeOK, LockHolder, RuntimeOwned, OwnsWhatItSetUp, IsNat,
       SessionPhases, NetworkPhases, SocketPhases, Owners
  <2>5. HeldOrExcused'
    BY <1>11 DEF AbortNetwork, NetworkCleanup, CleanupResources, Leave, Goto,
       TypeOK, LockHolder, RuntimeOwned, HeldOrExcused, IsNat, SessionPhases,
       NetworkPhases, SocketPhases, Owners, Resources
  <2>6. QED
    BY <2>1, <2>2, <2>3, <2>4, <2>5 DEF Inv
<1>12. CASE BecomesReady(p)
  <2>1. TypeOK'
    BY <1>12 DEF BecomesReady, Goto, hostVars, TypeOK, Owners, Resources,
       StartPhases, StopPhases
  <2>2. LockHolder'
    BY <1>12 DEF BecomesReady, Goto, hostVars, TypeOK, LockHolder, Owners
  <2>3. RuntimeOwned'
    BY <1>12 DEF BecomesReady, Goto, hostVars, TypeOK, RuntimeOwned,
       LockHolder
  <2>4. OwnsWhatItSetUp'
    BY <1>12 DEF BecomesReady, Goto, hostVars, TypeOK, LockHolder,
       RuntimeOwned, OwnsWhatItSetUp, IsNat, SessionPhases, NetworkPhases,
       SocketPhases, Owners
  <2>5. HeldOrExcused'
    BY <1>12 DEF BecomesReady, Goto, hostVars, TypeOK, LockHolder,
       RuntimeOwned, HeldOrExcused, IsNat, SessionPhases, NetworkPhases,
       SocketPhases, Owners, Resources
  <2>6. QED
    BY <2>1, <2>2, <2>3, <2>4, <2>5 DEF Inv
<1>13. CASE NotReady(p)
  <2>1. TypeOK'
    BY <1>13 DEF NotReady, Goto, hostVars, TypeOK, Owners, Resources,
       StartPhases, StopPhases
  <2>2. LockHolder'
    BY <1>13 DEF NotReady, Goto, hostVars, TypeOK, LockHolder, Owners
  <2>3. RuntimeOwned'
    BY <1>13 DEF NotReady, Goto, hostVars, TypeOK, RuntimeOwned, LockHolder
  <2>4. OwnsWhatItSetUp'
    BY <1>13 DEF NotReady, Goto, hostVars, TypeOK, LockHolder, RuntimeOwned,
       OwnsWhatItSetUp, IsNat, SessionPhases, NetworkPhases, SocketPhases,
       Owners
  <2>5. HeldOrExcused'
    BY <1>13 DEF NotReady, Goto, hostVars, TypeOK, LockHolder, RuntimeOwned,
       HeldOrExcused, IsNat, SessionPhases, NetworkPhases, SocketPhases,
       Owners, Resources
  <2>6. QED
    BY <2>1, <2>2, <2>3, <2>4, <2>5 DEF Inv
<1>14. CASE ConfigureNetwork(p)
  <2>1. TypeOK'
    BY <1>14 DEF ConfigureNetwork, Goto, hostVars, TypeOK, Owners, Resources,
       StartPhases, StopPhases
  <2>2. LockHolder'
    BY <1>14 DEF ConfigureNetwork, Goto, hostVars, TypeOK, LockHolder, Owners
  <2>3. RuntimeOwned'
    BY <1>14 DEF ConfigureNetwork, Goto, hostVars, TypeOK, RuntimeOwned,
       LockHolder
  <2>4. OwnsWhatItSetUp'
    BY <1>14 DEF ConfigureNetwork, Goto, hostVars, TypeOK, LockHolder,
       RuntimeOwned, OwnsWhatItSetUp, IsNat, SessionPhases, NetworkPhases,
       SocketPhases, Owners
  <2>5. HeldOrExcused'
    BY <1>14 DEF ConfigureNetwork, Goto, hostVars, TypeOK, LockHolder,
       RuntimeOwned, HeldOrExcused, IsNat, SessionPhases, NetworkPhases,
       SocketPhases, Owners, Resources
  <2>6. QED
    BY <2>1, <2>2, <2>3, <2>4, <2>5 DEF Inv
<1>15. CASE StartupTimeout(p)
  <2>1. TypeOK'
    BY <1>15 DEF StartupTimeout, Leave, Goto, Present, TypeOK, Owners,
       Resources, StartPhases, StopPhases
  <2>2. LockHolder'
    BY <1>15 DEF StartupTimeout, Leave, Goto, Present, TypeOK, LockHolder,
       Owners
  <2>3. RuntimeOwned'
    BY <1>15 DEF StartupTimeout, Leave, Goto, Present, TypeOK, RuntimeOwned,
       LockHolder
  <2>4. OwnsWhatItSetUp'
    BY <1>15 DEF StartupTimeout, Leave, Goto, Present, TypeOK, LockHolder,
       RuntimeOwned, OwnsWhatItSetUp, IsNat, SessionPhases, NetworkPhases,
       SocketPhases, Owners
  <2>5. HeldOrExcused'
    BY <1>15 DEF StartupTimeout, Leave, Goto, Present, TypeOK, LockHolder,
       RuntimeOwned, HeldOrExcused, IsNat, SessionPhases, NetworkPhases,
       SocketPhases, Owners, Resources
  <2>6. QED
    BY <2>1, <2>2, <2>3, <2>4, <2>5 DEF Inv
<1>16. CASE BindListener(p)
  <2>1. TypeOK'
    BY <1>16 DEF BindListener, Leave, Goto, Present, TypeOK, Owners,
       Resources, StartPhases, StopPhases
  <2>2. LockHolder'
    BY <1>16, ZenonT(60) DEF BindListener, Leave, Goto, Present, TypeOK, LockHolder,
       Owners
  <2>3. RuntimeOwned'
    BY <1>16 DEF BindListener, Leave, Goto, Present, TypeOK, RuntimeOwned,
       LockHolder
  <2>4. OwnsWhatItSetUp'
    <3>1. CASE phase'[p] \in {"serving", "stop"}
      <4>1. /\ UNCHANGED <<config, container, veth, netns, socket, shared>>
            /\ phase[p] = "bind"
        BY <1>16 DEF BindListener
      <4>2. \A q \in Procs : q # p => phase'[q] = "off"
        BY <1>16, <3>1 DEF BindListener, Leave, Goto, TypeOK, LockHolder
      <4>3. QED
        BY <3>1, <4>1, <4>2 DEF OwnsWhatItSetUp, IsNat, SessionPhases,
           NetworkPhases, SocketPhases
    <3>2. CASE phase'[p] \notin {"serving", "stop"}
      <4>1. \A q \in Procs : phase'[q] = "off"
        BY <1>16, <3>2, ZenonT(60) DEF BindListener, Leave, Goto, Present, TypeOK,
           LockHolder
      <4>2. QED
        BY <4>1 DEF OwnsWhatItSetUp, SessionPhases, NetworkPhases,
           SocketPhases
    <3>3. QED
      BY <1>16, <3>1, <3>2 DEF BindListener, Leave, Goto, Present
  <2>5. HeldOrExcused'
    <3>1. CASE phase'[p] \in {"serving", "stop"}
      BY <1>16, <3>1, ZenonT(60) DEF BindListener, Leave, Goto, Present, TypeOK,
         LockHolder, RuntimeOwned, HeldOrExcused, IsNat, SessionPhases,
         NetworkPhases, SocketPhases, Owners, Resources
    <3>2. CASE phase'[p] \notin {"serving", "stop"}
      BY <1>16, <3>2, ZenonT(60) DEF BindListener, Leave, Goto, Present, TypeOK,
         LockHolder, RuntimeOwned, HeldOrExcused, IsNat, SessionPhases,
         NetworkPhases, SocketPhases, Owners, Resources
    <3>3. QED
      BY <1>16, <3>1, <3>2 DEF BindListener, Leave, Goto, Present
  <2>6. QED
    BY <2>1, <2>2, <2>3, <2>4, <2>5 DEF Inv
<1>17. CASE ServerStops(p)
  <2>1. TypeOK'
    BY <1>17 DEF ServerStops, Goto, hostVars, TypeOK, Owners, Resources,
       StartPhases, StopPhases
  <2>2. LockHolder'
    BY <1>17 DEF ServerStops, Goto, hostVars, TypeOK, LockHolder, Owners
  <2>3. RuntimeOwned'
    BY <1>17 DEF ServerStops, Goto, hostVars, TypeOK, RuntimeOwned, LockHolder
  <2>4. OwnsWhatItSetUp'
    BY <1>17 DEF ServerStops, Goto, hostVars, TypeOK, LockHolder,
       RuntimeOwned, OwnsWhatItSetUp, IsNat, SessionPhases, NetworkPhases,
       SocketPhases, Owners
  <2>5. HeldOrExcused'
    BY <1>17 DEF ServerStops, Goto, hostVars, TypeOK, LockHolder,
       RuntimeOwned, HeldOrExcused, IsNat, SessionPhases, NetworkPhases,
       SocketPhases, Owners, Resources
  <2>6. QED
    BY <2>1, <2>2, <2>3, <2>4, <2>5 DEF Inv
<1>18. CASE StopRuntime(p)
  <2>1. TypeOK'
    BY <1>18 DEF StopRuntime, Goto, TypeOK, Owners, Resources, StartPhases,
       StopPhases
  <2>2. LockHolder'
    BY <1>18 DEF StopRuntime, Goto, TypeOK, LockHolder, Owners
  <2>3. RuntimeOwned'
    BY <1>18 DEF StopRuntime, Goto, TypeOK, RuntimeOwned, LockHolder
  <2>4. OwnsWhatItSetUp'
    BY <1>18 DEF StopRuntime, Goto, TypeOK, LockHolder, RuntimeOwned,
       OwnsWhatItSetUp, IsNat, SessionPhases, NetworkPhases, SocketPhases,
       Owners
  <2>5. HeldOrExcused'
    BY <1>18 DEF StopRuntime, Goto, TypeOK, LockHolder, RuntimeOwned,
       HeldOrExcused, IsNat, SessionPhases, NetworkPhases, SocketPhases,
       Owners, Resources
  <2>6. QED
    BY <2>1, <2>2, <2>3, <2>4, <2>5 DEF Inv
<1>19. CASE StopContainer(p)
  <2>1. TypeOK'
    BY <1>19 DEF StopContainer, RemoveSucceeds, RemoveFails, Goto, TypeOK,
       Owners, Resources, StartPhases, StopPhases
  <2>2. LockHolder'
    BY <1>19 DEF StopContainer, RemoveSucceeds, RemoveFails, Goto, TypeOK,
       LockHolder, Owners
  <2>3. RuntimeOwned'
    BY <1>19 DEF StopContainer, RemoveSucceeds, RemoveFails, Goto, TypeOK,
       RuntimeOwned, LockHolder
  <2>4. OwnsWhatItSetUp'
    BY <1>19 DEF StopContainer, RemoveSucceeds, RemoveFails, Goto, TypeOK,
       LockHolder, RuntimeOwned, OwnsWhatItSetUp, IsNat, SessionPhases,
       NetworkPhases, SocketPhases, Owners
  <2>5. HeldOrExcused'
    BY <1>19 DEF StopContainer, RemoveSucceeds, RemoveFails, Goto, TypeOK,
       LockHolder, RuntimeOwned, HeldOrExcused, IsNat, SessionPhases,
       NetworkPhases, SocketPhases, Owners, Resources
  <2>6. QED
    BY <2>1, <2>2, <2>3, <2>4, <2>5 DEF Inv
<1>20. CASE StopNetwork(p)
  <2>1. TypeOK'
    BY <1>20 DEF StopNetwork, NetworkCleanup, CleanupResources, Goto, TypeOK,
       Owners, Resources, StartPhases, StopPhases
  <2>2. LockHolder'
    BY <1>20 DEF StopNetwork, NetworkCleanup, CleanupResources, Goto, TypeOK,
       LockHolder, Owners
  <2>3. RuntimeOwned'
    BY <1>20 DEF StopNetwork, NetworkCleanup, CleanupResources, Goto, TypeOK,
       RuntimeOwned, LockHolder
  <2>4. OwnsWhatItSetUp'
    BY <1>20 DEF StopNetwork, NetworkCleanup, CleanupResources, Goto, TypeOK,
       LockHolder, RuntimeOwned, OwnsWhatItSetUp, IsNat, SessionPhases,
       NetworkPhases, SocketPhases, Owners
  <2>5. HeldOrExcused'
    BY <1>20 DEF StopNetwork, NetworkCleanup, CleanupResources, Goto, TypeOK,
       LockHolder, RuntimeOwned, HeldOrExcused, IsNat, SessionPhases,
       NetworkPhases, SocketPhases, Owners, Resources
  <2>6. QED
    BY <2>1, <2>2, <2>3, <2>4, <2>5 DEF Inv
<1>21. CASE StopProxy(p)
  <2>1. TypeOK'
    BY <1>21 DEF StopProxy, RemoveSocket, Leave, Goto, TypeOK, Owners,
       Resources, StartPhases, StopPhases
  <2>2. LockHolder'
    BY <1>21 DEF StopProxy, RemoveSocket, Leave, Goto, TypeOK, LockHolder,
       Owners
  <2>3. RuntimeOwned'
    BY <1>21 DEF StopProxy, RemoveSocket, Leave, Goto, TypeOK, RuntimeOwned,
       LockHolder
  <2>4. OwnsWhatItSetUp'
    BY <1>21 DEF StopProxy, RemoveSocket, Leave, Goto, TypeOK, LockHolder,
       RuntimeOwned, OwnsWhatItSetUp, IsNat, SessionPhases, NetworkPhases,
       SocketPhases, Owners
  <2>5. HeldOrExcused'
    BY <1>21 DEF StopProxy, RemoveSocket, Leave, Goto, TypeOK, LockHolder,
       RuntimeOwned, HeldOrExcused, IsNat, SessionPhases, NetworkPhases,
       SocketPhases, Owners, Resources
  <2>6. QED
    BY <2>1, <2>2, <2>3, <2>4, <2>5 DEF Inv
<1>22. CASE RuntimeStarts(p)
  <2>1. TypeOK'
    BY <1>22 DEF RuntimeStarts, TypeOK, Owners, Resources, StartPhases,
       StopPhases
  <2>2. LockHolder'
    BY <1>22 DEF RuntimeStarts, TypeOK, LockHolder, Owners
  <2>3. RuntimeOwned'
    BY <1>22 DEF RuntimeStarts, TypeOK, RuntimeOwned, LockHolder
  <2>4. OwnsWhatItSetUp'
    BY <1>22 DEF RuntimeStarts, TypeOK, LockHolder, RuntimeOwned,
       OwnsWhatItSetUp, IsNat, SessionPhases, NetworkPhases, SocketPhases,
       Owners
  <2>5. HeldOrExcused'
    BY <1>22 DEF RuntimeStarts, TypeOK, LockHolder, RuntimeOwned,
       HeldOrExcused, IsNat, SessionPhases, NetworkPhases, SocketPhases,
       Owners, Resources
  <2>6. QED
    BY <2>1, <2>2, <2>3, <2>4, <2>5 DEF Inv
<1>23. CASE RuntimeRefuses(p)
  <2>1. TypeOK'
    BY <1>23 DEF RuntimeRefuses, hostVars, TypeOK, Owners, Resources,
       StartPhases, StopPhases
  <2>2. LockHolder'
    BY <1>23 DEF RuntimeRefuses, hostVars, TypeOK, LockHolder, Owners
  <2>3. RuntimeOwned'
    BY <1>23 DEF RuntimeRefuses, hostVars, TypeOK, RuntimeOwned, LockHolder
  <2>4. OwnsWhatItSetUp'
    BY <1>23 DEF RuntimeRefuses, hostVars, TypeOK, LockHolder, RuntimeOwned,
       OwnsWhatItSetUp, IsNat, SessionPhases, NetworkPhases, SocketPhases,
       Owners
  <2>5. HeldOrExcused'
    BY <1>23 DEF RuntimeRefuses, hostVars, TypeOK, LockHolder, RuntimeOwned,
       HeldOrExcused, IsNat, SessionPhases, NetworkPhases, SocketPhases,
       Owners, Resources
  <2>6. QED
    BY <2>1, <2>2, <2>3, <2>4, <2>5 DEF Inv
<1>24. CASE RuntimeExits(p)
  <2>1. TypeOK'
    BY <1>24 DEF RuntimeExits, TypeOK, Owners, Resources, StartPhases,
       StopPhases
  <2>2. LockHolder'
    BY <1>24 DEF RuntimeExits, TypeOK, LockHolder, Owners
  <2>3. RuntimeOwned'
    BY <1>24 DEF RuntimeExits, TypeOK, RuntimeOwned, LockHolder
  <2>4. OwnsWhatItSetUp'
    BY <1>24 DEF RuntimeExits, TypeOK, LockHolder, RuntimeOwned,
       OwnsWhatItSetUp, IsNat, SessionPhases, NetworkPhases, SocketPhases,
       Owners
  <2>5. HeldOrExcused'
    BY <1>24 DEF RuntimeExits, TypeOK, LockHolder, RuntimeOwned,
       HeldOrExcused, IsNat, SessionPhases, NetworkPhases, SocketPhases,
       Owners, Resources
  <2>6. QED
    BY <2>1, <2>2, <2>3, <2>4, <2>5 DEF Inv
<1>25. CASE Crash(p)
  <2>1. TypeOK'
    BY <1>25 DEF Crash, Leave, Goto, Present, TypeOK, Owners, Resources,
       StartPhases, StopPhases
  <2>2. LockHolder'
    BY <1>25 DEF Crash, Leave, Goto, Present, TypeOK, LockHolder, Owners
  <2>3. RuntimeOwned'
    BY <1>25 DEF Crash, Leave, Goto, Present, TypeOK, RuntimeOwned, LockHolder
  <2>4. OwnsWhatItSetUp'
    BY <1>25 DEF Crash, Leave, Goto, Present, TypeOK, LockHolder,
       RuntimeOwned, OwnsWhatItSetUp, IsNat, SessionPhases, NetworkPhases,
       SocketPhases, Owners
  <2>5. HeldOrExcused'
    BY <1>25 DEF Crash, Leave, Goto, Present, TypeOK, LockHolder,
       RuntimeOwned, HeldOrExcused, IsNat, SessionPhases, NetworkPhases,
       SocketPhases, Owners, Resources
  <2>6. QED
    BY <2>1, <2>2, <2>3, <2>4, <2>5 DEF Inv
<1>26. QED
  BY <1>1, <1>2, <1>3, <1>4, <1>5, <1>6, <1>7, <1>8, <1>9, <1>10, <1>11,
     <1>12, <1>13, <1>14, <1>15, <1>16, <1>17, <1>18, <1>19, <1>20, <1>21,
     <1>22, <1>23, <1>24, <1>25 DEF Starting, Stopping, Runtime

(* The invariant holds of a host nothing was started on yet, which is      *)
(* where Init begins, and every step of the specification preserves it.    *)
LEMMA InitInv == Init => Inv
BY NoneIsNoProc DEF Init, Inv, TypeOK, LockHolder, RuntimeOwned,
   OwnsWhatItSetUp, HeldOrExcused, Owners, Resources, SessionPhases,
   NetworkPhases, SocketPhases

LEMMA StepInv == Inv /\ [Next]_vars => Inv'
<1> SUFFICES ASSUME Inv, [Next]_vars PROVE Inv'
  OBVIOUS
<1>1. CASE FaultsEnd
  BY <1>1 DEF FaultsEnd, hostVars, Inv, TypeOK, LockHolder, RuntimeOwned,
     OwnsWhatItSetUp, HeldOrExcused, IsNat
<1>2. CASE UNCHANGED vars
  BY <1>2 DEF vars, hostVars, Inv, TypeOK, LockHolder, RuntimeOwned,
     OwnsWhatItSetUp, HeldOrExcused, IsNat
<1>3. QED
  BY <1>1, <1>2, ProcessStep DEF Next

(* Every state start, shutdown and their faults can reach satisfies the    *)
(* invariant; in particular at most one process works on an instance and   *)
(* no foreground runtime outlives its session.                             *)
THEOREM Invariance == Spec => []Inv
BY InitInv, StepInv, PTL DEF Spec

(* A server only ever runs requests in a container, on a network and       *)
(* behind a tool socket it set up itself (lifecycle::start).               *)
THEOREM ServesItsOwnSandbox == Spec => []OwnSandbox
<1>1. Inv => OwnSandbox
  BY DEF Inv, OwnsWhatItSetUp, OwnSandbox, SessionPhases, NetworkPhases,
     SocketPhases
<1>2. QED
  BY <1>1, Invariance, PTL

(* What is on the host when no process holds the lock was left by a fault: *)
(* the error paths of start and ContainerSession::shutdown are complete.   *)
THEOREM OnlyFaultsLeave == Spec => []LeftoversExplained
<1>1. Inv => LeftoversExplained
  <2> SUFFICES ASSUME Inv, lock = None PROVE Present \subseteq excused
    BY DEF LeftoversExplained
  <2>1. \A p \in Procs : phase[p] = "off"
    BY NoneIsNoProc DEF Inv, LockHolder
  <2>2. QED
    BY <2>1 DEF Inv, HeldOrExcused, Present, Resources, SessionPhases,
       NetworkPhases, SocketPhases
<1>2. QED
  BY <1>1, Invariance, PTL
=============================================================================
