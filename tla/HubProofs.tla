----------------------------- MODULE HubProofs -----------------------------
(***************************************************************************)
(* Type correctness of the hub: every step of every goroutine of hub.go    *)
(* preserves TypeOK.  One lemma per goroutine, one step per action, and    *)
(* under it one step per part of TypeOK that the action can disturb; the   *)
(* other parts follow from TypeFrame.                                      *)
(*                                                                         *)
(* Then the lock discipline of UserLines: LockInv is inductive together    *)
(* with TypeOK.  LockDiscipline alone is not: that an unlock leaves no     *)
(* loop unprotected needs the converse, that a lock is held only by a      *)
(* goroutine inside a loop over that very list.                            *)
(*                                                                         *)
(* Then the layers of HubInv, each relative to those before it: the way of *)
(* a line from HandleLine to the registrar (RegLayer), the lists and the   *)
(* sweeps over them (ListLayer, OwnerInv), and the lines that leave        *)
(* (DropLayer, SignalInv).  StepKinds says which steps matter to a layer.  *)
(*                                                                         *)
(* Last, from HubInv, every step of the hub is one of Membership.          *)
(***************************************************************************)
EXTENDS HubProperties, TLAPS

\* The goroutines NewHub and Close run, and the application's, are processes.
LEMMA ProcNames == HubProcs \subseteq Procs /\ Callers \subseteq Procs
                      /\ "registrar" \in Procs /\ "unregistrar" \in Procs
                      /\ "reaper" \in Procs /\ "closer" \in Procs
BY Zenon DEF Procs, HubProcs

\* A step keeps the part of TypeOK whose variables it leaves alone.
LEMMA TypeFrame ==
    ASSUME TypeOK
    PROVE  /\ UNCHANGED lineVars => LineType'
           /\ UNCHANGED chanVars => ChanType'
           /\ UNCHANGED listVars => ListType'
           /\ UNCHANGED mapVars => MapType'
           /\ UNCHANGED hubChans => HubChanType'
           /\ UNCHANGED <<pc, loopVars>> => LoopType'
           /\ UNCHANGED <<handling, delArr, spent, crashed>> => HandlingType'
           /\ UNCHANGED <<pc, obj, handling>> => HasObject'
<1>1. UNCHANGED lineVars => LineType' BY Zenon DEF TypeOK, LineType, lineVars
<1>2. UNCHANGED chanVars => ChanType' BY Zenon DEF TypeOK, ChanType, chanVars
<1>3. UNCHANGED listVars => ListType' BY Zenon DEF TypeOK, ListType, listVars
<1>4. UNCHANGED mapVars => MapType' BY Zenon DEF TypeOK, MapType, mapVars
<1>5. UNCHANGED hubChans => HubChanType' BY Zenon DEF TypeOK, HubChanType, hubChans
<1>6. UNCHANGED <<pc, loopVars>> => LoopType' BY Zenon DEF TypeOK, LoopType, loopVars
<1>7. UNCHANGED <<handling, delArr, spent, crashed>> => HandlingType'
  BY Zenon DEF TypeOK, HandlingType
<1>8. UNCHANGED <<pc, obj, handling>> => HasObject'
  BY Zenon DEF TypeOK, HasObject, Registering, Unregistering
<1> QED BY Zenon, <1>1, <1>2, <1>3, <1>4, <1>5, <1>6, <1>7, <1>8

\* A step of the client, of the network or of a failing pool keeps TypeOK.
LEMMA PeerKeepsTypes ==
    ASSUME TypeOK, NEW l \in Lines, Peer(l) PROVE TypeOK'
<1> USE DEF LineStep, Running
<1>1. CASE UpgradeWebSocket(l)
  <2>1. LineType'
    BY Zenon, <1>1 DEF UpgradeWebSocket, TypeOK, LineType, Tasks, TaskStates
  <2> QED BY Zenon, <1>1, <2>1, TypeFrame DEF UpgradeWebSocket, TypeOK, procVars, loopVars
<1>2. CASE SubmitFails(l)
  <2>1. LineType'
    BY Zenon, <1>2 DEF SubmitFails, TypeOK, LineType, Tasks, TaskStates
  <2>2. HandlingType'
    BY <1>2 DEF SubmitFails, TypeOK, HandlingType, Spend, Resources, procVars
  <2> QED BY Zenon, <1>2, <2>1, <2>2, TypeFrame DEF SubmitFails, TypeOK, procVars, loopVars
<1>3. CASE ReadFails(l)
  <2>1. LineType'
    BY Zenon, <1>3 DEF ReadFails, FaultIfOpen, TypeOK, LineType, Tasks, TaskStates
  <2>2. HandlingType'
    BY <1>3 DEF ReadFails, FaultIfOpen, TypeOK, HandlingType, Spend, Resources,
         procVars
  <2> QED BY Zenon, <1>3, <2>1, <2>2, TypeFrame DEF ReadFails, TypeOK, procVars, loopVars
<1>4. CASE ReadOtherFrame(l)
  <2>1. LineType'
    BY Zenon, <1>4 DEF ReadOtherFrame, TypeOK, LineType, Tasks, TaskStates
  <2>2. HandlingType'
    BY <1>4 DEF ReadOtherFrame, TypeOK, HandlingType, Spend, Resources, procVars
  <2> QED BY Zenon, <1>4, <2>1, <2>2, TypeFrame DEF ReadOtherFrame, TypeOK, procVars,
             loopVars
<1>5. CASE ReadBinary(l)
  <2>1. LineType'
    BY Zenon, <1>5 DEF ReadBinary, TypeOK, LineType, Tasks, TaskStates
  <2>2. HandlingType'
    BY <1>5 DEF ReadBinary, TypeOK, HandlingType, Spend, Resources, procVars
  <2> QED BY Zenon, <1>5, <2>1, <2>2, TypeFrame DEF ReadBinary, TypeOK, procVars, loopVars
<1> QED BY Zenon, <1>1, <1>2, <1>3, <1>4, <1>5 DEF Peer

\* A step of Line.start keeps TypeOK; registeredChan stays within its buffer.
LEMMA StarterKeepsTypes ==
    ASSUME TypeOK, NEW l \in Lines, Starter(l) PROVE TypeOK'
<1> USE DEF LineStep, Running
<1>1. CASE SubmitReader(l)
  <2>1. LineType'
    BY Zenon, <1>1 DEF SubmitReader, TypeOK, LineType, Tasks, TaskStates
  <2> QED BY Zenon, <1>1, <2>1, TypeFrame DEF SubmitReader, TypeOK, procVars, loopVars
<1>2. CASE SubmitWriter(l)
  <2>1. LineType'
    BY Zenon, <1>2 DEF SubmitWriter, TypeOK, LineType, Tasks, TaskStates
  <2> QED BY Zenon, <1>2, <2>1, TypeFrame DEF SubmitWriter, TypeOK, procVars, loopVars
<1>3. CASE SendRegistered(l)
  <2>1. LineType'
    BY Zenon, <1>3 DEF SendRegistered, TypeOK, LineType, Tasks, TaskStates
  <2>2. HubChanType'
    <3> USE HubAssumption DEF TypeOK, HubChanType, HubAssumption
    <3>1. CASE UNCHANGED registeredChan BY Zenon, <1>3, <3>1 DEF SendRegistered
    <3>2. CASE /\ Len(registeredChan) < RegisteredCap
               /\ registeredChan' = Append(registeredChan, l)
      BY <1>3, <3>2 DEF SendRegistered
    <3> QED BY Zenon, <1>3, <3>1, <3>2 DEF SendRegistered
  <2> QED BY Zenon, <1>3, <2>1, <2>2, TypeFrame DEF SendRegistered, TypeOK, procVars,
             loopVars
<1> QED BY Zenon, <1>1, <1>2, <1>3 DEF Starter

\* The reader's send on messageChan keeps TypeOK, and the buffer's bound.
LEMMA ReaderKeepsTypes ==
    ASSUME TypeOK, NEW l \in Lines, Reader(l) PROVE TypeOK'
<1> USE DEF LineStep, Running
<1>1. CASE SendMessage(l)
  <2>1. LineType'
    BY Zenon, <1>1 DEF SendMessage, TypeOK, LineType, Tasks, TaskStates
  <2>2. HubChanType'
    BY <1>1, HubAssumption DEF SendMessage, TypeOK, HubChanType, HubAssumption
  <2> QED BY Zenon, <1>1, <2>1, <2>2, TypeFrame DEF SendMessage, TypeOK, procVars, loopVars
<1> QED BY Zenon, <1>1 DEF Reader

\* A step of the writer's select loop keeps TypeOK.
LEMMA WriterKeepsTypes ==
    ASSUME TypeOK, NEW l \in Lines, Writer(l) PROVE TypeOK'
<1> USE DEF LineStep, Running
<1>1. CASE EnterSelect(l)
  <2>1. LineType'
    BY Zenon, <1>1 DEF EnterSelect, TypeOK, LineType, Tasks, TaskStates
  <2> QED BY Zenon, <1>1, <2>1, TypeFrame DEF EnterSelect, TypeOK, procVars, loopVars
<1>2. CASE ReceiveClosed(l)
  <2>1. LineType'
    BY Zenon, <1>2 DEF ReceiveClosed, TypeOK, LineType, Tasks, TaskStates
  <2> QED BY Zenon, <1>2, <2>1, TypeFrame DEF ReceiveClosed, TypeOK, procVars, loopVars
<1>3. CASE ReceiveMessage(l)
  <2>1. LineType'
    BY Zenon, <1>3 DEF ReceiveMessage, TypeOK, LineType, Tasks, TaskStates
  <2>2. ChanType'
    BY <1>3, HubAssumption DEF ReceiveMessage, TypeOK, ChanType, HubAssumption
  <2> QED BY Zenon, <1>3, <2>1, <2>2, TypeFrame DEF ReceiveMessage, TypeOK, procVars,
             loopVars
<1>4. CASE WriteMessage(l)
  <2>1. LineType'
    BY <1>4 DEF WriteMessage, FaultIfOpen, TypeOK, LineType, Tasks, TaskStates
  <2>2. HandlingType'
    BY <1>4 DEF WriteMessage, FaultIfOpen, TypeOK, HandlingType, Spend, Resources,
         procVars
  <2> QED BY Zenon, <1>4, <2>1, <2>2, TypeFrame DEF WriteMessage, TypeOK, procVars, loopVars
<1> QED BY Zenon, <1>1, <1>2, <1>3, <1>4 DEF Writer

\* A step of Line.close keeps TypeOK, and the bounds of the channels it sends on.
LEMMA ClosingKeepsTypes ==
    ASSUME TypeOK, NEW t \in Tasks, NEW l \in Lines, Closing(t, l) PROVE TypeOK'
<1> USE DEF LineStep, Panics, Running
<1>1. CASE SendError(t, l)
  <2>1. LineType'
    BY Zenon, <1>1 DEF SendError, TypeOK, LineType, Tasks, TaskStates
  <2>2. HubChanType'
    BY <1>1, HubAssumption DEF SendError, TypeOK, HubChanType, HubAssumption
  <2> QED BY Zenon, <1>1, <2>1, <2>2, TypeFrame DEF SendError, TypeOK, procVars, loopVars
<1>2. CASE CloseConn(t, l)
  <2>1. LineType'
    BY Zenon, <1>2 DEF CloseConn, TypeOK, LineType, Tasks, TaskStates
  <2> QED BY Zenon, <1>2, <2>1, TypeFrame DEF CloseConn, TypeOK, procVars, loopVars
<1>3. CASE SendUnregistered(t, l)
  <2>1. LineType'
    BY Zenon, <1>3 DEF SendUnregistered, AfterClose, TypeOK, LineType, Tasks, TaskStates
  <2>2. HubChanType'
    BY <1>3, HubAssumption DEF SendUnregistered, AfterClose, TypeOK, HubChanType,
         HubAssumption
  <2> QED BY Zenon, <1>3, <2>1, <2>2, TypeFrame DEF SendUnregistered, TypeOK, procVars,
       loopVars
<1>4. CASE TaskPanics(t, l)
  <2>1. LineType'
    BY Zenon, <1>4 DEF TaskPanics, TypeOK, LineType, Tasks, TaskStates
  <2>2. HandlingType'
    BY Zenon, <1>4, HubAssumption DEF TaskPanics, TypeOK, HandlingType, procVars,
         HubAssumption
  <2> QED BY Zenon, <1>4, <2>1, <2>2, TypeFrame DEF TaskPanics, TypeOK, procVars, loopVars
<1> QED BY Zenon, <1>1, <1>2, <1>3, <1>4 DEF Closing

\* A step of a loop over a user's lines, or over users, keeps TypeOK.
LEMMA LoopKeepsTypes ==
    ASSUME TypeOK, NEW p \in Procs, Loop(p) PROVE TypeOK'
<1> USE DEF ListStep, Panics, Running
<1>1. CASE AwaitLock(p)
  <2>1. LoopType'
    BY Zenon, <1>1 DEF AwaitLock, TypeOK, LoopType, ProcStates, loopVars
  <2>2. HasObject'
    BY <1>1 DEF AwaitLock, TypeOK, HasObject, LoopType, loopVars, Registering,
         Unregistering
  <2> QED BY Zenon, <1>1, <2>1, <2>2, TypeFrame DEF AwaitLock, TypeOK, procVars, loopVars
<1>2. CASE LockLines(p)
  <2>1. ListType'
    BY Zenon, <1>2 DEF LockLines, TypeOK, ListType, LoopType, HasObject
  <2>2. LoopType'
    BY <1>2 DEF LockLines, TypeOK, LoopType, ProcStates, ListType, HasObject
  <2>3. HasObject'
    BY <1>2 DEF LockLines, TypeOK, HasObject, LoopType, Registering, Unregistering
  <2> QED BY Zenon, <1>2, <2>1, <2>2, <2>3, TypeFrame DEF LockLines, TypeOK, procVars,
       loopVars
<1>3. CASE KeepLine(p)
  <2>1. LoopType'
    BY <1>3 DEF KeepLine, TypeOK, LoopType
  <2> QED BY Zenon, <1>3, <2>1, TypeFrame DEF KeepLine, TypeOK, procVars, loopVars
<1>4. CASE SignalLine(p)
  <2>1. LineType'
    BY Zenon, <1>4 DEF SignalLine, TypeOK, LineType, LoopType, Tasks, TaskStates
  <2>2. LoopType'
    BY <1>4 DEF SignalLine, TypeOK, LoopType
  <2> QED BY Zenon, <1>4, <2>1, <2>2, TypeFrame DEF SignalLine, TypeOK, procVars, loopVars
<1>5. CASE UnlockLines(p)
  <2>1. ListType'
    BY Zenon, <1>5 DEF UnlockLines, AfterSweep, TypeOK, ListType, LoopType, HasObject
  <2>2. LoopType'
    BY Zenon, <1>5 DEF UnlockLines, AfterSweep, TypeOK, LoopType, ProcStates
  <2>3. HasObject'
    BY <1>5 DEF UnlockLines, AfterSweep, TypeOK, HasObject, LoopType, Registering,
         Unregistering
  <2> QED BY Zenon, <1>5, <2>1, <2>2, <2>3, TypeFrame DEF UnlockLines, TypeOK, procVars,
       loopVars
<1>6. CASE RLockLines(p)
  <2>1. ListType'
    BY Zenon, <1>6 DEF RLockLines, TypeOK, ListType, LoopType, HasObject
  <2>2. LoopType'
    BY Zenon, <1>6 DEF RLockLines, TypeOK, LoopType, ProcStates, ListType, HasObject
  <2>3. HasObject'
    BY <1>6 DEF RLockLines, TypeOK, HasObject, LoopType, Registering, Unregistering
  <2> QED BY Zenon, <1>6, <2>1, <2>2, <2>3, TypeFrame DEF RLockLines, TypeOK, procVars,
       loopVars
<1>7. CASE PushLine(p)
  <2>1. ChanType'
    <3>1. CASE UNCHANGED queued BY Zenon, <1>7, <3>1 DEF PushLine, TypeOK, ChanType
    <3>2. CASE queued[Head(rest[p])] < WriteCap
      <4>1. Head(rest[p]) \in Lines BY <1>7 DEF PushLine, TypeOK, LoopType
      <4>2. \/ UNCHANGED queued
            \/ queued' = [queued EXCEPT ![Head(rest[p])] = @ + 1]
        BY Zenon, <1>7 DEF PushLine
      <4>3. queued \in [Lines -> 0 .. WriteCap] /\ WriteCap \in Nat
        BY Zenon, HubAssumption DEF TypeOK, ChanType, HubAssumption
      <4>4. queued' \in [Lines -> 0 .. WriteCap]
        BY <3>2, <4>1, <4>2, <4>3
      <4> QED BY Zenon, <1>7, <4>4 DEF PushLine, TypeOK, ChanType
    <3> QED BY Zenon, <1>7, <3>1, <3>2 DEF PushLine
  <2>2. LoopType'
    BY <1>7 DEF PushLine, TypeOK, LoopType
  <2> QED BY Zenon, <1>7, <2>1, <2>2, TypeFrame DEF PushLine, TypeOK, procVars, loopVars
<1>8. CASE RUnlockLines(p)
  <2>1. ListType'
    BY Zenon, <1>8 DEF RUnlockLines, TypeOK, ListType, LoopType, HasObject
  <2>2. LoopType'
    BY Zenon, <1>8 DEF RUnlockLines, TypeOK, LoopType, ProcStates, loopVars
  <2>3. HasObject'
    BY <1>8 DEF RUnlockLines, TypeOK, HasObject, LoopType, loopVars, Registering,
         Unregistering
  <2> QED BY Zenon, <1>8, <2>1, <2>2, <2>3, TypeFrame DEF RUnlockLines, TypeOK, procVars,
       loopVars
<1>9. CASE SendPanics(p)
  <2>1. ListType'
    BY Zenon, <1>9 DEF SendPanics, SendsOnClosed, TypeOK, ListType, LoopType, HasObject
  <2>2. LoopType'
    BY Zenon, <1>9 DEF SendPanics, SendsOnClosed, TypeOK, LoopType, ProcStates, loopVars
  <2>3. HandlingType'
    BY Zenon, <1>9, HubAssumption DEF SendPanics, SendsOnClosed, TypeOK, HandlingType,
         HubAssumption
  <2>4. HasObject'
    BY <1>9 DEF SendPanics, SendsOnClosed, TypeOK, HasObject, LoopType, loopVars,
         Registering, Unregistering
  <2> QED BY Zenon, <1>9, <2>1, <2>2, <2>3, <2>4, TypeFrame DEF SendPanics, TypeOK, procVars,
       loopVars
<1>10. CASE VisitUser(p)
  <2>1. PICK u \in todo[p] :
          /\ todo' = [todo EXCEPT ![p] = @ \ {u}]
          /\ IF connections[u] = None
             THEN UNCHANGED <<obj, pc>>
             ELSE /\ obj' = [obj EXCEPT ![p] = connections[u]]
                  /\ pc' = [pc EXCEPT ![p] = VisitStep(p)]
    BY Zenon, <1>10 DEF VisitUser
  <2>2. UNCHANGED <<handling, sel, rest, kept>> /\ pc[p] # "idle"
    BY Zenon, <1>10 DEF VisitUser
  <2>3. connections[u] \in Lines \cup {None}
    BY Zenon, <2>1 DEF TypeOK, LoopType, MapType
  <2>4. VisitStep(p) \in {"rlock", "len", "lock"}
    BY Zenon DEF VisitStep
  <2>5. LoopType'
    <3>1. todo' \in [Procs -> SUBSET Users] BY Zenon, <2>1 DEF TypeOK, LoopType
    <3>2. obj' \in [Procs -> Lines \cup {None}] BY Zenon, <2>1, <2>3 DEF TypeOK, LoopType
    <3>3. pc' \in [Procs -> ProcStates]
      BY Zenon, <2>1, <2>4 DEF TypeOK, LoopType, ProcStates
    <3> QED BY Zenon, <2>2, <3>1, <3>2, <3>3 DEF TypeOK, LoopType
  <2>6. HasObject'
    <3>1. CASE connections[u] = None
      BY Zenon, <2>1, <2>2, <3>1 DEF TypeOK, HasObject, Registering, Unregistering
    <3>2. CASE connections[u] # None
      BY Zenon, <2>1, <2>2, <3>2, ProcNames
           DEF TypeOK, LoopType, HasObject, Registering, Unregistering
    <3> QED BY Zenon, <3>1, <3>2
  <2> QED BY Zenon, <1>10, <2>5, <2>6, TypeFrame DEF VisitUser, TypeOK, procVars, loopVars
<1>11. CASE EndRange(p)
  <2>1. LoopType'
    BY Zenon, <1>11 DEF EndRange, AfterRange, TypeOK, LoopType, ProcStates
  <2>2. HasObject'
    BY <1>11 DEF EndRange, AfterRange, TypeOK, HasObject, LoopType, Registering,
         Unregistering
  <2> QED BY Zenon, <1>11, <2>1, <2>2, TypeFrame DEF EndRange, TypeOK, procVars, loopVars
<1> QED BY Zenon, <1>1, <1>2, <1>3, <1>4, <1>5, <1>6, <1>7, <1>8, <1>9, <1>10, <1>11 DEF Loop

\* A receive from registeredChan or unregisteredChan leaves it within its capacity.
LEMMA ReceiveShortens ==
    ASSUME NEW s \in Seq(Lines), s # <<>>, NEW n \in Nat, Len(s) <= n
    PROVE  Tail(s) \in Seq(Lines) /\ Len(Tail(s)) <= n
OBVIOUS

\* A step of the loop over registeredChan keeps TypeOK.
LEMMA RegistrarKeepsTypes ==
    ASSUME TypeOK, Registrar PROVE TypeOK'
<1> USE DEF ListStep, Running
<1>1. CASE TakeRegistered
  <2>1. ChanType'
    BY Zenon, <1>1 DEF TakeRegistered, TypeOK, ChanType, ChanStates, HubChanType
  <2>2. HubChanType'
    <3>1. registeredChan \in Seq(Lines) /\ Len(registeredChan) <= RegisteredCap
      BY Zenon DEF TypeOK, HubChanType
    <3>2. registeredChan # <<>> /\ registeredChan' = Tail(registeredChan)
      BY Zenon, <1>1 DEF TakeRegistered
    <3>3. registeredChan' \in Seq(Lines) /\ Len(registeredChan') <= RegisteredCap
      BY Zenon, <3>1, <3>2, ReceiveShortens, HubAssumption DEF HubAssumption
    <3> QED BY Zenon, <1>1, <3>3 DEF TakeRegistered, TypeOK, HubChanType
  <2>3. LoopType'
    BY Zenon, <1>1, ProcNames DEF TakeRegistered, TypeOK, LoopType, ProcStates, loopVars
  <2>4. HandlingType'
    BY <1>1 DEF TakeRegistered, TypeOK, HandlingType, HubChanType
  <2>5. HasObject'
    <3>1. Head(registeredChan) \in Lines
      BY <1>1 DEF TakeRegistered, TypeOK, HubChanType
    <3>2. Registering' # None /\ Unregistering' = Unregistering
      BY Zenon, <1>1, <3>1, HubAssumption DEF TakeRegistered, TypeOK, HandlingType,
           HubAssumption, Registering, Unregistering
    <3> QED BY Zenon, <1>1, <3>2, ProcNames DEF TakeRegistered, TypeOK, HasObject, LoopType,
             loopVars
  <2> QED BY Zenon, <1>1, <2>1, <2>2, <2>3, <2>4, <2>5, TypeFrame DEF TakeRegistered, TypeOK,
       procVars, loopVars
<1>2. CASE MakeWriteChan
  <2>1. ChanType'
    BY Zenon, <1>2, ProcNames DEF MakeWriteChan, TypeOK, ChanType, ChanStates, HasObject,
         HandlingType, Registering, Unregistering
  <2>2. LoopType'
    BY Zenon, <1>2, ProcNames DEF MakeWriteChan, TypeOK, LoopType, ProcStates, loopVars
  <2>3. HasObject'
    BY Zenon, <1>2, ProcNames DEF MakeWriteChan, TypeOK, HasObject, LoopType, loopVars,
         Registering, Unregistering
  <2> QED BY Zenon, <1>2, <2>1, <2>2, <2>3, TypeFrame DEF MakeWriteChan, TypeOK, procVars,
       loopVars
<1>3. CASE LoadOrStore
  <2>1. MapType'
    BY Zenon, <1>3, ProcNames, HubAssumption DEF LoadOrStore, TypeOK, MapType, HandlingType,
         HasObject, Registering, Unregistering, HubAssumption
  <2>2. LoopType'
    BY Zenon, <1>3, ProcNames, HubAssumption DEF LoadOrStore, TypeOK, LoopType, ProcStates,
         MapType, HandlingType, HasObject, Registering, HubAssumption
  <2>3. HasObject'
    BY Zenon, <1>3, ProcNames, HubAssumption DEF LoadOrStore, TypeOK, HasObject, LoopType,
         MapType, HandlingType, Registering, HubAssumption, Unregistering
  <2> QED BY Zenon, <1>3, <2>1, <2>2, <2>3, TypeFrame DEF LoadOrStore, TypeOK, procVars,
       loopVars
<1>4. CASE AddLine
  <2>1. ListType'
    BY <1>4, ProcNames DEF AddLine, TypeOK, ListType, LoopType, HasObject,
         HandlingType, Registering
  <2>2. LoopType'
    BY Zenon, <1>4, ProcNames DEF AddLine, TypeOK, LoopType, ProcStates, loopVars
  <2>3. HasObject'
    BY Zenon, <1>4, ProcNames DEF AddLine, TypeOK, HasObject, LoopType, loopVars,
       Registering,
         Unregistering
  <2> QED BY Zenon, <1>4, <2>1, <2>2, <2>3, TypeFrame DEF AddLine, TypeOK, procVars, loopVars
<1>5. CASE CountRegistered
  <2>1. MapType'
    BY <1>5 DEF CountRegistered, TypeOK, MapType
  <2>2. LoopType'
    BY Zenon, <1>5, ProcNames DEF CountRegistered, TypeOK, LoopType, ProcStates, loopVars
  <2>3. HandlingType'
    BY Zenon, <1>5, ProcNames DEF CountRegistered, TypeOK, HandlingType
  <2>4. HasObject'
    BY <1>5, ProcNames DEF CountRegistered, TypeOK, HasObject, LoopType, loopVars,
         Registering, Unregistering
  <2> QED BY Zenon, <1>5, <2>1, <2>2, <2>3, <2>4, TypeFrame DEF CountRegistered, TypeOK,
       procVars, loopVars
<1> QED BY Zenon, <1>1, <1>2, <1>3, <1>4, <1>5 DEF Registrar

\* A step of the loop over unregisteredChan keeps TypeOK: it works on a list only
\* when Load has found one.
LEMMA UnregistrarKeepsTypes ==
    ASSUME TypeOK, Unregistrar PROVE TypeOK'
<1> USE DEF ListStep, Panics, Running
<1>1. CASE TakeUnregistered
  <2> DEFINE l == Head(unregisteredChan)
             o == connections[UserOf[l]]
             q == "unregistrar"
  <2>a. l \in Lines /\ o \in Lines \cup {None}
    <3>1. unregisteredChan # <<>> BY Zenon, <1>1 DEF TakeUnregistered
    <3>2. unregisteredChan \in Seq(Lines) BY Zenon DEF TypeOK, HubChanType
    <3>3. l \in Lines BY <3>1, <3>2
    <3>4. UserOf[l] \in Users BY Zenon, <3>3, HubAssumption DEF HubAssumption
    <3> QED BY Zenon, <3>3, <3>4 DEF TypeOK, MapType
  <2>b. /\ handling' = [handling EXCEPT ![q] = l] /\ obj' = [obj EXCEPT ![q] = o]
        /\ sel' = [sel EXCEPT ![q] = {k \in Lines : IdOf[k] = IdOf[l]}]
        /\ pc' = [pc EXCEPT ![q] = IF o = None THEN "count" ELSE "lock"]
        /\ UNCHANGED <<rest, kept, todo, delArr, spent, crashed>>
    BY Zenon, <1>1 DEF TakeUnregistered
  <2>1. HubChanType'
    <3>1. unregisteredChan \in Seq(Lines) /\ Len(unregisteredChan) <= UnregisteredCap
      BY Zenon DEF TypeOK, HubChanType
    <3>2. unregisteredChan # <<>> /\ unregisteredChan' = Tail(unregisteredChan)
      BY Zenon, <1>1 DEF TakeUnregistered
    <3>3. /\ unregisteredChan' \in Seq(Lines)
          /\ Len(unregisteredChan') <= UnregisteredCap
      BY Zenon, <3>1, <3>2, ReceiveShortens, HubAssumption DEF HubAssumption
    <3> QED BY Zenon, <1>1, <3>3 DEF TakeUnregistered, TypeOK, HubChanType
  <2>2. LoopType'
    <3> HIDE DEF l, o
    <3> QED BY Zenon, <2>a, <2>b, ProcNames DEF TypeOK, LoopType, ProcStates
  <2>3. HandlingType'
    <3> HIDE DEF l, o
    <3> QED BY Zenon, <2>a, <2>b DEF TypeOK, HandlingType
  <2>4. HasObject'
    <3> HIDE DEF l, o
    <3>1. Unregistering' # None /\ Registering' = Registering
      BY Zenon, <2>a, <2>b, HubAssumption DEF TypeOK, HandlingType, HubAssumption,
         Registering,
           Unregistering
    <3> QED BY Zenon, <2>a, <2>b, <3>1, ProcNames DEF TypeOK, HasObject, LoopType
  <2> QED BY Zenon, <1>1, <2>1, <2>2, <2>3, <2>4, TypeFrame DEF TakeUnregistered, TypeOK,
       procVars, loopVars
<1>2. CASE CountUnregistered
  <2>1. MapType'
    BY <1>2 DEF CountUnregistered, TypeOK, MapType
  <2>2. LoopType'
    BY Zenon, <1>2, ProcNames DEF CountUnregistered, TypeOK, LoopType, ProcStates, loopVars
  <2>3. HasObject'
    BY Zenon, <1>2, ProcNames DEF CountUnregistered, TypeOK, HasObject, LoopType, loopVars,
         Registering, Unregistering
  <2> QED BY Zenon, <1>2, <2>1, <2>2, <2>3, TypeFrame DEF CountUnregistered, TypeOK,
             procVars,
       loopVars
<1>3. CASE CloseCloseChan
  <2>1. ChanType'
    BY Zenon, <1>3, ProcNames DEF CloseCloseChan, TypeOK, ChanType, ChanStates, HasObject,
         HandlingType, Registering, Unregistering
  <2>2. LoopType'
    BY Zenon, <1>3, ProcNames DEF CloseCloseChan, TypeOK, LoopType, ProcStates, loopVars
  <2>3. HasObject'
    BY Zenon, <1>3, ProcNames DEF CloseCloseChan, TypeOK, HasObject, LoopType, loopVars,
         Registering, Unregistering
  <2> QED BY Zenon, <1>3, <2>1, <2>2, <2>3, TypeFrame DEF CloseCloseChan, TypeOK, procVars,
       loopVars
<1>4. CASE CloseWriteChan
  <2>1. ChanType'
    BY Zenon, <1>4, ProcNames DEF CloseWriteChan, TypeOK, ChanType, ChanStates, HasObject,
         HandlingType, Registering, Unregistering
  <2>2. LoopType'
    BY Zenon, <1>4, ProcNames DEF CloseWriteChan, TypeOK, LoopType, ProcStates, loopVars
  <2>3. HasObject'
    BY Zenon, <1>4, ProcNames DEF CloseWriteChan, TypeOK, HasObject, LoopType, loopVars,
         Registering, Unregistering
  <2> QED BY Zenon, <1>4, <2>1, <2>2, <2>3, TypeFrame DEF CloseWriteChan, TypeOK, procVars,
       loopVars
<1>5. CASE ClosePanics
  <2>1. LoopType'
    BY Zenon, <1>5, ProcNames DEF ClosePanics, TypeOK, LoopType, ProcStates, loopVars
  <2>2. HandlingType'
    BY Zenon, <1>5, HubAssumption DEF ClosePanics, TypeOK, HandlingType, HubAssumption
  <2>3. HasObject'
    BY Zenon, <1>5, ProcNames DEF ClosePanics, TypeOK, HasObject, LoopType, loopVars,
         Registering, Unregistering
  <2> QED BY Zenon, <1>5, <2>1, <2>2, <2>3, TypeFrame DEF ClosePanics, TypeOK, procVars,
       loopVars
<1>6. CASE TestEmpty
  <2>1. LoopType'
    BY Zenon, <1>6, ProcNames DEF TestEmpty, TypeOK, LoopType, ProcStates, loopVars
  <2>2. HasObject'
    BY Zenon, <1>6, ProcNames DEF TestEmpty, TypeOK, HasObject, LoopType, loopVars,
         Registering, Unregistering
  <2> QED BY Zenon, <1>6, <2>1, <2>2, TypeFrame DEF TestEmpty, TypeOK, procVars, loopVars
<1>7. CASE DeleteUser
  <2>1. MapType'
    BY Zenon, <1>7, ProcNames, HubAssumption DEF DeleteUser, TypeOK, MapType, HandlingType,
         HasObject, Registering, Unregistering, HubAssumption
  <2>2. LoopType'
    BY Zenon, <1>7, ProcNames DEF DeleteUser, TypeOK, LoopType, ProcStates, loopVars
  <2>3. HasObject'
    BY Zenon, <1>7, ProcNames DEF DeleteUser, TypeOK, HasObject, LoopType, loopVars,
         Registering, Unregistering
  <2> QED BY Zenon, <1>7, <2>1, <2>2, <2>3, TypeFrame DEF DeleteUser, TypeOK, procVars,
       loopVars
<1> QED BY Zenon, <1>1, <1>2, <1>3, <1>4, <1>5, <1>6, <1>7 DEF Unregistrar

\* A step of the goroutine that closes inactive lines keeps TypeOK.
LEMMA ReaperKeepsTypes ==
    ASSUME TypeOK, Reaper PROVE TypeOK'
<1> USE DEF ListStep, Running
<1>1. CASE ReaperLen
  <2>1. LoopType'
    BY Zenon, <1>1, ProcNames DEF ReaperLen, TypeOK, LoopType, ProcStates, loopVars
  <2>2. HandlingType'
    <3>1. UserOf[obj["reaper"]] \in Users
      BY Zenon, <1>1, ProcNames, HubAssumption DEF ReaperLen, TypeOK, LoopType, HasObject,
           HubAssumption
    <3>2. delArr' \subseteq Users
      BY Zenon, <1>1, <3>1 DEF ReaperLen, TypeOK, HandlingType
    <3> QED BY Zenon, <1>1, <3>2 DEF ReaperLen, TypeOK, HandlingType
  <2>3. HasObject'
    BY Zenon, <1>1, ProcNames DEF ReaperLen, TypeOK, HasObject, LoopType, loopVars,
         Registering, Unregistering
  <2> QED BY Zenon, <1>1, <2>1, <2>2, <2>3, TypeFrame DEF ReaperLen, TypeOK, procVars,
       loopVars
<1>2. CASE ReaperDelete
  <2>1. MapType'
    BY Zenon, <1>2 DEF ReaperDelete, TypeOK, MapType, HandlingType
  <2>2. LoopType'
    BY Zenon, <1>2, ProcNames DEF ReaperDelete, TypeOK, LoopType, ProcStates, loopVars
  <2>3. HandlingType'
    BY Zenon, <1>2, ProcNames DEF ReaperDelete, TypeOK, HandlingType
  <2>4. HasObject'
    BY Zenon, <1>2, ProcNames DEF ReaperDelete, TypeOK, HasObject, LoopType, loopVars,
         Registering, Unregistering
  <2> QED BY Zenon, <1>2, <2>1, <2>2, <2>3, <2>4, TypeFrame DEF ReaperDelete, TypeOK,
       procVars, loopVars
<1> QED BY Zenon, <1>1, <1>2 DEF Reaper

\* A step of Hub.Close after its sleep keeps TypeOK.
LEMMA CloserKeepsTypes ==
    ASSUME TypeOK, Closer PROVE TypeOK'
<1> USE DEF Running
<1>1. CASE CloseHubChan
  <2>1. HubChanType'
    BY <1>1 DEF CloseHubChan, TypeOK, HubChanType
  <2> QED BY Zenon, <1>1, <2>1, TypeFrame DEF CloseHubChan, TypeOK, procVars, loopVars
<1>2. CASE ClearConnections
  <2>1. MapType'
    BY Zenon, <1>2 DEF ClearConnections, TypeOK, MapType
  <2>2. HubChanType'
    BY <1>2, ProcNames DEF ClearConnections, TypeOK, HubChanType
  <2>3. LoopType'
    BY Zenon, <1>2, ProcNames DEF ClearConnections, TypeOK, LoopType, ProcStates, loopVars
  <2>4. HasObject'
    BY Zenon, <1>2, ProcNames DEF ClearConnections, TypeOK, HasObject, LoopType, loopVars,
         Registering, Unregistering
  <2> QED BY Zenon, <1>2, <2>1, <2>2, <2>3, <2>4, TypeFrame DEF ClearConnections, TypeOK,
       procVars, loopVars
<1> QED BY Zenon, <1>1, <1>2 DEF Closer

\* The head of a loop over users keeps TypeOK.
LEMMA BeginRangeKeepsTypes ==
    ASSUME TypeOK, NEW p \in Procs \ {"registrar", "unregistrar"},
           NEW how \in {"closing", "pushing"}, NEW users \in SUBSET Users,
           NEW selected \in SUBSET Lines, BeginRange(p, how, users, selected),
           spent' \in [Resources -> Nat]
    PROVE  TypeOK'
<1> USE DEF ListStep, Running
<1>1. LoopType' BY Zenon DEF BeginRange, TypeOK, LoopType, ProcStates
<1>2. HandlingType' BY Zenon DEF BeginRange, TypeOK, HandlingType
<1>3. HasObject'
  BY DEF BeginRange, TypeOK, LoopType, HasObject, Registering, Unregistering
<1> QED BY Zenon, <1>1, <1>2, <1>3, TypeFrame DEF BeginRange, TypeOK, procVars, loopVars

\* Spending one unit of a bound keeps the type of what is spent.
LEMMA SpendType ==
    ASSUME TypeOK, NEW k \in Resources, Spend(k) PROVE spent' \in [Resources -> Nat]
BY DEF TypeOK, HandlingType, Spend

\* Every call of the application is the head of a loop over some users that
\* selects some lines.
LEMMA CallIsRange ==
    ASSUME NEW p \in Callers, Call(p)
    PROVE  \E how \in {"closing", "pushing"}, users \in SUBSET Users,
              selected \in SUBSET Lines : BeginCall(p, how, users, selected)
<1>1. CASE CloseUserLines(p)
  BY Zenon, <1>1 DEF CloseUserLines, NonEmpty
<1>2. CASE PushMessage(p)
  BY Zenon, <1>2 DEF PushMessage, NonEmpty
<1>3. CASE CloseLines(p)
  <2>1. PICK u \in Users, ids \in NonEmpty(Ids) :
          BeginCall(p, "closing", {u}, ById(ids))
    BY Zenon, <1>3 DEF CloseLines
  <2>2. {u} \in SUBSET Users /\ ById(ids) \in SUBSET Lines BY Zenon DEF ById
  <2> QED BY Zenon, <2>1, <2>2
<1>4. CASE CloseLinesExcept(p)
  <2>1. PICK u \in Users, ids \in NonEmpty(Ids) :
          BeginCall(p, "closing", {u}, Lines \ ById(ids))
    BY Zenon, <1>4 DEF CloseLinesExcept
  <2>2. {u} \in SUBSET Users /\ Lines \ ById(ids) \in SUBSET Lines BY Zenon DEF ById
  <2> QED BY Zenon, <2>1, <2>2
<1>5. CASE ClosePlatforms(p)
  <2>1. PICK u \in Users, ps \in NonEmpty(Platforms) :
          BeginCall(p, "closing", {u}, ByPlatform(ps))
    BY Zenon, <1>5 DEF ClosePlatforms
  <2>2. {u} \in SUBSET Users /\ ByPlatform(ps) \in SUBSET Lines BY Zenon DEF ByPlatform
  <2> QED BY Zenon, <2>1, <2>2
<1>6. CASE ClosePlatformsExcept(p)
  <2>1. PICK u \in Users, ps \in NonEmpty(Platforms) :
          BeginCall(p, "closing", {u}, Lines \ ByPlatform(ps))
    BY Zenon, <1>6 DEF ClosePlatformsExcept
  <2>2. {u} \in SUBSET Users /\ Lines \ ByPlatform(ps) \in SUBSET Lines BY Zenon
        DEF ByPlatform
  <2> QED BY Zenon, <2>1, <2>2
<1>7. CASE PushMessageToLines(p)
  <2>1. PICK u \in Users, ids \in NonEmpty(Ids) :
          BeginCall(p, "pushing", {u}, ById(ids))
    BY Zenon, <1>7 DEF PushMessageToLines
  <2>2. {u} \in SUBSET Users /\ ById(ids) \in SUBSET Lines BY Zenon DEF ById
  <2> QED BY Zenon, <2>1, <2>2
<1>8. CASE PushMessageExceptLines(p)
  <2>1. PICK u \in Users, ids \in NonEmpty(Ids) :
          BeginCall(p, "pushing", {u}, Lines \ ById(ids))
    BY Zenon, <1>8 DEF PushMessageExceptLines
  <2>2. {u} \in SUBSET Users /\ Lines \ ById(ids) \in SUBSET Lines BY Zenon DEF ById
  <2> QED BY Zenon, <2>1, <2>2
<1>9. CASE PushMessageToPlatforms(p)
  <2>1. PICK u \in Users, ps \in NonEmpty(Platforms) :
          BeginCall(p, "pushing", {u}, ByPlatform(ps))
    BY Zenon, <1>9 DEF PushMessageToPlatforms
  <2>2. {u} \in SUBSET Users /\ ByPlatform(ps) \in SUBSET Lines BY Zenon DEF ByPlatform
  <2> QED BY Zenon, <2>1, <2>2
<1>10. CASE PushMessageExceptPlatforms(p)
  <2>1. PICK u \in Users, ps \in NonEmpty(Platforms) :
          BeginCall(p, "pushing", {u}, Lines \ ByPlatform(ps))
    BY Zenon, <1>10 DEF PushMessageExceptPlatforms
  <2>2. {u} \in SUBSET Users /\ Lines \ ByPlatform(ps) \in SUBSET Lines BY Zenon
        DEF ByPlatform
  <2> QED BY Zenon, <2>1, <2>2
<1> QED BY Zenon, <1>1, <1>2, <1>3, <1>4, <1>5, <1>6, <1>7, <1>8, <1>9, <1>10 DEF Call

\* A call of the application keeps TypeOK.
LEMMA CallKeepsTypes ==
    ASSUME TypeOK, NEW p \in Callers, Call(p) PROVE TypeOK'
<1>1. p \in Procs \ {"registrar", "unregistrar"}
  BY Zenon, HubAssumption, ProcNames DEF HubAssumption, HubProcs
<1> QED
  BY Zenon, <1>1, CallIsRange, SpendType, BeginRangeKeepsTypes DEF BeginCall, Resources

\* Receiving from MessageChan() or ErrorChan() keeps TypeOK.
LEMMA EventKeepsTypes == ASSUME TypeOK, ReceiveEvent PROVE TypeOK'
<1>0. HubChanType
  BY Zenon DEF TypeOK
<1>1. HubChanType'
  BY <1>0, HubAssumption DEF ReceiveEvent, HubChanType, HubAssumption
<1> QED BY Zenon, <1>1, TypeFrame DEF ReceiveEvent, Running, TypeOK, procVars, loopVars

\* A receive from a channel leaves a channel of lines within its capacity.
LEMMA ReceivedType ==
    ASSUME NEW s \in Seq(Lines), NEW c \in Nat, Len(s) <= c, NEW t,
           (s # <<>> /\ t = Tail(s)) \/ t = s
    PROVE  t \in Seq(Lines) /\ Len(t) <= c
OBVIOUS

\* Receiving from RegisteredChan() or UnegisteredChan() keeps TypeOK.
LEMMA ReceiveLineKeepsTypes == ASSUME TypeOK, ReceiveLine PROVE TypeOK'
<1>0. HubChanType
  BY Zenon DEF TypeOK
<1>1. HubChanType'
  <2>1. /\ messageChan' = messageChan /\ errorChan' = errorChan /\ hubClosed' = hubClosed
        /\ \/ registeredChan # <<>> /\ registeredChan' = Tail(registeredChan)
           \/ registeredChan' = registeredChan
        /\ \/ unregisteredChan # <<>> /\ unregisteredChan' = Tail(unregisteredChan)
           \/ unregisteredChan' = unregisteredChan
    BY Zenon DEF ReceiveLine
  <2>2. registeredChan' \in Seq(Lines) /\ Len(registeredChan') <= RegisteredCap
    BY Zenon, <1>0, <2>1, ReceivedType, HubAssumption DEF HubChanType, HubAssumption
  <2>3. unregisteredChan' \in Seq(Lines) /\ Len(unregisteredChan') <= UnregisteredCap
    BY Zenon, <1>0, <2>1, ReceivedType, HubAssumption DEF HubChanType, HubAssumption
  <2> QED BY Zenon, <1>0, <2>1, <2>2, <2>3 DEF HubChanType
<1> QED BY Zenon, <1>1, TypeFrame DEF ReceiveLine, Running, TypeOK, procVars, loopVars

\* Every reachable state of the hub is well typed, and no goroutine of the hub
\* dereferences a nil list or a nil line: for all lines, users, callers and
\* capacities.
THEOREM HubTypeCorrect == Spec => []TypeOK
<1>1. Init => TypeOK
  <2> SUFFICES ASSUME Init PROVE TypeOK OBVIOUS
  <2>1. LineType BY Zenon DEF Init, LineType, Tasks, TaskStates
  <2>2. ChanType /\ MapType
    BY HubAssumption DEF Init, ChanType, ChanStates, MapType, HubAssumption
  <2>3. ListType BY DEF Init, ListType
  <2>4. HubChanType
    <3>1. /\ messageChan = 0 /\ errorChan = 0 /\ hubClosed = 0
          /\ registeredChan = <<>> /\ unregisteredChan = <<>>
      BY Zenon DEF Init
    <3>2. /\ <<>> \in Seq(Lines) /\ Len(<<>>) = 0
          /\ MessageCap \in Nat /\ ErrorCap \in Nat
          /\ RegisteredCap \in Nat /\ UnregisteredCap \in Nat
      BY HubAssumption DEF HubAssumption
    <3> QED BY <3>1, <3>2 DEF HubChanType
  <2>5. LoopType BY DEF Init, LoopType, ProcStates
  <2>6. HandlingType BY Zenon DEF Init, HandlingType
  <2>7. HasObject BY Zenon, ProcNames DEF Init, HasObject
  <2> QED BY Zenon, <2>1, <2>2, <2>3, <2>4, <2>5, <2>6, <2>7 DEF TypeOK
<1>2. TypeOK /\ [Next]_vars => TypeOK'
  <2> SUFFICES ASSUME TypeOK, [Next]_vars PROVE TypeOK' OBVIOUS
  <2>1. CASE \E l \in Lines : Peer(l) \/ Starter(l) \/ Reader(l) \/ Writer(l)
    BY Zenon, <2>1, PeerKeepsTypes, StarterKeepsTypes, ReaderKeepsTypes, WriterKeepsTypes
  <2>2. CASE \E t \in Tasks, l \in Lines : Closing(t, l)
    BY Zenon, <2>2, ClosingKeepsTypes
  <2>3. CASE \E p \in Procs : Loop(p) BY Zenon, <2>3, LoopKeepsTypes
  <2>4. CASE \E p \in Callers : Call(p) BY Zenon, <2>4, CallKeepsTypes
  <2>5. CASE Registrar \/ Unregistrar \/ Reaper \/ Closer
    BY Zenon, <2>5, RegistrarKeepsTypes, UnregistrarKeepsTypes, ReaperKeepsTypes,
       CloserKeepsTypes
  <2>6. CASE Tick
    BY <2>6, SpendType, BeginRangeKeepsTypes, ProcNames DEF Tick, Resources
  <2>7. CASE BeginClose
    BY Zenon, <2>7, BeginRangeKeepsTypes, ProcNames DEF BeginClose, TypeOK, HandlingType
  <2>8. CASE ReceiveEvent BY Zenon, <2>8, EventKeepsTypes
  <2>9. CASE ReceiveLine BY Zenon, <2>9, ReceiveLineKeepsTypes
  <2>10. CASE UNCHANGED vars
    BY Zenon, <2>10, TypeFrame DEF vars, procVars, loopVars, TypeOK
  <2> QED BY Zenon, <2>1, <2>2, <2>3, <2>4, <2>5, <2>6, <2>7, <2>8, <2>9, <2>10 DEF Next
<1> QED BY <1>1, <1>2, PTL DEF Spec
-----------------------------------------------------------------------------
(* The locks.                                                              *)

\* The goroutine p is inside a loop over the lines of a list.
InLoop(p) == pc[p] \in {"sweep", "push"}

\* A step that leaves the mutexes alone, in which no goroutine enters, leaves or
\* changes the list of a loop over lines, keeps LockInv.
LEMMA LockFrame ==
    ASSUME TypeOK, LockInv, UNCHANGED <<wlock, rlocks>>,
           \A p \in Procs : InLoop(p) \/ InLoop(p)' => pc'[p] = pc[p] /\ obj'[p] = obj[p]
    PROVE  LockInv'
<1> USE DEF LockInv, LockDiscipline, InLoop, TypeOK, LoopType
<1>1. \A p \in Procs : pc'[p] = "sweep" => wlock'[obj'[p]] = p OBVIOUS
<1>2. \A p \in Procs : pc'[p] = "push" => p \in rlocks'[obj'[p]] OBVIOUS
<1>3. \A o \in Lines : wlock'[o] # None => rlocks'[o] = {} OBVIOUS
<1>4. \A p \in Procs, o \in Lines : wlock'[o] = p => pc'[p] = "sweep" /\ obj'[p] = o
  OBVIOUS
<1>5. \A p \in Procs, o \in Lines : p \in rlocks'[o] => pc'[p] = "push" /\ obj'[p] = o
  OBVIOUS
<1> QED BY Zenon, <1>1, <1>2, <1>3, <1>4, <1>5

\* A step that leaves the mutexes and the control of all goroutines alone does.
LEMMA LockStutter ==
    ASSUME TypeOK, LockInv, UNCHANGED <<listVars, pc, obj>>
    PROVE  LockInv'
BY Zenon, LockFrame DEF InLoop, listVars

\* The steps of a connection's own goroutines touch no list.
LEMMA LineStepsKeepLocks ==
    ASSUME TypeOK, LockInv, NEW l \in Lines,
           Peer(l) \/ Starter(l) \/ Reader(l) \/ Writer(l)
    PROVE  LockInv'
<1>1. UNCHANGED <<listVars, pc, obj>>
  <2>1. CASE Peer(l)
    BY Zenon, <2>1 DEF Peer, UpgradeWebSocket, SubmitFails, ReadFails, ReadOtherFrame,
         ReadBinary, LineStep, procVars, loopVars
  <2>2. CASE Starter(l)
    BY Zenon, <2>2 DEF Starter, SubmitReader, SubmitWriter, SendRegistered, LineStep,
         procVars, loopVars
  <2>3. CASE Reader(l)
    BY Zenon, <2>3 DEF Reader, SendMessage, LineStep, procVars, loopVars
  <2>4. CASE Writer(l)
    BY Zenon, <2>4 DEF Writer, EnterSelect, ReceiveClosed, ReceiveMessage, WriteMessage,
         LineStep, procVars, loopVars
  <2> QED BY Zenon, <2>1, <2>2, <2>3, <2>4
<1> QED BY Zenon, <1>1, LockStutter

\* Neither does Line.close.
LEMMA ClosingKeepsLocks ==
    ASSUME TypeOK, LockInv, NEW t \in Tasks, NEW l \in Lines, Closing(t, l)
    PROVE  LockInv'
<1>1. UNCHANGED <<listVars, pc, obj>>
  BY Zenon DEF Closing, SendError, CloseConn, SendUnregistered, TaskPanics, LineStep,
     procVars, loopVars
<1> QED BY Zenon, <1>1, LockStutter

\* A step of one goroutine p that is outside of the loops over lines before and
\* after, and that leaves the mutexes alone, keeps LockInv.
LEMMA OutsideKeepsLocks ==
    ASSUME TypeOK, LockInv, NEW p \in Procs, UNCHANGED <<wlock, rlocks>>,
           ~InLoop(p), ~InLoop(p)',
           \A q \in Procs \ {p} : pc'[q] = pc[q] /\ obj'[q] = obj[q]
    PROVE  LockInv'
BY Zenon, LockFrame DEF InLoop

\* Lock is taken only when nobody holds the mutex, Unlock and RUnlock end the loop
\* they protect, also when a send in the loop panics.
LEMMA LoopKeepsLocks ==
    ASSUME TypeOK, LockInv, NEW p \in Procs, Loop(p)
    PROVE  LockInv'
<1> USE HubAssumption DEF HubAssumption
<1>1. CASE AwaitLock(p)
  <2>1. ~InLoop(p) /\ ~InLoop(p)' BY Zenon, <1>1 DEF AwaitLock, InLoop, TypeOK, LoopType
  <2>2. \A q \in Procs \ {p} : pc'[q] = pc[q] /\ obj'[q] = obj[q]
    BY Zenon, <1>1 DEF AwaitLock, TypeOK, LoopType, loopVars
  <2> QED BY Zenon, <1>1, <2>1, <2>2, OutsideKeepsLocks DEF AwaitLock, listVars
<1>2. CASE LockLines(p)
  <2> USE <1>2 DEF LockLines, LockFree, LockInv, LockDiscipline, TypeOK, LoopType,
          ListType, HasObject
  <2>1. obj[p] \in Lines OBVIOUS
  <2>2. \A q \in Procs : pc'[q] = "sweep" => wlock'[obj'[q]] = q BY <2>1
  <2>3. \A q \in Procs : pc'[q] = "push" => q \in rlocks'[obj'[q]] BY <2>1
  <2>4. \A o \in Lines : wlock'[o] # None => rlocks'[o] = {} BY <2>1
  <2>5. \A q \in Procs, o \in Lines : wlock'[o] = q => pc'[q] = "sweep" /\ obj'[q] = o
    BY <2>1
  <2>6. \A q \in Procs, o \in Lines : q \in rlocks'[o] => pc'[q] = "push" /\ obj'[q] = o
    BY <2>1
  <2> QED BY Zenon, <2>2, <2>3, <2>4, <2>5, <2>6
<1>3. CASE KeepLine(p)
  BY Zenon, <1>3, LockStutter DEF KeepLine
<1>4. CASE SignalLine(p)
  BY Zenon, <1>4, LockStutter DEF SignalLine
<1>5. CASE UnlockLines(p)
  <2> USE <1>5 DEF UnlockLines, AfterSweep, LockInv, LockDiscipline, TypeOK, LoopType,
          ListType, HasObject
  <2>1. obj[p] \in Lines /\ pc'[p] \notin {"sweep", "push"} OBVIOUS
  <2>2. \A q \in Procs : pc'[q] = "sweep" => wlock'[obj'[q]] = q BY <2>1
  <2>3. \A q \in Procs : pc'[q] = "push" => q \in rlocks'[obj'[q]] BY <2>1
  <2>4. \A o \in Lines : wlock'[o] # None => rlocks'[o] = {} BY <2>1
  <2>5. \A q \in Procs, o \in Lines : wlock'[o] = q => pc'[q] = "sweep" /\ obj'[q] = o
    BY <2>1
  <2>6. \A q \in Procs, o \in Lines : q \in rlocks'[o] => pc'[q] = "push" /\ obj'[q] = o
    BY <2>1
  <2> QED BY Zenon, <2>2, <2>3, <2>4, <2>5, <2>6
<1>6. CASE RLockLines(p)
  <2> USE <1>6 DEF RLockLines, RLockFree, LockInv, LockDiscipline, TypeOK, LoopType,
          ListType, HasObject
  <2>1. obj[p] \in Lines OBVIOUS
  <2>2. \A q \in Procs : pc'[q] = "sweep" => wlock'[obj'[q]] = q BY <2>1
  <2>3. \A q \in Procs : pc'[q] = "push" => q \in rlocks'[obj'[q]] BY <2>1
  <2>4. \A o \in Lines : wlock'[o] # None => rlocks'[o] = {} BY <2>1
  <2>5. \A q \in Procs, o \in Lines : wlock'[o] = q => pc'[q] = "sweep" /\ obj'[q] = o
    BY <2>1
  <2>6. \A q \in Procs, o \in Lines : q \in rlocks'[o] => pc'[q] = "push" /\ obj'[q] = o
    BY <2>1
  <2> QED BY Zenon, <2>2, <2>3, <2>4, <2>5, <2>6
<1>7. CASE PushLine(p)
  BY Zenon, <1>7, LockStutter DEF PushLine
<1>8. CASE RUnlockLines(p)
  <2> USE <1>8 DEF RUnlockLines, LockInv, LockDiscipline, TypeOK, LoopType, ListType,
          HasObject, loopVars
  <2>1. obj[p] \in Lines OBVIOUS
  <2>2. \A q \in Procs : pc'[q] = "sweep" => wlock'[obj'[q]] = q BY <2>1
  <2>3. \A q \in Procs : pc'[q] = "push" => q \in rlocks'[obj'[q]] BY <2>1
  <2>4. \A o \in Lines : wlock'[o] # None => rlocks'[o] = {} BY <2>1
  <2>5. \A q \in Procs, o \in Lines : wlock'[o] = q => pc'[q] = "sweep" /\ obj'[q] = o
    BY <2>1
  <2>6. \A q \in Procs, o \in Lines : q \in rlocks'[o] => pc'[q] = "push" /\ obj'[q] = o
    BY <2>1
  <2> QED BY Zenon, <2>2, <2>3, <2>4, <2>5, <2>6
<1>9. CASE SendPanics(p)
  <2> USE <1>9 DEF SendPanics, SendsOnClosed, LockInv, LockDiscipline, TypeOK, LoopType,
          ListType, HasObject, loopVars
  <2>1. obj[p] \in Lines /\ pc[p] \in {"sweep", "push"} OBVIOUS
  <2>2. \A q \in Procs : pc'[q] = "sweep" => wlock'[obj'[q]] = q BY <2>1
  <2>3. \A q \in Procs : pc'[q] = "push" => q \in rlocks'[obj'[q]] BY <2>1
  <2>4. \A o \in Lines : wlock'[o] # None => rlocks'[o] = {} BY <2>1
  <2>5. \A q \in Procs, o \in Lines : wlock'[o] = q => pc'[q] = "sweep" /\ obj'[q] = o
    BY <2>1
  <2>6. \A q \in Procs, o \in Lines : q \in rlocks'[o] => pc'[q] = "push" /\ obj'[q] = o
    BY <2>1
  <2> QED BY Zenon, <2>2, <2>3, <2>4, <2>5, <2>6
<1>10. CASE VisitUser(p)
  <2>1. ~InLoop(p) /\ ~InLoop(p)'
    BY <1>10 DEF VisitUser, VisitStep, InLoop, TypeOK, LoopType
  <2>2. \A q \in Procs \ {p} : pc'[q] = pc[q] /\ obj'[q] = obj[q]
    BY Zenon, <1>10 DEF VisitUser, TypeOK, LoopType
  <2> QED BY Zenon, <1>10, <2>1, <2>2, OutsideKeepsLocks DEF VisitUser, listVars
<1>11. CASE EndRange(p)
  <2>1. ~InLoop(p) /\ ~InLoop(p)'
    BY Zenon, <1>11 DEF EndRange, AfterRange, InLoop, TypeOK, LoopType
  <2>2. \A q \in Procs \ {p} : pc'[q] = pc[q] /\ obj'[q] = obj[q]
    BY Zenon, <1>11 DEF EndRange, TypeOK, LoopType
  <2> QED BY Zenon, <1>11, <2>1, <2>2, OutsideKeepsLocks DEF EndRange, listVars
<1> QED BY Zenon, <1>1, <1>2, <1>3, <1>4, <1>5, <1>6, <1>7, <1>8, <1>9, <1>10, <1>11 DEF Loop

\* The registrar appends to a list only when its mutex is free, and takes and
\* releases the lock in that one step; its other steps are outside of the loops.
LEMMA RegistrarKeepsLocks ==
    ASSUME TypeOK, LockInv, Registrar
    PROVE  LockInv'
<1>1. "registrar" \in Procs BY Zenon, ProcNames
<1>2. UNCHANGED <<wlock, rlocks>>
  BY Zenon DEF Registrar, TakeRegistered, MakeWriteChan, LoadOrStore, AddLine,
     CountRegistered, listVars
<1>3. ~InLoop("registrar") /\ ~InLoop("registrar")'
  BY Zenon, <1>1 DEF Registrar, TakeRegistered, MakeWriteChan, LoadOrStore, AddLine,
     CountRegistered, InLoop, TypeOK, LoopType
<1>4. \A q \in Procs \ {"registrar"} : pc'[q] = pc[q] /\ obj'[q] = obj[q]
  BY Zenon DEF Registrar, TakeRegistered, MakeWriteChan, LoadOrStore, AddLine,
     CountRegistered, TypeOK, LoopType, loopVars
<1> QED BY Zenon, <1>1, <1>2, <1>3, <1>4, OutsideKeepsLocks

\* The unregistrar's own steps are outside of the loops; its sweep is a Loop step.
LEMMA UnregistrarKeepsLocks ==
    ASSUME TypeOK, LockInv, Unregistrar
    PROVE  LockInv'
<1>1. "unregistrar" \in Procs BY Zenon, ProcNames
<1>2. UNCHANGED <<wlock, rlocks>>
  BY Zenon DEF Unregistrar, TakeUnregistered, CountUnregistered, CloseCloseChan,
     CloseWriteChan, ClosePanics, TestEmpty, DeleteUser, listVars
<1>3. ~InLoop("unregistrar") /\ ~InLoop("unregistrar")'
  BY Zenon, <1>1 DEF Unregistrar, TakeUnregistered, CountUnregistered, CloseCloseChan,
     CloseWriteChan, ClosePanics, TestEmpty, DeleteUser, InLoop, TypeOK, LoopType
<1>4. \A q \in Procs \ {"unregistrar"} : pc'[q] = pc[q] /\ obj'[q] = obj[q]
  BY Zenon DEF Unregistrar, TakeUnregistered, CountUnregistered, CloseCloseChan,
     CloseWriteChan, ClosePanics, TestEmpty, DeleteUser, TypeOK, LoopType, loopVars
<1> QED BY Zenon, <1>1, <1>2, <1>3, <1>4, OutsideKeepsLocks

\* The reaper's test of Len and its deletions are outside of the loops.
LEMMA ReaperKeepsLocks ==
    ASSUME TypeOK, LockInv, Reaper
    PROVE  LockInv'
<1>1. "reaper" \in Procs BY Zenon, ProcNames
<1>2. UNCHANGED <<wlock, rlocks>> BY Zenon DEF Reaper, ReaperLen, ReaperDelete, listVars
<1>3. ~InLoop("reaper") /\ ~InLoop("reaper")'
  BY Zenon, <1>1 DEF Reaper, ReaperLen, ReaperDelete, InLoop, TypeOK, LoopType
<1>4. \A q \in Procs \ {"reaper"} : pc'[q] = pc[q] /\ obj'[q] = obj[q]
  BY Zenon DEF Reaper, ReaperLen, ReaperDelete, TypeOK, LoopType, loopVars
<1> QED BY Zenon, <1>1, <1>2, <1>3, <1>4, OutsideKeepsLocks

\* Hub.Close closes the hub's channels and clears the map outside of the loops.
LEMMA CloserKeepsLocks ==
    ASSUME TypeOK, LockInv, Closer
    PROVE  LockInv'
<1>1. CASE CloseHubChan
  BY Zenon, <1>1, LockStutter DEF CloseHubChan, procVars, loopVars
<1>2. CASE ClearConnections
  <2>1. "closer" \in Procs BY Zenon, ProcNames
  <2>2. ~InLoop("closer") /\ ~InLoop("closer")'
    BY Zenon, <1>2, <2>1 DEF ClearConnections, InLoop, TypeOK, LoopType
  <2>3. \A q \in Procs \ {"closer"} : pc'[q] = pc[q] /\ obj'[q] = obj[q]
    BY Zenon, <1>2 DEF ClearConnections, TypeOK, LoopType, loopVars
  <2> QED BY Zenon, <1>2, <2>1, <2>2, <2>3, OutsideKeepsLocks DEF ClearConnections,
             listVars
<1> QED BY Zenon, <1>1, <1>2 DEF Closer

\* The head of a loop over users is outside of the loops over lines.
LEMMA BeginRangeKeepsLocks ==
    ASSUME TypeOK, LockInv, NEW p \in Procs, NEW how \in {"closing", "pushing"},
           NEW users, NEW selected, BeginRange(p, how, users, selected)
    PROVE  LockInv'
<1>1. ~InLoop(p) /\ ~InLoop(p)' BY Zenon DEF BeginRange, InLoop, TypeOK, LoopType
<1>2. \A q \in Procs \ {p} : pc'[q] = pc[q] /\ obj'[q] = obj[q]
  BY Zenon DEF BeginRange, TypeOK, LoopType
<1> QED BY Zenon, <1>1, <1>2, OutsideKeepsLocks DEF BeginRange, listVars

\* Every step of the hub preserves LockInv.
LEMMA NextKeepsLocks ==
    ASSUME TypeOK, LockInv, [Next]_vars
    PROVE  LockInv'
<1>1. CASE \E l \in Lines : Peer(l) \/ Starter(l) \/ Reader(l) \/ Writer(l)
  BY Zenon, <1>1, LineStepsKeepLocks
<1>2. CASE \E t \in Tasks, l \in Lines : Closing(t, l) BY Zenon, <1>2, ClosingKeepsLocks
<1>3. CASE \E p \in Procs : Loop(p) BY Zenon, <1>3, LoopKeepsLocks
<1>4. CASE \E p \in Callers : Call(p)
  <2>1. PICK p \in Callers : Call(p) BY Zenon, <1>4
  <2>2. p \in Procs BY Zenon, ProcNames
  <2>3. PICK how \in {"closing", "pushing"}, users \in SUBSET Users,
             selected \in SUBSET Lines : BeginCall(p, how, users, selected)
    BY Zenon, <2>1, CallIsRange
  <2> QED BY Zenon, <2>2, <2>3, BeginRangeKeepsLocks DEF BeginCall
<1>5. CASE Registrar BY Zenon, <1>5, RegistrarKeepsLocks
<1>6. CASE Unregistrar BY Zenon, <1>6, UnregistrarKeepsLocks
<1>7. CASE Tick BY Zenon, <1>7, ProcNames, BeginRangeKeepsLocks DEF Tick
<1>8. CASE Reaper BY Zenon, <1>8, ReaperKeepsLocks
<1>9. CASE BeginClose BY Zenon, <1>9, ProcNames, BeginRangeKeepsLocks DEF BeginClose
<1>10. CASE Closer BY Zenon, <1>10, CloserKeepsLocks
<1>11. CASE ReceiveEvent
  BY Zenon, <1>11, LockStutter DEF ReceiveEvent, procVars, loopVars
<1>12. CASE ReceiveLine
  BY Zenon, <1>12, LockStutter DEF ReceiveLine, procVars, loopVars
<1>13. CASE UNCHANGED vars
  BY Zenon, <1>13, LockStutter DEF vars, procVars, loopVars
<1> QED
  BY Zenon, <1>1, <1>2, <1>3, <1>4, <1>5, <1>6, <1>7, <1>8, <1>9, <1>10, <1>11, <1>12, <1>13
     DEF Next

\* LockInv holds in every reachable state of the hub.
THEOREM HubLockInvariant == Spec => []LockInv
<1>1. Init => LockInv
  <2> SUFFICES ASSUME Init PROVE LockInv OBVIOUS
  <2>1. \A p \in Procs, o \in Lines : wlock[o] # p /\ p \notin rlocks[o]
    BY Zenon, HubAssumption DEF Init, HubAssumption
  <2>2. \A p \in Procs : pc[p] = "idle" BY Zenon DEF Init
  <2>3. \A o \in Lines : wlock[o] = None BY Zenon DEF Init
  <2> QED BY Zenon, <2>1, <2>2, <2>3 DEF LockInv, LockDiscipline
<1>2. TypeOK /\ LockInv /\ [Next]_vars => LockInv' BY Zenon, NextKeepsLocks
<1> QED BY <1>1, <1>2, HubTypeCorrect, PTL DEF Spec

\* Whatever goroutines run, wait or panic in them, the loops of UserLines that
\* close lines hold the list's lock, those that push hold its read lock, and the
\* two exclude each other: for all lines, users, callers and capacities.
THEOREM HubLocks == Spec => []LockDiscipline
<1>1. LockInv => LockDiscipline BY Zenon DEF LockInv
<1> QED BY <1>1, HubLockInvariant, PTL

\* A goroutine that panicked on a closed channel in a loop of UserLines holds no
\* lock of any list, so that the rest of a hub whose pool recovers can go on.
THEOREM HubNoAbandonedLock == Spec => []NoAbandonedLock
<1>1. LockInv => NoAbandonedLock BY Zenon DEF LockInv, NoAbandonedLock
<1> QED BY <1>1, HubLockInvariant, PTL
-----------------------------------------------------------------------------
(* Sequences of lines as sets.                                             *)

\* append adds its element, and repeats none that is new.
LEMMA ElemsAppend ==
    ASSUME NEW s \in Seq(Lines), NEW e \in Lines
    PROVE  /\ Append(s, e) \in Seq(Lines)
           /\ Elems(Append(s, e)) = Elems(s) \cup {e}
           /\ Distinct(s) /\ e \notin Elems(s) => Distinct(Append(s, e))
<1>1. /\ Append(s, e) \in Seq(Lines) /\ DOMAIN Append(s, e) = 1 .. Len(s) + 1
      /\ DOMAIN s = 1 .. Len(s) /\ Len(s) \in Nat
      /\ Append(s, e)[Len(s) + 1] = e
      /\ \A i \in 1 .. Len(s) : Append(s, e)[i] = s[i]
  OBVIOUS
<1>2. \A i \in 1 .. Len(s) + 1 : i \in 1 .. Len(s) \/ i = Len(s) + 1 BY <1>1
<1>3. Len(s) + 1 \in 1 .. Len(s) + 1 /\ 1 .. Len(s) \subseteq 1 .. Len(s) + 1 BY <1>1
<1>4. Elems(Append(s, e)) = Elems(s) \cup {e} BY Zenon, <1>1, <1>2, <1>3 DEF Elems
<1>5. Distinct(s) /\ e \notin Elems(s) => Distinct(Append(s, e))
  BY Zenon, <1>1, <1>2 DEF Elems, Distinct
<1> QED BY Zenon, <1>1, <1>4, <1>5

\* A loop that has passed the first element has the others to visit.
LEMMA ElemsTail ==
    ASSUME NEW s \in Seq(Lines), s # <<>>
    PROVE  /\ Head(s) \in Lines /\ Tail(s) \in Seq(Lines)
           /\ Elems(s) = Elems(Tail(s)) \cup {Head(s)}
           /\ Distinct(s) => Distinct(Tail(s)) /\ Head(s) \notin Elems(Tail(s))
<1>1. /\ Head(s) \in Lines /\ Tail(s) \in Seq(Lines) /\ Len(s) \in Nat \ {0}
      /\ DOMAIN s = 1 .. Len(s) /\ DOMAIN Tail(s) = 1 .. Len(s) - 1
      /\ Head(s) = s[1] /\ \A i \in 1 .. Len(s) - 1 : Tail(s)[i] = s[i + 1]
  OBVIOUS
<1>2. \A i \in 1 .. Len(s) - 1 : i + 1 \in 1 .. Len(s) /\ i + 1 # 1 BY <1>1
<1>3. \A i \in 1 .. Len(s) : i = 1 \/ (i - 1 \in 1 .. Len(s) - 1 /\ (i - 1) + 1 = i) BY <1>1
<1>4. 1 \in 1 .. Len(s) BY <1>1
<1>5. Elems(s) \subseteq Elems(Tail(s)) \cup {Head(s)}
  <2> SUFFICES ASSUME NEW i \in 1 .. Len(s), i # 1 PROVE s[i] \in Elems(Tail(s))
    BY Zenon, <1>1 DEF Elems
  <2>1. i - 1 \in DOMAIN Tail(s) /\ Tail(s)[i - 1] = s[i] BY Zenon, <1>1, <1>3
  <2> QED BY Zenon, <2>1 DEF Elems
<1>6. Elems(Tail(s)) \cup {Head(s)} \subseteq Elems(s) BY <1>1, <1>2, <1>4 DEF Elems
<1>7. ASSUME Distinct(s) PROVE Distinct(Tail(s)) /\ Head(s) \notin Elems(Tail(s))
  <2>1. \A i, j \in 1 .. Len(s) - 1 : Tail(s)[i] = Tail(s)[j] => i + 1 = j + 1
    BY <1>1, <1>2, <1>7 DEF Distinct
  <2>2. \A i \in 1 .. Len(s) - 1 : Tail(s)[i] # s[1]
    BY <1>1, <1>2, <1>4, <1>7 DEF Distinct
  <2> QED BY <1>1, <2>1, <2>2 DEF Distinct, Elems
<1> QED BY Zenon, <1>1, <1>5, <1>6, <1>7

\* An empty list has no elements.
LEMMA ElemsEmpty == Elems(<<>>) = {} /\ Distinct(<<>>)
BY DEF Elems, Distinct
-----------------------------------------------------------------------------
(* What is used of TypeOK and LockInv.                                     *)

\* TypeOK, part by part.
LEMMA TypeParts ==
    ASSUME TypeOK
    PROVE  /\ LineType /\ ChanType /\ ListType /\ MapType /\ HubChanType /\ LoopType
           /\ HandlingType /\ HasObject
BY Zenon DEF TypeOK

\* A goroutine inside an operation on a list has one.
LEMMA HasList ==
    ASSUME TypeOK, NEW p \in Procs,
           pc[p] \in {"lock", "waiting", "sweep", "rlock", "push", "len"}
    PROVE  obj[p] \in Lines
BY Zenon, TypeParts DEF HasObject, LoopType

\* Lists hold lines.
LEMMA ListedAreLines ==
    ASSUME TypeOK, NEW o \in Lines
    PROVE  lines[o] \in Seq(Lines) /\ Elems(lines[o]) \subseteq Lines
<1>1. lines[o] \in Seq(Lines) BY Zenon, TypeParts DEF ListType
<1> QED BY <1>1 DEF Elems

\* registeredChan holds lines.
LEMMA RegisteredAreLines == ASSUME TypeOK PROVE Elems(registeredChan) \subseteq Lines
<1>1. registeredChan \in Seq(Lines) BY Zenon, TypeParts DEF HubChanType
<1> QED BY <1>1 DEF Elems

\* A sweep holds the lock of its list.
LEMMA SweepHolds ==
    ASSUME TypeOK, LockInv, NEW p \in Procs, pc[p] = "sweep"
    PROVE  obj[p] \in Lines /\ wlock[obj[p]] = p
<1>1. obj[p] \in Lines BY Zenon, HasList
<1>2. wlock[obj[p]] = p BY Zenon DEF LockInv, LockDiscipline
<1> QED BY Zenon, <1>1, <1>2

\* Whoever holds the lock of a list sweeps it.
LEMMA HolderSweeps ==
    ASSUME LockInv, NEW p \in Procs, NEW o \in Lines, wlock[o] = p
    PROVE  pc[p] = "sweep" /\ obj[p] = o
BY Zenon DEF LockInv
-----------------------------------------------------------------------------
(* The steps that matter to the lists.                                     *)

RegistrarStates == {"idle", "make", "store", "lock", "waiting", "count"}

\* A step that touches no list, no channel of a line and no sweep, and leaves the
\* registrar where it is, or lets it wait; users may be deleted.
Calm ==
    /\ UNCHANGED <<leaving, closeChan, writeChan, lines, wlock, rest, kept>>
    /\ handling'["registrar"] = handling["registrar"] /\ (crashed => crashed')
    /\ \/ pc'["registrar"] = pc["registrar"]
       \/ pc["registrar"] = "lock" /\ pc'["registrar"] = "waiting"
    /\ obj'["registrar"] = obj["registrar"]
    /\ \A p \in Procs :
         /\ pc'[p] = "sweep" => pc[p] = "sweep" /\ obj'[p] = obj[p]
         /\ pc'[p] \notin {"sweep", "dead"} => pc[p] \notin {"sweep", "dead"}
    /\ \A u \in Users : connections'[u] \in {connections[u], None}

\* ... and leaves the way to the registrar alone.
CalmAll ==
    /\ Calm /\ UNCHANGED registeredChan
    /\ \A l \in Lines : starter[l] = "done" => starter'[l] = "done"

SweepStep(p) ==
    \/ LockLines(p) \/ KeepLine(p) \/ SignalLine(p) \/ UnlockLines(p) \/ RLockLines(p)
    \/ PushLine(p) \/ SendPanics(p)
KeyStep ==
    \/ \E l \in Lines : SendRegistered(l) \/ ReceiveClosed(l)
    \/ \E p \in Procs : SweepStep(p)
    \/ Registrar \/ CloseCloseChan \/ CloseWriteChan \/ ReceiveLine

\* The steps of a line's goroutines other than SendRegistered and ReceiveClosed.
LEMMA LineStepCalm ==
    ASSUME TypeOK, UNCHANGED <<leaving, chanVars, listVars, mapVars, pc, obj, rest, kept,
                               handling, registeredChan>>,
           crashed => crashed', \A l \in Lines : starter[l] = "done" => starter'[l] = "done"
    PROVE  CalmAll
BY Zenon DEF CalmAll, Calm, chanVars, listVars, mapVars

\* A step of one goroutine p that is not the registrar, outside of the sweeps.
LEMMA ProcStepCalm ==
    ASSUME TypeOK, NEW p \in Procs, p # "registrar", pc[p] \notin {"sweep", "dead"},
           pc'[p] # "sweep", \A q \in Procs \ {p} : pc'[q] = pc[q] /\ obj'[q] = obj[q],
           UNCHANGED <<starter, leaving, closeChan, writeChan, lines, wlock, rest, kept,
                       registeredChan>>,
           handling'["registrar"] = handling["registrar"], crashed => crashed',
           \A u \in Users : connections'[u] \in {connections[u], None}
    PROVE  CalmAll
BY Zenon, ProcNames DEF CalmAll, Calm

\* Every step of the hub is calm or one of the key steps.
LEMMA StepKinds ==
    ASSUME TypeOK, pc["registrar"] \in RegistrarStates, [Next]_vars
    PROVE  CalmAll \/ KeyStep
<1> USE HubAssumption DEF HubAssumption
<1>1. ASSUME NEW l \in Lines, Peer(l) \/ Starter(l) \/ Reader(l) \/ Writer(l)
      PROVE  CalmAll \/ KeyStep
  <2>1. CASE SendRegistered(l) \/ ReceiveClosed(l) BY Zenon, <2>1 DEF KeyStep
  <2>2. CASE UpgradeWebSocket(l)
    BY Zenon, <2>2, LineStepCalm, TypeParts DEF UpgradeWebSocket, LineStep, Running,
       hubChans,
       procVars, loopVars, LineType
  <2>3. CASE SubmitFails(l)
    BY Zenon, <2>3, LineStepCalm, TypeParts DEF SubmitFails, LineStep, Running, hubChans,
       procVars, loopVars, LineType
  <2>4. CASE ReadFails(l) \/ ReadOtherFrame(l) \/ ReadBinary(l) \/ SendMessage(l)
    BY Zenon, <2>4, LineStepCalm DEF ReadFails, ReadOtherFrame, ReadBinary, SendMessage,
       LineStep,
       Running, hubChans, procVars, loopVars
  <2>5. CASE SubmitReader(l) \/ SubmitWriter(l)
    BY Zenon, <2>5, LineStepCalm, TypeParts DEF SubmitReader, SubmitWriter, LineStep,
       Running,
       hubChans, procVars, loopVars, LineType
  <2>6. CASE EnterSelect(l) \/ WriteMessage(l)
    BY Zenon, <2>6, LineStepCalm DEF EnterSelect, WriteMessage, LineStep, Running,
       hubChans, procVars, loopVars
  <2>7. CASE ReceiveMessage(l)
    BY Zenon, <2>7 DEF ReceiveMessage, LineStep, Running, hubChans, procVars, loopVars,
       CalmAll,
       Calm, listVars, mapVars
  <2> QED BY Zenon, <1>1, <2>1, <2>2, <2>3, <2>4, <2>5, <2>6, <2>7
          DEF Peer, Starter, Reader, Writer
<1>2. ASSUME NEW t \in Tasks, NEW l \in Lines, Closing(t, l) PROVE CalmAll
  <2>1. CASE SendError(t, l) \/ CloseConn(t, l) \/ SendUnregistered(t, l)
    BY Zenon, <2>1, LineStepCalm DEF SendError, CloseConn, SendUnregistered, LineStep,
       Running,
       hubChans, procVars, loopVars
  <2>2. CASE TaskPanics(t, l)
    BY Zenon, <2>2, LineStepCalm DEF TaskPanics, Panics, hubChans, procVars, loopVars
  <2> QED BY Zenon, <1>2, <2>1, <2>2 DEF Closing
<1>3. ASSUME NEW p \in Procs, Loop(p) PROVE CalmAll \/ KeyStep
  <2>1. CASE SweepStep(p) BY Zenon, <2>1 DEF KeyStep
  <2>2. CASE AwaitLock(p)
    BY Zenon, <2>2, ProcNames, TypeParts DEF AwaitLock, ListStep, Running, lineVars,
       chanVars,
       listVars, mapVars, loopVars, hubChans, CalmAll, Calm, LoopType
  <2>3. CASE RUnlockLines(p)
    <3>1. p # "registrar" BY Zenon, <2>3 DEF RUnlockLines, RegistrarStates
    <3>2. /\ pc[p] = "push" /\ pc'[p] # "sweep"
          /\ \A q \in Procs \ {p} : pc'[q] = pc[q] /\ obj'[q] = obj[q]
      BY Zenon, <2>3, TypeParts DEF RUnlockLines, loopVars, LoopType
    <3>3. UNCHANGED <<starter, leaving, closeChan, writeChan, lines, wlock, rest, kept,
                      registeredChan, handling, crashed, connections>>
      BY Zenon, <2>3 DEF RUnlockLines, ListStep, Running, lineVars, chanVars, mapVars,
         loopVars,
         hubChans
    <3> QED BY Zenon, <3>1, <3>2, <3>3, ProcStepCalm
  <2>4. CASE VisitUser(p)
    <3>1. p # "registrar" /\ pc[p] \notin {"sweep", "dead"}
      BY Zenon, <2>4 DEF VisitUser, RegistrarStates
    <3>2. pc'[p] # "sweep" /\ \A q \in Procs \ {p} : pc'[q] = pc[q] /\ obj'[q] = obj[q]
      BY <2>4, TypeParts DEF VisitUser, VisitStep, LoopType
    <3> QED BY Zenon, <2>4, <3>1, <3>2, ProcStepCalm DEF VisitUser, ListStep, Running,
               lineVars,
            chanVars, listVars, mapVars, hubChans
  <2>5. CASE EndRange(p)
    <3>1. p # "registrar" /\ pc[p] \notin {"sweep", "dead"}
      BY Zenon, <2>5 DEF EndRange, RegistrarStates
    <3>2. pc'[p] # "sweep" /\ \A q \in Procs \ {p} : pc'[q] = pc[q] /\ obj'[q] = obj[q]
      BY Zenon, <2>5, TypeParts DEF EndRange, AfterRange, LoopType
    <3> QED BY Zenon, <2>5, <3>1, <3>2, ProcStepCalm DEF EndRange, ListStep, Running,
               lineVars,
            chanVars, listVars, mapVars, hubChans
  <2> QED BY Zenon, <1>3, <2>1, <2>2, <2>3, <2>4, <2>5 DEF Loop, SweepStep
<1>4. ASSUME NEW p \in Procs, p # "registrar", NEW how \in {"closing", "pushing"},
             NEW users, NEW selected, BeginRange(p, how, users, selected)
      PROVE  CalmAll
  <2>1. /\ pc[p] \notin {"sweep", "dead"} /\ pc'[p] # "sweep"
        /\ \A q \in Procs \ {p} : pc'[q] = pc[q] /\ obj'[q] = obj[q]
    BY Zenon, <1>4, TypeParts DEF BeginRange, LoopType
  <2> QED BY Zenon, <1>4, <2>1, ProcStepCalm DEF BeginRange, ListStep, Running, lineVars,
          chanVars, listVars, mapVars, hubChans
<1>5. CASE \E p \in Callers : Call(p)
  <2>1. PICK p \in Callers : Call(p) BY Zenon, <1>5
  <2>2. p \in Procs /\ p # "registrar" BY Zenon, ProcNames DEF HubProcs
  <2>3. PICK how \in {"closing", "pushing"}, users \in SUBSET Users,
             selected \in SUBSET Lines : BeginCall(p, how, users, selected)
    BY Zenon, <2>1, CallIsRange
  <2> QED BY Zenon, <2>2, <2>3, <1>4 DEF BeginCall
<1>6. CASE Tick BY Zenon, <1>6, <1>4, ProcNames DEF Tick
<1>7. CASE BeginClose BY Zenon, <1>7, <1>4, ProcNames DEF BeginClose
<1>8. CASE Unregistrar
  <2>1. CASE CloseCloseChan \/ CloseWriteChan BY Zenon, <2>1 DEF KeyStep
  <2>2. CASE TakeUnregistered
    <3>1. /\ pc["unregistrar"] = "idle" /\ pc'["unregistrar"] # "sweep"
          /\ \A q \in Procs \ {"unregistrar"} : pc'[q] = pc[q] /\ obj'[q] = obj[q]
          /\ handling'["registrar"] = handling["registrar"]
      BY Zenon, <2>2, ProcNames, TypeParts DEF TakeUnregistered, LoopType, HandlingType
    <3> QED BY Zenon, <2>2, <3>1, ProcStepCalm, ProcNames DEF TakeUnregistered, Running,
               lineVars,
            chanVars, listVars, mapVars
  <2>3. CASE CountUnregistered \/ TestEmpty
    <3>1. /\ pc["unregistrar"] \notin {"sweep", "dead"} /\ pc'["unregistrar"] # "sweep"
          /\ \A q \in Procs \ {"unregistrar"} : pc'[q] = pc[q] /\ obj'[q] = obj[q]
      BY Zenon, <2>3, ProcNames, TypeParts DEF CountUnregistered, TestEmpty, LoopType,
         loopVars
    <3> QED BY Zenon, <2>3, <3>1, ProcStepCalm, ProcNames DEF CountUnregistered,
               TestEmpty, ListStep,
            Running, lineVars, chanVars, listVars, mapVars, loopVars, hubChans
  <2>4. CASE ClosePanics
    <3>1. /\ pc["unregistrar"] \notin {"sweep", "dead"} /\ pc'["unregistrar"] # "sweep"
          /\ \A q \in Procs \ {"unregistrar"} : pc'[q] = pc[q] /\ obj'[q] = obj[q]
      BY Zenon, <2>4, ProcNames, TypeParts DEF ClosePanics, LoopType, loopVars
    <3> QED BY Zenon, <2>4, <3>1, ProcStepCalm, ProcNames DEF ClosePanics, Panics,
            lineVars, chanVars, listVars, mapVars, loopVars, hubChans
  <2>5. CASE DeleteUser
    <3>1. /\ pc["unregistrar"] \notin {"sweep", "dead"} /\ pc'["unregistrar"] # "sweep"
          /\ \A q \in Procs \ {"unregistrar"} : pc'[q] = pc[q] /\ obj'[q] = obj[q]
      BY Zenon, <2>5, ProcNames, TypeParts DEF DeleteUser, LoopType, loopVars
    <3>2. \A u \in Users : connections'[u] \in {connections[u], None}
      BY Zenon, <2>5, TypeParts DEF DeleteUser, MapType
    <3> QED BY Zenon, <2>5, <3>1, <3>2, ProcStepCalm, ProcNames DEF DeleteUser, ListStep,
            Running, lineVars, chanVars, listVars, loopVars, hubChans
  <2> QED BY Zenon, <1>8, <2>1, <2>2, <2>3, <2>4, <2>5 DEF Unregistrar
<1>9. CASE Reaper
  <2>1. /\ pc["reaper"] \notin {"sweep", "dead"} /\ pc'["reaper"] # "sweep"
        /\ \A q \in Procs \ {"reaper"} : pc'[q] = pc[q] /\ obj'[q] = obj[q]
    BY Zenon, <1>9, ProcNames, TypeParts DEF Reaper, ReaperLen, ReaperDelete, LoopType,
       loopVars
  <2>2. \A u \in Users : connections'[u] \in {connections[u], None}
    BY Zenon, <1>9, TypeParts DEF Reaper, ReaperLen, ReaperDelete, MapType, mapVars
  <2> QED BY Zenon, <1>9, <2>1, <2>2, ProcStepCalm, ProcNames DEF Reaper, ReaperLen,
             ReaperDelete,
          ListStep, Running, lineVars, chanVars, listVars, loopVars, hubChans
<1>10. CASE Closer
  <2>1. CASE CloseHubChan
    BY Zenon, <2>1, LineStepCalm DEF CloseHubChan, Running, lineVars, procVars, loopVars
  <2>2. CASE ClearConnections
    <3>1. /\ pc["closer"] \notin {"sweep", "dead"} /\ pc'["closer"] # "sweep"
          /\ \A q \in Procs \ {"closer"} : pc'[q] = pc[q] /\ obj'[q] = obj[q]
      BY Zenon, <2>2, ProcNames, TypeParts DEF ClearConnections, LoopType, loopVars
    <3>2. \A u \in Users : connections'[u] \in {connections[u], None}
      BY Zenon, <2>2 DEF ClearConnections
    <3> QED BY Zenon, <2>2, <3>1, <3>2, ProcStepCalm, ProcNames DEF ClearConnections,
               Running,
            lineVars, chanVars, listVars, loopVars
  <2> QED BY Zenon, <1>10, <2>1, <2>2 DEF Closer
<1>11. CASE ReceiveEvent
  BY Zenon, <1>11, LineStepCalm DEF ReceiveEvent, Running, lineVars, procVars, loopVars
<1>12. CASE UNCHANGED vars
  BY Zenon, <1>12, LineStepCalm DEF vars, lineVars, hubChans, procVars, loopVars
<1>13. CASE Registrar \/ ReceiveLine BY Zenon, <1>13 DEF KeyStep
<1> QED BY Zenon, <1>1, <1>2, <1>3, <1>5, <1>6, <1>7, <1>8, <1>9, <1>10, <1>11, <1>12,
           <1>13 DEF Next

\* A step of a loop over lines has a list, and sequences of lines.
LEMMA SweepStepHasList ==
    ASSUME TypeOK, NEW p \in Procs, SweepStep(p)
    PROVE  obj[p] \in Lines /\ rest[p] \in Seq(Lines) /\ kept[p] \in Seq(Lines)
<1>1. pc[p] \in {"lock", "waiting", "sweep", "rlock", "push"}
  BY Zenon DEF SweepStep, LockLines, KeepLine, SignalLine, UnlockLines, RLockLines,
     PushLine,
     SendPanics, SendsOnClosed
<1>2. obj[p] \in Lines BY Zenon, <1>1, HasList
<1> QED BY Zenon, <1>2, TypeParts DEF LoopType

\* The registrar runs no loop over lines.
LEMMA SweepersAreNotRegistrar ==
    ASSUME pc["registrar"] \in RegistrarStates, NEW p \in Procs, SweepStep(p)
    PROVE  p # "registrar"
BY Zenon DEF RegistrarStates, SweepStep, LockLines, KeepLine, SignalLine, UnlockLines,
   RLockLines,
   PushLine, SendPanics, SendsOnClosed

\* Receiving from RegisteredChan() or UnegisteredChan() is calm for the lists.
LEMMA ReceiveLineCalm == ASSUME ReceiveLine PROVE Calm
BY Zenon DEF ReceiveLine, Running, Calm, lineVars, chanVars, listVars, mapVars, procVars,
   loopVars
-----------------------------------------------------------------------------
(* The way of a line to the registrar.                                     *)

RegLayer == RegistrationInv /\ KeptInv

\* RegLayer, part by part.
LEMMA RegParts == ASSUME RegLayer PROVE RegistrationInv /\ KeptInv
BY Zenon DEF RegLayer

\* A calm step keeps RegLayer.
LEMMA CalmKeepsReg == ASSUME TypeOK, RegLayer, CalmAll PROVE RegLayer'
<1>1. RegistrationInv'
  <2>1. Elems(registeredChan) \subseteq Lines BY Zenon, RegisteredAreLines
  <2>2. /\ UNCHANGED <<registeredChan, leaving, closeChan, writeChan, Registering>>
        /\ \A l \in Lines : starter[l] = "done" => starter'[l] = "done"
        /\ \/ pc'["registrar"] = pc["registrar"]
           \/ pc["registrar"] = "lock" /\ pc'["registrar"] = "waiting"
    BY Zenon DEF CalmAll, Calm, Registering
  <2> QED BY Zenon, <2>1, <2>2 DEF RegLayer, RegistrationInv
<1>2. KeptInv' BY Zenon, RegParts DEF KeptInv, CalmAll, Calm
<1> QED BY Zenon, <1>1, <1>2 DEF RegLayer

\* A step that moves only a goroutine other than the registrar keeps RegistrationInv.
LEMMA OthersKeepReg ==
    ASSUME RegistrationInv, UNCHANGED <<starter, leaving, closeChan, writeChan, registeredChan>>,
           handling'["registrar"] = handling["registrar"],
           pc'["registrar"] = pc["registrar"]
    PROVE  RegistrationInv'
BY Zenon DEF RegistrationInv, Registering

\* registeredChan <- ln keeps RegLayer: a line is sent once.
LEMMA SendRegisteredKeepsReg ==
    ASSUME TypeOK, RegLayer, NEW l \in Lines, SendRegistered(l) PROVE RegLayer'
<1>1. /\ starter[l] # "done" /\ starter' = [starter EXCEPT ![l] = "done"]
      /\ registeredChan' \in {registeredChan, Append(registeredChan, l)}
      /\ UNCHANGED <<leaving, closeChan, writeChan, pc, kept, handling>>
  BY Zenon DEF SendRegistered, LineStep, chanVars, procVars, loopVars
<1>2. closeChan[l] = "nil" /\ l \notin Elems(registeredChan)
  BY Zenon, <1>1, RegParts DEF RegistrationInv
<1>3. registeredChan \in Seq(Lines) BY Zenon, TypeParts DEF HubChanType
<1>4. /\ Elems(registeredChan') \subseteq Elems(registeredChan) \cup {l}
      /\ Distinct(registeredChan')
  <2>1. Distinct(registeredChan) BY Zenon, RegParts DEF RegistrationInv
  <2>2. CASE registeredChan' = registeredChan BY Zenon, <2>1, <2>2
  <2>3. CASE registeredChan' = Append(registeredChan, l)
    BY Zenon, <1>2, <1>3, <2>1, <2>3, ElemsAppend
  <2> QED BY Zenon, <1>1, <2>2, <2>3
<1>5. \A k \in Lines : k # l => starter'[k] = starter[k] BY Zenon, <1>1, TypeParts
        DEF LineType
<1>6. starter'[l] = "done" BY Zenon, <1>1, TypeParts DEF LineType
<1>7. Elems(registeredChan) \subseteq Lines BY <1>3 DEF Elems
<1>8. RegistrationInv'
  BY <1>1, <1>2, <1>4, <1>5, <1>6, <1>7, RegParts DEF RegistrationInv, Registering
<1>9. KeptInv' BY Zenon, <1>1, RegParts DEF KeptInv
<1> QED BY Zenon, <1>8, <1>9 DEF RegLayer

\* So does receiving from RegisteredChan(): nothing is added.
LEMMA ReceiveLineKeepsReg == ASSUME TypeOK, RegLayer, ReceiveLine PROVE RegLayer'
<1>1. /\ registeredChan' = registeredChan
         \/ (registeredChan # <<>> /\ registeredChan' = Tail(registeredChan))
      /\ UNCHANGED <<starter, leaving, closeChan, writeChan, pc, kept, handling>>
  BY Zenon DEF ReceiveLine, lineVars, chanVars, procVars, loopVars
<1>2. registeredChan \in Seq(Lines) BY Zenon, TypeParts DEF HubChanType
<1>3. Elems(registeredChan') \subseteq Elems(registeredChan) /\ Distinct(registeredChan')
  <2>1. Distinct(registeredChan) BY Zenon, RegParts DEF RegistrationInv
  <2>2. CASE registeredChan' = registeredChan BY Zenon, <2>1, <2>2
  <2>3. CASE registeredChan # <<>> /\ registeredChan' = Tail(registeredChan)
    BY <2>1, <2>3, <1>2, ElemsTail
  <2> QED BY Zenon, <1>1, <2>2, <2>3
<1>4. RegistrationInv' BY Zenon, <1>1, <1>3, RegParts DEF RegistrationInv, Registering
<1>5. KeptInv' BY Zenon, <1>1, RegParts DEF KeptInv
<1> QED BY Zenon, <1>4, <1>5 DEF RegLayer

\* The writer is told by a closed channel: it is not nil.
LEMMA ReceiveClosedKeepsReg ==
    ASSUME TypeOK, RegLayer, NEW l \in Lines, ReceiveClosed(l) PROVE RegLayer'
<1>1. /\ closeChan[l] = "closed" /\ leaving' = [leaving EXCEPT ![l] = TRUE]
      /\ UNCHANGED <<starter, closeChan, writeChan, registeredChan, pc, kept, handling>>
  BY Zenon DEF ReceiveClosed, LineStep, chanVars, procVars, loopVars, hubChans
<1>2. \A k \in Lines : leaving'[k] => leaving[k] \/ k = l BY Zenon, <1>1, TypeParts
        DEF LineType
<1>3. UNCHANGED Registering BY Zenon, <1>1 DEF Registering
<1>4. RegistrationInv' BY Zenon, <1>1, <1>2, <1>3, RegParts DEF RegistrationInv
<1>5. KeptInv' BY Zenon, <1>1, RegParts DEF KeptInv
<1> QED BY Zenon, <1>4, <1>5 DEF RegLayer

\* The loops over a list keep RegLayer; the one line they tell has an open closeChan.
LEMMA SweepStepKeepsReg ==
    ASSUME TypeOK, RegLayer, NEW p \in Procs, SweepStep(p) PROVE RegLayer'
<1>1. p # "registrar"
  BY Zenon, RegParts DEF RegistrationInv, SweepStep, LockLines, KeepLine, SignalLine,
     UnlockLines, RLockLines, PushLine, SendPanics, SendsOnClosed
<1>2. /\ UNCHANGED <<starter, closeChan, writeChan, registeredChan, handling>>
      /\ pc'["registrar"] = pc["registrar"]
  <2> USE <1>1, TypeParts DEF ListStep, lineVars, chanVars, hubChans, LoopType
  <2>1. CASE LockLines(p) BY <2>1 DEF LockLines
  <2>2. CASE KeepLine(p) BY Zenon, <2>2 DEF KeepLine
  <2>3. CASE SignalLine(p) BY Zenon, <2>3 DEF SignalLine
  <2>4. CASE UnlockLines(p) BY <2>4 DEF UnlockLines
  <2>5. CASE RLockLines(p) BY <2>5 DEF RLockLines
  <2>6. CASE PushLine(p) BY Zenon, <2>6 DEF PushLine
  <2>7. CASE SendPanics(p) BY <2>7 DEF SendPanics
  <2> QED BY Zenon, <2>1, <2>2, <2>3, <2>4, <2>5, <2>6, <2>7 DEF SweepStep
<1>3. RegistrationInv'
  <2>1. CASE SignalLine(p)
    <3>1. PICK l \in Lines : closeChan[l] = "open" /\ leaving' = [leaving EXCEPT ![l] = TRUE]
      BY Zenon, <2>1, TypeParts DEF SignalLine, LoopType
    <3>2. \A k \in Lines : leaving'[k] => leaving[k] \/ k = l
      BY Zenon, <3>1, TypeParts DEF LineType
    <3> QED BY Zenon, <1>2, <3>1, <3>2, RegParts DEF RegistrationInv, Registering
  <2>2. CASE ~SignalLine(p)
    <3>1. UNCHANGED leaving
      BY Zenon, <2>2 DEF SweepStep, LockLines, KeepLine, UnlockLines, RLockLines,
         PushLine,
         SendPanics, ListStep, lineVars
    <3> QED BY Zenon, <1>2, <3>1, OthersKeepReg DEF RegLayer
  <2> QED BY Zenon, <2>1, <2>2
<1>4. KeptInv'
  <2>1. CASE LockLines(p) BY Zenon, <2>1, RegParts, TypeParts DEF LockLines, KeptInv,
                             LoopType
  <2>2. CASE KeepLine(p) BY Zenon, <2>2, RegParts, TypeParts DEF KeepLine, KeptInv, LoopType
  <2>3. CASE SignalLine(p) \/ PushLine(p) BY Zenon, <2>3, RegParts DEF SignalLine, PushLine,
       KeptInv
  <2>4. CASE UnlockLines(p) BY Zenon, <2>4, RegParts, TypeParts DEF UnlockLines, KeptInv,
       LoopType
  <2>5. CASE RLockLines(p) BY Zenon, <2>5, RegParts, TypeParts DEF RLockLines, KeptInv,
                              LoopType
  <2>6. CASE SendPanics(p)
    BY Zenon, <2>6, RegParts, TypeParts DEF SendPanics, loopVars, KeptInv, LoopType
  <2> QED BY Zenon, <2>1, <2>2, <2>3, <2>4, <2>5, <2>6 DEF SweepStep
<1> QED BY Zenon, <1>3, <1>4 DEF RegLayer

\* The registrar makes both channels of a line, in order, before it adds it.
LEMMA RegistrarKeepsReg == ASSUME TypeOK, RegLayer, Registrar PROVE RegLayer'
<1> USE ProcNames
<1>1. CASE TakeRegistered
  <2> DEFINE l == Head(registeredChan)
  <2>1. registeredChan \in Seq(Lines) /\ registeredChan # <<>>
    BY Zenon, <1>1, TypeParts DEF TakeRegistered, HubChanType
  <2>2. /\ l \in Lines /\ Elems(registeredChan) = Elems(Tail(registeredChan)) \cup {l}
        /\ Distinct(Tail(registeredChan)) /\ l \notin Elems(Tail(registeredChan))
    BY Zenon, <2>1, ElemsTail, RegParts DEF RegistrationInv
  <2> HIDE DEF l
  <2>3. /\ handling' = [handling EXCEPT !["registrar"] = l]
        /\ registeredChan' = Tail(registeredChan)
        /\ closeChan' = [closeChan EXCEPT ![l] = "open"]
        /\ pc' = [pc EXCEPT !["registrar"] = "make"]
        /\ UNCHANGED <<starter, leaving, writeChan, kept>>
    BY Zenon, <1>1 DEF TakeRegistered, l, lineVars, loopVars
  <2>4. starter[l] = "done" BY Zenon, <2>2, RegParts DEF RegistrationInv
  <2>5. /\ \A k \in Lines : closeChan'[k] = IF k = l THEN "open" ELSE closeChan[k]
        /\ handling'["registrar"] = l /\ pc'["registrar"] = "make"
    BY Zenon, <2>3, TypeParts DEF ChanType, HandlingType, LoopType
  <2>6. \A k \in Elems(registeredChan') : k \in Lines /\ k # l /\ k \in Elems(registeredChan)
    <3>1. Elems(registeredChan) \subseteq Lines BY <2>1 DEF Elems
    <3> QED BY Zenon, <2>2, <2>3, <3>1
  <2>7. RegistrationInv'
    BY SMTT(30), <2>2, <2>3, <2>4, <2>5, <2>6, RegParts DEF RegistrationInv, Registering
  <2>8. KeptInv' BY Zenon, <1>1, <2>3, RegParts, TypeParts DEF TakeRegistered, KeptInv,
                    LoopType
  <2> QED BY Zenon, <2>7, <2>8 DEF RegLayer
<1>2. CASE MakeWriteChan
  <2>1. Registering \in Lines /\ closeChan[Registering] # "nil"
    BY Zenon, <1>2, RegParts, TypeParts DEF MakeWriteChan, RegistrationInv, HasObject,
       HandlingType, Registering
  <2>2. /\ writeChan' = [writeChan EXCEPT ![Registering] = "open"]
        /\ pc' = [pc EXCEPT !["registrar"] = "store"]
        /\ UNCHANGED <<starter, leaving, closeChan, registeredChan, handling, kept>>
    BY Zenon, <1>2 DEF MakeWriteChan, ListStep, lineVars, hubChans, loopVars
  <2>3. RegistrationInv'
    BY Zenon, <2>1, <2>2, RegParts, TypeParts DEF RegistrationInv, Registering, ChanType,
       LoopType
  <2>4. KeptInv' BY Zenon, <1>2, <2>2, RegParts, TypeParts DEF MakeWriteChan, KeptInv,
                    LoopType
  <2> QED BY Zenon, <2>3, <2>4 DEF RegLayer
<1>3. CASE LoadOrStore \/ AddLine
  <2>1. /\ pc["registrar"] \in {"store", "lock", "waiting"}
        /\ pc' = [pc EXCEPT !["registrar"] = "lock"] \/ pc' = [pc EXCEPT !["registrar"] = "count"]
        /\ UNCHANGED <<starter, leaving, closeChan, writeChan, registeredChan, handling, kept>>
    BY Zenon, <1>3 DEF LoadOrStore, AddLine, ListStep, lineVars, chanVars, hubChans, loopVars
  <2>2. RegistrationInv'
    BY <2>1, RegParts, TypeParts DEF RegistrationInv, Registering, LoopType
  <2>3. \A p \in Procs : pc'[p] \notin {"sweep", "dead"} => pc[p] \notin {"sweep", "dead"}
    BY Zenon, <2>1, TypeParts DEF LoopType
  <2>4. KeptInv' BY Zenon, <2>1, <2>3, RegParts DEF KeptInv
  <2> QED BY Zenon, <2>2, <2>4 DEF RegLayer
<1>4. CASE CountRegistered
  <2>1. /\ pc["registrar"] = "count" /\ pc' = [pc EXCEPT !["registrar"] = "idle"]
        /\ handling' = [handling EXCEPT !["registrar"] = None]
        /\ UNCHANGED <<starter, leaving, closeChan, writeChan, registeredChan, kept>>
    BY Zenon, <1>4 DEF CountRegistered, ListStep, lineVars, chanVars, hubChans
  <2>2. RegistrationInv'
    BY Zenon, <2>1, RegParts, TypeParts DEF RegistrationInv, Registering, LoopType,
       HandlingType
  <2>3. KeptInv' BY Zenon, <2>1, RegParts, TypeParts DEF KeptInv, LoopType
  <2> QED BY Zenon, <2>2, <2>3 DEF RegLayer
<1> QED BY Zenon, <1>1, <1>2, <1>3, <1>4 DEF Registrar

\* The unregistrar closes channels that are open.
LEMMA CloseChanKeepsReg ==
    ASSUME TypeOK, RegLayer, CloseCloseChan \/ CloseWriteChan PROVE RegLayer'
<1> USE ProcNames
<1>1. Unregistering \in Lines
  BY Zenon, TypeParts DEF CloseCloseChan, CloseWriteChan, HasObject, HandlingType,
     Unregistering
<1>2. /\ pc["unregistrar"] \notin {"sweep", "dead"}
      /\ pc'["registrar"] = pc["registrar"]
      /\ \A p \in Procs : p # "unregistrar" => pc'[p] = pc[p]
      /\ UNCHANGED <<starter, leaving, registeredChan, handling, kept>>
  BY Zenon, TypeParts DEF CloseCloseChan, CloseWriteChan, ListStep, lineVars, hubChans,
     loopVars, LoopType
<1>3. KeptInv' BY Zenon, <1>2, RegParts DEF KeptInv
<1>4. CASE CloseCloseChan
  <2>1. /\ closeChan[Unregistering] = "open" /\ UNCHANGED writeChan
        /\ closeChan' = [closeChan EXCEPT ![Unregistering] = "closed"]
    BY Zenon, <1>4 DEF CloseCloseChan
  <2>2. \A l \in Lines : closeChan'[l] = "nil" <=> closeChan[l] = "nil"
    BY Zenon, <1>1, <2>1, TypeParts DEF ChanType
  <2>3. Registering \in Lines \cup {None} /\ \A l \in Elems(registeredChan) : l \in Lines
    BY TypeParts DEF HandlingType, HubChanType, Elems, Registering
  <2>4. pc["registrar"] # "idle" => Registering \in Lines
    BY Zenon, <2>3, TypeParts DEF HasObject
  <2>5. RegistrationInv'
    BY <1>2, <2>1, <2>2, <2>3, <2>4, RegParts DEF RegistrationInv, Registering
  <2> QED BY Zenon, <1>3, <2>5 DEF RegLayer
<1>5. CASE CloseWriteChan
  <2>1. /\ writeChan[Unregistering] = "open" /\ UNCHANGED closeChan
        /\ writeChan' = [writeChan EXCEPT ![Unregistering] = "closed"]
    BY Zenon, <1>5 DEF CloseWriteChan
  <2>2. \A l \in Lines : writeChan'[l] = "nil" <=> writeChan[l] = "nil"
    BY Zenon, <1>1, <2>1, TypeParts DEF ChanType
  <2>3. pc["registrar"] # "idle" => Registering \in Lines
    BY Zenon, TypeParts DEF HasObject, HandlingType, Registering
  <2>4. RegistrationInv'
    BY <1>2, <2>1, <2>2, <2>3, RegParts DEF RegistrationInv, Registering
  <2> QED BY Zenon, <1>3, <2>4 DEF RegLayer
<1> QED BY Zenon, <1>4, <1>5

\* RegLayer holds in every reachable state of the hub.
THEOREM HubRegistration == Spec => []RegLayer
<1>1. Init => RegLayer
  <2> SUFFICES ASSUME Init PROVE RegLayer OBVIOUS
  <2>1. RegistrationInv BY Zenon, ElemsEmpty, ProcNames DEF Init, RegistrationInv,
                           Registering
  <2>2. KeptInv BY Zenon DEF Init, KeptInv
  <2> QED BY Zenon, <2>1, <2>2 DEF RegLayer
<1>2. TypeOK /\ RegLayer /\ [Next]_vars => RegLayer'
  <2> SUFFICES ASSUME TypeOK, RegLayer, [Next]_vars PROVE RegLayer' OBVIOUS
  <2>1. CalmAll \/ KeyStep BY Zenon, StepKinds, RegParts DEF RegistrationInv, RegistrarStates
  <2> QED BY Zenon, <2>1, CalmKeepsReg, SendRegisteredKeepsReg, ReceiveLineKeepsReg,
          ReceiveClosedKeepsReg, SweepStepKeepsReg, RegistrarKeepsReg, CloseChanKeepsReg
          DEF KeyStep
<1> QED BY <1>1, <1>2, HubTypeCorrect, PTL DEF Spec
-----------------------------------------------------------------------------
(* What is in the lists, and what the sweeps make of them.                 *)

\* A list has no line twice, and two lists have none in common.
ListsDisjoint ==
    /\ \A o \in Lines : Distinct(lines[o])
    /\ \A o1, o2 \in Lines : o1 # o2 => Elems(lines[o1]) \cap Elems(lines[o2]) = {}
UnaddedUnlisted == \A l \in Lines : Unadded(l) => ~Listed(l)
SweepAt(p) ==
    pc[p] = "sweep" =>
        /\ Elems(rest[p]) \cup Elems(kept[p]) \subseteq Elems(lines[obj[p]])
        /\ \A l \in Elems(lines[obj[p]]) :
               l \in Elems(rest[p]) \cup Elems(kept[p]) \/ leaving[l]
        /\ Distinct(rest[p]) /\ Distinct(kept[p])
        /\ Elems(rest[p]) \cap Elems(kept[p]) = {}
ListLayer ==
    ListedHasChannels /\ UnaddedUnlisted /\ ListsDisjoint /\ \A p \in Procs : SweepAt(p)

\* ListLayer, part by part.
LEMMA ListParts ==
    ASSUME ListLayer
    PROVE  /\ ListedHasChannels /\ UnaddedUnlisted /\ ListsDisjoint
           /\ \A p \in Procs : SweepAt(p)
BY Zenon DEF ListLayer

\* A step that leaves the lists alone keeps ListLayer, when it keeps its sweeps, makes no
\* channel nil, and gives the registrar no line that is listed.
LEMMA ListFrame ==
    ASSUME ListLayer, UNCHANGED lines, \A p \in Procs : SweepAt(p)',
           \A l \in Lines : /\ closeChan[l] # "nil" => closeChan'[l] # "nil"
                            /\ writeChan[l] # "nil" => writeChan'[l] # "nil"
                            /\ Unadded(l)' => Unadded(l) \/ ~Listed(l)
    PROVE  ListLayer'
<1>1. \A l \in Lines : Listed(l)' = Listed(l) BY Zenon DEF Listed
<1>2. ListedHasChannels' BY Zenon, <1>1, ListParts DEF ListedHasChannels
<1>3. UnaddedUnlisted' BY Zenon, <1>1, ListParts DEF UnaddedUnlisted
<1>4. ListsDisjoint' BY Zenon, ListParts DEF ListsDisjoint
<1> QED BY Zenon, <1>2, <1>3, <1>4 DEF ListLayer

\* A sweep goes on when its list and its variables are left alone.
LEMMA SweepFrame ==
    ASSUME ListLayer, NEW p \in Procs, lines'[obj[p]] = lines[obj[p]],
           \A l \in Elems(lines[obj[p]]) : leaving[l] => leaving'[l],
           pc'[p] = "sweep" => /\ pc[p] = "sweep" /\ obj'[p] = obj[p]
                               /\ rest'[p] = rest[p] /\ kept'[p] = kept[p]
    PROVE  SweepAt(p)'
BY Zenon, ListParts DEF SweepAt

\* A calm step keeps ListLayer.
LEMMA CalmKeepsLists == ASSUME TypeOK, ListLayer, Calm PROVE ListLayer'
<1>1. \A p \in Procs : SweepAt(p)' BY Zenon, SweepFrame DEF Calm
<1>2. \A l \in Lines : Unadded(l)' => Unadded(l) BY Zenon DEF Calm, Unadded, Registering
<1> QED BY Zenon, <1>1, <1>2, ListFrame DEF Calm

\* The steps of the lines' goroutines keep ListLayer.
LEMMA LineKeepsLists ==
    ASSUME TypeOK, ListLayer, NEW l \in Lines, SendRegistered(l) \/ ReceiveClosed(l)
    PROVE  ListLayer'
<1>1. UNCHANGED <<lines, closeChan, writeChan, pc, obj, rest, kept, handling>>
  BY Zenon DEF SendRegistered, ReceiveClosed, LineStep, listVars, chanVars, procVars,
     loopVars
<1>2. \A k \in Lines : leaving[k] => leaving'[k]
  BY Zenon, TypeParts DEF SendRegistered, ReceiveClosed, LineType
<1>3. \A o \in Lines : Elems(lines[o]) \subseteq Lines BY TypeParts DEF ListType, Elems
<1>4. ASSUME NEW p \in Procs PROVE SweepAt(p)'
  <2>1. CASE pc[p] = "sweep"
    <3>1. obj[p] \in Lines BY Zenon, <2>1, HasList
    <3> QED BY Zenon, <1>1, <1>2, <1>3, <3>1, SweepFrame
  <2>2. CASE pc[p] # "sweep" BY Zenon, <2>2, <1>1 DEF SweepAt
  <2> QED BY Zenon, <2>1, <2>2
<1>5. \A k \in Lines : Unadded(k)' => Unadded(k) BY Zenon, <1>1 DEF Unadded, Registering
<1> QED BY Zenon, <1>1, <1>4, <1>5, ListFrame

\* The channels only go from nil to open to closed: ListLayer is kept.
LEMMA ChansKeepLists ==
    ASSUME TypeOK, ListLayer, CloseCloseChan \/ CloseWriteChan PROVE ListLayer'
<1> USE ProcNames
<1>1. /\ UNCHANGED <<lines, leaving, obj, rest, kept, handling>>
      /\ pc["unregistrar"] # "sweep" /\ pc'["unregistrar"] # "sweep"
      /\ \A p \in Procs : p # "unregistrar" => pc'[p] = pc[p]
  BY Zenon, TypeParts DEF CloseCloseChan, CloseWriteChan, ListStep, listVars, lineVars,
     loopVars, LoopType
<1>2. \A p \in Procs : SweepAt(p)' BY Zenon, <1>1, SweepFrame
<1>3. \A l \in Lines : /\ closeChan[l] # "nil" => closeChan'[l] # "nil"
                       /\ writeChan[l] # "nil" => writeChan'[l] # "nil"
  BY Zenon, TypeParts DEF CloseCloseChan, CloseWriteChan, ChanType
<1>4. \A k \in Lines : Unadded(k)' => Unadded(k) BY Zenon, <1>1 DEF Unadded, Registering
<1> QED BY Zenon, <1>1, <1>2, <1>3, <1>4, ListFrame

\* The registrar's steps before and after add keep ListLayer: the line it takes has no
\* channel, so it is in no list.
LEMMA RegistrarKeepsLists ==
    ASSUME TypeOK, RegLayer, ListLayer,
           TakeRegistered \/ MakeWriteChan \/ LoadOrStore \/ CountRegistered
    PROVE  ListLayer'
<1> USE ProcNames
<1>1. /\ UNCHANGED <<lines, leaving, rest, kept>>
      /\ pc["registrar"] # "sweep" /\ pc'["registrar"] # "sweep"
      /\ \A p \in Procs : p # "registrar" => pc'[p] = pc[p] /\ obj'[p] = obj[p]
  BY Zenon, TypeParts DEF TakeRegistered, MakeWriteChan, LoadOrStore, CountRegistered,
     ListStep,
     listVars, lineVars, loopVars, LoopType
<1>2. \A p \in Procs : SweepAt(p)' BY Zenon, <1>1, SweepFrame DEF SweepAt
<1>3. \A l \in Lines : /\ closeChan[l] # "nil" => closeChan'[l] # "nil"
                       /\ writeChan[l] # "nil" => writeChan'[l] # "nil"
  BY Zenon, TypeParts DEF TakeRegistered, MakeWriteChan, LoadOrStore, CountRegistered,
     chanVars,
     ChanType
<1>4. ASSUME NEW l \in Lines, Unadded(l)' PROVE Unadded(l) \/ ~Listed(l)
  <2>1. CASE TakeRegistered
    <3>1. registeredChan \in Seq(Lines) /\ registeredChan # <<>>
      BY Zenon, <2>1, TypeParts DEF TakeRegistered, HubChanType
    <3>2. l = Head(registeredChan)
      BY Zenon, <1>4, <2>1, TypeParts DEF TakeRegistered, Unadded, Registering, HandlingType
    <3>3. l \in Elems(registeredChan) BY Zenon, <3>1, <3>2, ElemsTail
    <3>4. closeChan[l] = "nil" BY Zenon, <3>3, RegParts DEF RegistrationInv
    <3> QED BY Zenon, <3>4 DEF ListLayer, ListedHasChannels
  <2>2. CASE MakeWriteChan \/ LoadOrStore
    BY Zenon, <1>4, <2>2 DEF MakeWriteChan, LoadOrStore, Unadded, Registering
  <2>3. CASE CountRegistered
    BY Zenon, <1>4, <2>3, TypeParts DEF CountRegistered, Unadded, LoopType
  <2> QED BY Zenon, <2>1, <2>2, <2>3
<1> QED BY Zenon, <1>1, <1>2, <1>3, <1>4, ListFrame

\* add keeps ListLayer: the line is in no list yet, and nobody sweeps the list.
LEMMA AddLineKeepsLists ==
    ASSUME TypeOK, LockInv, RegLayer, ListLayer, AddLine PROVE ListLayer'
<1> DEFINE o == obj["registrar"]
           l == Registering
<1> USE ProcNames
<1>1. o \in Lines /\ l \in Lines /\ wlock[o] = None /\ Unadded(l)
  BY Zenon, TypeParts DEF AddLine, LockFree, HasObject, HandlingType, LoopType, Registering,
     Unadded
<1>2. ~Listed(l) /\ closeChan[l] # "nil" /\ writeChan[l] # "nil"
  BY Zenon, <1>1, ListParts, RegParts DEF AddLine, UnaddedUnlisted, RegistrationInv
<1>3. /\ lines' = [lines EXCEPT ![o] = Append(@, l)]
      /\ pc' = [pc EXCEPT !["registrar"] = "count"]
      /\ UNCHANGED <<leaving, closeChan, writeChan, obj, rest, kept, handling>>
  BY Zenon DEF AddLine, ListStep, lineVars, chanVars, loopVars
<1> HIDE DEF o, l
<1>4. /\ \A k \in Lines : k # o => lines'[k] = lines[k]
      /\ lines'[o] = Append(lines[o], l) /\ lines[o] \in Seq(Lines)
  BY Zenon, <1>1, <1>3, TypeParts DEF ListType
<1>5. l \notin Elems(lines[o]) BY Zenon, <1>1, <1>2 DEF Listed
<1>6. Elems(lines'[o]) = Elems(lines[o]) \cup {l} /\ Distinct(lines'[o])
  <2>1. Distinct(lines[o]) BY Zenon, <1>1, ListParts DEF ListsDisjoint
  <2> QED BY Zenon, <1>1, <1>4, <1>5, <2>1, ElemsAppend
<1>7. \A k \in Lines : Listed(k)' => Listed(k) \/ k = l BY Zenon, <1>1, <1>4, <1>6 DEF Listed
<1>8. ListedHasChannels' BY Zenon, <1>2, <1>3, <1>7, ListParts DEF ListedHasChannels
<1>9. UnaddedUnlisted' BY Zenon, <1>3, TypeParts DEF UnaddedUnlisted, Unadded, LoopType
<1>10. ListsDisjoint'
  <2>1. \A k \in Lines : l \notin Elems(lines[k]) BY Zenon, <1>2 DEF Listed
  <2>2. \A k \in Lines : Distinct(lines'[k]) BY Zenon, <1>4, <1>6, ListParts
        DEF ListsDisjoint
  <2>3. ASSUME NEW o1 \in Lines, NEW o2 \in Lines, o1 # o2
        PROVE  Elems(lines'[o1]) \cap Elems(lines'[o2]) = {}
    <3>1. CASE o1 # o /\ o2 # o BY Zenon, <2>3, <3>1, <1>4, ListParts DEF ListsDisjoint
    <3>2. CASE o1 = o BY Zenon, <2>1, <2>3, <3>2, <1>4, <1>6, ListParts DEF ListsDisjoint
    <3>3. CASE o2 = o BY Zenon, <2>1, <2>3, <3>3, <1>4, <1>6, ListParts DEF ListsDisjoint
    <3> QED BY Zenon, <3>1, <3>2, <3>3
  <2> QED BY Zenon, <2>2, <2>3 DEF ListsDisjoint
<1>11. ASSUME NEW p \in Procs PROVE SweepAt(p)'
  <2>1. CASE pc[p] = "sweep"
    <3>1. obj[p] \in Lines /\ wlock[obj[p]] = p
      BY Zenon, <2>1, SweepHolds
    <3>2. obj[p] # o BY Zenon, <1>1, <3>1, HubAssumption DEF HubAssumption
    <3>3. lines'[obj[p]] = lines[obj[p]] BY Zenon, <1>4, <3>1, <3>2
    <3> QED BY Zenon, <2>1, <1>3, <3>3, SweepFrame
  <2>2. CASE pc[p] # "sweep" BY Zenon, <2>2, <1>3, TypeParts DEF SweepAt, LoopType
  <2> QED BY Zenon, <2>1, <2>2
<1> QED BY Zenon, <1>8, <1>9, <1>10, <1>11 DEF ListLayer

\* u.lines = lines keeps ListLayer: the slice holds lines of the list, each once.
LEMMA UnlockKeepsLists ==
    ASSUME TypeOK, LockInv, ListLayer, NEW p \in Procs, p # "registrar", UnlockLines(p)
    PROVE  ListLayer'
<1> DEFINE o == obj[p]
<1>1. o \in Lines /\ wlock[o] = p /\ pc[p] = "sweep"
  BY Zenon, SweepHolds DEF UnlockLines
<1>2. /\ lines' = [lines EXCEPT ![o] = kept[p]]
      /\ \A q \in Procs : q # p => pc'[q] = pc[q] /\ kept'[q] = kept[q]
      /\ pc'[p] # "sweep" /\ UNCHANGED <<leaving, closeChan, writeChan, obj, rest, handling>>
  BY Zenon, TypeParts DEF UnlockLines, AfterSweep, ListStep, lineVars, chanVars, LoopType
<1>3. Elems(kept[p]) \subseteq Elems(lines[o]) /\ Distinct(kept[p])
  BY Zenon, <1>1, ListParts DEF SweepAt
<1> HIDE DEF o
<1>4. \A k \in Lines : lines'[k] = IF k = o THEN kept[p] ELSE lines[k]
  BY Zenon, <1>1, <1>2, TypeParts DEF ListType
<1>5. \A k \in Lines : Elems(lines'[k]) \subseteq Elems(lines[k]) /\ Distinct(lines'[k])
  BY Zenon, <1>3, <1>4, ListParts DEF ListsDisjoint
<1>6. \A k \in Lines : Listed(k)' => Listed(k) BY Zenon, <1>5 DEF Listed
<1>7. ListedHasChannels' BY Zenon, <1>2, <1>6, ListParts DEF ListedHasChannels
<1>8. UnaddedUnlisted'
  BY Zenon, <1>2, <1>6, ProcNames, ListParts DEF UnaddedUnlisted, Unadded, Registering
<1>9. ListsDisjoint' BY Zenon, <1>5, ListParts DEF ListsDisjoint
<1>10. ASSUME NEW q \in Procs PROVE SweepAt(q)'
  <2>1. CASE q # p /\ pc[q] = "sweep"
    <3>1. obj[q] \in Lines /\ wlock[obj[q]] = q
      BY Zenon, <2>1, SweepHolds
    <3>2. lines'[obj[q]] = lines[obj[q]] BY Zenon, <1>1, <1>4, <2>1, <3>1
    <3> QED BY Zenon, <1>2, <2>1, <3>2, SweepFrame
  <2>2. CASE q = p \/ pc[q] # "sweep" BY Zenon, <1>2, <2>2 DEF SweepAt
  <2> QED BY Zenon, <2>1, <2>2
<1> QED BY Zenon, <1>7, <1>8, <1>9, <1>10 DEF ListLayer

\* The steps inside a loop keep ListLayer: the sweep accounts for every line it passes.
LEMMA LoopKeepsLists ==
    ASSUME TypeOK, LockInv, RegLayer, ListLayer, NEW p \in Procs, p # "registrar",
           SweepStep(p), ~UnlockLines(p)
    PROVE  ListLayer'
<1>1. /\ UNCHANGED <<lines, closeChan, writeChan, obj, handling>>
      /\ \A q \in Procs : q # p => /\ pc'[q] = pc[q] /\ rest'[q] = rest[q]
                                   /\ kept'[q] = kept[q]
  <2> USE TypeParts DEF ListStep, chanVars, listVars, loopVars, LoopType
  <2>1. CASE LockLines(p) BY Zenon, <2>1 DEF LockLines
  <2>2. CASE KeepLine(p) BY Zenon, <2>2 DEF KeepLine
  <2>3. CASE SignalLine(p) BY Zenon, <2>3 DEF SignalLine
  <2>4. CASE RLockLines(p) BY Zenon, <2>4 DEF RLockLines
  <2>5. CASE PushLine(p) BY Zenon, <2>5 DEF PushLine
  <2>6. CASE SendPanics(p) BY Zenon, <2>6 DEF SendPanics
  <2> QED BY Zenon, <2>1, <2>2, <2>3, <2>4, <2>5, <2>6 DEF SweepStep
<1>2. obj[p] \in Lines /\ lines[obj[p]] \in Seq(Lines) /\ rest[p] \in Seq(Lines)
      /\ kept[p] \in Seq(Lines)
  BY Zenon, SweepStepHasList, ListedAreLines
<1>3. \A l \in Lines : leaving[l] => leaving'[l]
  <2>1. CASE SignalLine(p) BY Zenon, <2>1, TypeParts DEF SignalLine, LineType
  <2>2. CASE ~SignalLine(p)
    BY Zenon, <2>2 DEF SweepStep, LockLines, KeepLine, RLockLines, PushLine, SendPanics,
       ListStep,
       lineVars
  <2> QED BY Zenon, <2>1, <2>2
<1>4. \A o \in Lines : Elems(lines[o]) \subseteq Lines BY TypeParts DEF ListType, Elems
<1>5. ASSUME NEW q \in Procs, q # p PROVE SweepAt(q)'
  <2>1. CASE pc[q] = "sweep"
    <3>1. obj[q] \in Lines BY Zenon, <2>1, HasList
    <3> QED BY Zenon, <1>1, <1>3, <1>4, <1>5, <3>1, SweepFrame
  <2>2. CASE pc[q] # "sweep" BY Zenon, <1>1, <1>5, <2>2 DEF SweepAt
  <2> QED BY Zenon, <2>1, <2>2
<1>6. SweepAt(p)'
  <2>1. CASE LockLines(p)
    <3>1. rest'[p] = lines[obj[p]] /\ kept'[p] = <<>>
      BY Zenon, <2>1, RegParts, TypeParts DEF LockLines, KeptInv, LoopType
    <3> QED BY Zenon, <1>1, <1>2, <3>1, ElemsEmpty DEF SweepAt, ListLayer, ListsDisjoint
  <2>2. CASE KeepLine(p)
    <3>1. /\ pc[p] = "sweep" /\ rest[p] # <<>> /\ UNCHANGED leaving
          /\ rest'[p] = Tail(rest[p]) /\ kept'[p] = Append(kept[p], Head(rest[p]))
      BY Zenon, <2>2, TypeParts DEF KeepLine, ListStep, lineVars, LoopType
    <3>2. SweepAt(p) BY Zenon, ListParts
    <3>3. /\ Elems(rest[p]) = Elems(Tail(rest[p])) \cup {Head(rest[p])}
          /\ Distinct(Tail(rest[p])) /\ Head(rest[p]) \notin Elems(Tail(rest[p]))
          /\ Head(rest[p]) \in Lines
      BY Zenon, <1>2, <3>1, <3>2, ElemsTail DEF SweepAt
    <3>4. Head(rest[p]) \notin Elems(kept[p]) BY Zenon, <3>1, <3>2, <3>3 DEF SweepAt
    <3>5. /\ Elems(kept'[p]) = Elems(kept[p]) \cup {Head(rest[p])} /\ Distinct(kept'[p])
      BY <1>2, <3>1, <3>2, <3>3, <3>4, ElemsAppend DEF SweepAt
    <3>6. Elems(rest'[p]) \cup Elems(kept'[p]) = Elems(rest[p]) \cup Elems(kept[p])
      BY Zenon, <3>1, <3>3, <3>5
    <3>7. Elems(rest'[p]) \cap Elems(kept'[p]) = {}
      BY Zenon, <3>1, <3>2, <3>3, <3>5 DEF SweepAt
    <3>8. UNCHANGED <<lines[obj[p]], leaving>> BY Zenon, <1>1, <3>1
    <3> QED BY Zenon, <3>1, <3>2, <3>3, <3>5, <3>6, <3>7, <3>8 DEF SweepAt
  <2>3. CASE SignalLine(p)
    <3>1. /\ pc[p] = "sweep" /\ rest[p] # <<>> /\ rest'[p] = Tail(rest[p]) /\ UNCHANGED kept
          /\ leaving' = [leaving EXCEPT ![Head(rest[p])] = TRUE]
      BY Zenon, <2>3, TypeParts DEF SignalLine, LoopType
    <3>2. SweepAt(p) BY Zenon, ListParts
    <3>3. /\ Elems(rest[p]) = Elems(Tail(rest[p])) \cup {Head(rest[p])}
          /\ Distinct(Tail(rest[p])) /\ Head(rest[p]) \in Lines
      BY Zenon, <1>2, <3>1, <3>2, ElemsTail DEF SweepAt
    <3>4. leaving'[Head(rest[p])] BY Zenon, <3>1, <3>3, TypeParts DEF LineType
    <3> QED BY Zenon, <1>1, <1>2, <1>3, <1>4, <3>1, <3>2, <3>3, <3>4 DEF SweepAt
  <2>4. CASE RLockLines(p) \/ PushLine(p) \/ SendPanics(p)
    <3>1. pc'[p] # "sweep"
      BY Zenon, <2>4, TypeParts DEF RLockLines, PushLine, SendPanics, LoopType
    <3> QED BY Zenon, <3>1 DEF SweepAt
  <2> QED BY Zenon, <2>1, <2>2, <2>3, <2>4 DEF SweepStep
<1>7. \A l \in Lines : Unadded(l)' => Unadded(l)
  BY Zenon, <1>1, ProcNames DEF Unadded, Registering
<1> QED BY Zenon, <1>1, <1>5, <1>6, <1>7, ListFrame

\* ListLayer holds in every reachable state of the hub.
THEOREM HubLists == Spec => []ListLayer
<1>1. Init => ListLayer
  <2> SUFFICES ASSUME Init PROVE ListLayer OBVIOUS
  <2>1. \A o \in Lines : Elems(lines[o]) = {} /\ Distinct(lines[o]) BY Zenon, ElemsEmpty
        DEF Init
  <2>2. \A p \in Procs : pc[p] = "idle" BY Zenon DEF Init
  <2> QED BY Zenon, <2>1, <2>2 DEF ListLayer, ListedHasChannels, UnaddedUnlisted, Listed,
          ListsDisjoint, SweepAt
<1>2. TypeOK /\ LockInv /\ RegLayer /\ ListLayer /\ [Next]_vars => ListLayer'
  <2> SUFFICES ASSUME TypeOK, LockInv, RegLayer, ListLayer, [Next]_vars PROVE ListLayer'
    OBVIOUS
  <2>1. CalmAll \/ KeyStep BY Zenon, StepKinds, RegParts DEF RegistrationInv, RegistrarStates
  <2>2. CASE CalmAll BY Zenon, <2>2, CalmKeepsLists DEF CalmAll
  <2>3. ASSUME NEW p \in Procs, SweepStep(p) PROVE ListLayer'
    <3>1. p # "registrar" BY Zenon, <2>3, SweepersAreNotRegistrar, RegParts
                             DEF RegistrationInv,
         RegistrarStates
    <3> QED BY Zenon, <2>3, <3>1, UnlockKeepsLists, LoopKeepsLists
  <2>4. CASE ReceiveLine
    <3>1. Calm BY Zenon, <2>4, ReceiveLineCalm
    <3> QED BY Zenon, <3>1, CalmKeepsLists
  <2> QED BY Zenon, <2>1, <2>2, <2>3, <2>4, LineKeepsLists, ChansKeepLists,
             RegistrarKeepsLists,
          AddLineKeepsLists DEF KeyStep, Registrar
<1> QED BY <1>1, <1>2, HubTypeCorrect, HubLockInvariant, HubRegistration, PTL DEF Spec

\* Lines are added once, and lists only ever shrink otherwise: no connection of hub.go
\* is in two lists, or twice in one, for all users, lines, callers and capacities.
THEOREM HubListedOnce == Spec => []ListedOnce
<1>1. ListLayer => ListedOnce
  <2> SUFFICES ASSUME ListLayer, NEW o1 \in Lines, NEW o2 \in Lines,
                      NEW i \in DOMAIN lines[o1], NEW j \in DOMAIN lines[o2],
                      lines[o1][i] = lines[o2][j]
               PROVE  o1 = o2 /\ i = j
    BY Zenon DEF ListedOnce
  <2>1. o1 = o2 BY Zenon, ListParts DEF ListsDisjoint, Elems
  <2> QED BY Zenon, <2>1 DEF ListLayer, ListsDisjoint, Distinct
<1> QED BY <1>1, HubLists, PTL

\* A line is in a list only with both of its channels made: no close or push waits on a
\* nil channel.
THEOREM HubListedHasChannels == Spec => []ListedHasChannels
<1>1. ListLayer => ListedHasChannels BY Zenon, ListParts
<1> QED BY <1>1, HubLists, PTL
-----------------------------------------------------------------------------
(* Whose lists they are.                                                   *)

\* A step keeps OwnerInv when no list grows, no user gets another list, and the registrar
\* keeps its list and its line.
LEMMA OwnerFrame ==
    ASSUME TypeOK, OwnerInv,
           \A o \in Lines : Elems(lines'[o]) \subseteq Elems(lines[o]),
           \A u \in Users : connections'[u] \in {connections[u], None},
           pc'["registrar"] \in {"lock", "waiting"} =>
               /\ pc["registrar"] \in {"lock", "waiting"}
               /\ obj'["registrar"] = obj["registrar"]
               /\ handling'["registrar"] = handling["registrar"]
    PROVE  OwnerInv'
<1>1. \A u \in Users : connections'[u] # None => UserOf[connections'[u]] = u
  BY Zenon DEF OwnerInv, UserIsolation
<1>2. \A o \in Lines : \A l \in Elems(lines'[o]) : UserOf[l] = UserOf[o]
  BY Zenon DEF OwnerInv, UserIsolation
<1>3. UserIsolation' BY Zenon, <1>1, <1>2 DEF UserIsolation
<1> QED BY Zenon, <1>3 DEF OwnerInv, Registering

\* The loops over a list keep OwnerInv.
LEMMA SweepStepKeepsOwner ==
    ASSUME TypeOK, ListLayer, OwnerInv, NEW p \in Procs, p # "registrar", SweepStep(p)
    PROVE  OwnerInv'
<1>1. UNCHANGED <<connections, obj, handling>> /\ pc'["registrar"] = pc["registrar"]
  <2> USE ProcNames, TypeParts DEF mapVars, loopVars, LoopType
  <2>1. CASE LockLines(p) BY Zenon, <2>1 DEF LockLines
  <2>2. CASE KeepLine(p) BY Zenon, <2>2 DEF KeepLine
  <2>3. CASE SignalLine(p) BY Zenon, <2>3 DEF SignalLine
  <2>4. CASE UnlockLines(p) BY Zenon, <2>4 DEF UnlockLines
  <2>5. CASE RLockLines(p) BY Zenon, <2>5 DEF RLockLines
  <2>6. CASE PushLine(p) BY Zenon, <2>6 DEF PushLine
  <2>7. CASE SendPanics(p) BY Zenon, <2>7 DEF SendPanics
  <2> QED BY Zenon, <2>1, <2>2, <2>3, <2>4, <2>5, <2>6, <2>7 DEF SweepStep
<1>2. \A o \in Lines : Elems(lines'[o]) \subseteq Elems(lines[o])
  <2>1. CASE UnlockLines(p)
    <3>1. Elems(kept[p]) \subseteq Elems(lines[obj[p]])
      BY Zenon, <2>1, ListParts DEF UnlockLines, SweepAt
    <3> QED BY Zenon, <2>1, <3>1, TypeParts DEF UnlockLines, ListType
  <2>2. CASE ~UnlockLines(p)
    BY Zenon, <2>2 DEF SweepStep, LockLines, KeepLine, SignalLine, RLockLines, PushLine,
       SendPanics,
       listVars
  <2> QED BY Zenon, <2>1, <2>2
<1> QED BY Zenon, <1>1, <1>2, OwnerFrame

\* The registrar keeps OwnerInv: it stores a new list under its line's user, or loads
\* the one stored there, and adds the line to that list.
LEMMA RegistrarKeepsOwner ==
    ASSUME TypeOK, OwnerInv, Registrar PROVE OwnerInv'
<1> USE ProcNames
<1>1. CASE TakeRegistered \/ MakeWriteChan \/ CountRegistered
  <2>1. UNCHANGED <<lines, connections>> /\ pc'["registrar"] \notin {"lock", "waiting"}
    BY Zenon, <1>1, TypeParts DEF TakeRegistered, MakeWriteChan, CountRegistered, listVars,
       mapVars, LoopType
  <2> QED BY Zenon, <2>1, OwnerFrame
<1>2. CASE LoadOrStore
  <2> DEFINE l == Registering
             u == UserOf[l]
             o == IF connections[u] = None THEN l ELSE connections[u]
  <2>1. l \in Lines /\ u \in Users
    BY Zenon, <1>2, HubAssumption, TypeParts DEF LoadOrStore, HasObject, HandlingType,
       Registering, HubAssumption
  <2>2. /\ connections' = [connections EXCEPT ![u] = o]
        /\ obj' = [obj EXCEPT !["registrar"] = o] /\ UNCHANGED <<lines, handling>>
    BY Zenon, <1>2 DEF LoadOrStore, listVars
  <2>3. UserOf[o] = u BY Zenon, <2>1 DEF OwnerInv, UserIsolation
  <2> HIDE DEF l, u, o
  <2>4. UserIsolation' BY Zenon, <2>1, <2>2, <2>3, TypeParts DEF OwnerInv, UserIsolation,
       MapType
  <2>5. UserOf[obj'["registrar"]] = UserOf[Registering']
    BY Zenon, <2>2, <2>3, TypeParts DEF LoopType, Registering, l, u
  <2> QED BY Zenon, <2>4, <2>5 DEF OwnerInv
<1>3. CASE AddLine
  <2> DEFINE o == obj["registrar"]
             l == Registering
  <2>1. o \in Lines /\ l \in Lines /\ UserOf[o] = UserOf[l]
    BY Zenon, <1>3, TypeParts DEF AddLine, OwnerInv, HasObject, HandlingType, LoopType,
       Registering
  <2>2. /\ lines' = [lines EXCEPT ![o] = Append(@, l)] /\ UNCHANGED connections
        /\ pc'["registrar"] = "count"
    BY Zenon, <1>3, TypeParts DEF AddLine, mapVars, LoopType
  <2> HIDE DEF o, l
  <2>3. \A k \in Lines : Elems(lines'[k]) \subseteq
                           IF k = o THEN Elems(lines[k]) \cup {l} ELSE Elems(lines[k])
    BY Zenon, <2>1, <2>2, ElemsAppend, TypeParts DEF ListType
  <2>4. UserIsolation' BY Zenon, <2>1, <2>2, <2>3 DEF OwnerInv, UserIsolation
  <2> QED BY Zenon, <2>2, <2>4 DEF OwnerInv
<1> QED BY Zenon, <1>1, <1>2, <1>3 DEF Registrar

\* OwnerInv holds in every reachable state of the hub.
THEOREM HubOwners == Spec => []OwnerInv
<1>1. Init => OwnerInv
  <2> SUFFICES ASSUME Init PROVE OwnerInv OBVIOUS
  <2>1. \A o \in Lines : Elems(lines[o]) = {} BY Zenon, ElemsEmpty DEF Init
  <2> QED BY Zenon, <2>1, ProcNames DEF Init, OwnerInv, UserIsolation
<1>2. TypeOK /\ RegLayer /\ ListLayer /\ OwnerInv /\ [Next]_vars => OwnerInv'
  <2> SUFFICES ASSUME TypeOK, RegLayer, ListLayer, OwnerInv, [Next]_vars PROVE OwnerInv'
    OBVIOUS
  <2>1. CalmAll \/ KeyStep BY Zenon, StepKinds, RegParts DEF RegistrationInv, RegistrarStates
  <2>2. ASSUME Calm PROVE OwnerInv' BY Zenon, <2>2, OwnerFrame DEF Calm
  <2>3. ASSUME NEW p \in Procs, SweepStep(p) PROVE OwnerInv'
    <3>1. p # "registrar"
      BY Zenon, <2>3, SweepersAreNotRegistrar, RegParts DEF RegistrationInv, RegistrarStates
    <3> QED BY Zenon, <2>3, <3>1, SweepStepKeepsOwner
  <2>4. ASSUME NEW l \in Lines, SendRegistered(l) \/ ReceiveClosed(l) PROVE OwnerInv'
    BY Zenon, <2>4, OwnerFrame DEF SendRegistered, ReceiveClosed, LineStep, listVars,
       mapVars,
       procVars, loopVars
  <2>5. CASE CloseCloseChan \/ CloseWriteChan
    <3>1. /\ UNCHANGED <<lines, connections, obj, handling>>
          /\ pc'["registrar"] = pc["registrar"]
      BY Zenon, <2>5, ProcNames, TypeParts DEF CloseCloseChan, CloseWriteChan, listVars,
         mapVars, loopVars, LoopType
    <3> QED BY Zenon, <3>1, OwnerFrame
  <2>6. CASE ReceiveLine BY Zenon, <2>2, <2>6, ReceiveLineCalm
  <2> QED BY Zenon, <2>1, <2>2, <2>3, <2>4, <2>5, <2>6, RegistrarKeepsOwner DEF KeyStep,
             CalmAll
<1> QED BY <1>1, <1>2, HubTypeCorrect, HubRegistration, HubLists, PTL DEF Spec

\* A user's list holds that user's connections only, and Hub.connections maps each user
\* to a list of that user: no push or close of hub.go reaches another user's line.
THEOREM HubUserIsolation == Spec => []UserIsolation
<1>1. OwnerInv => UserIsolation BY Zenon DEF OwnerInv
<1> QED BY <1>1, HubOwners, PTL
-----------------------------------------------------------------------------
(* Which lines have been told to close.                                    *)

DropLayer ==
    DropInv /\ \A l \in Lines : Unadded(l) /\ leaving[l] => closeChan[l] = "closed"

\* A step keeps DropLayer when a line that leaves its list is leaving, and the registrar
\* neither takes a line nor lets go of one.
LEMMA DropFrame ==
    ASSUME DropLayer, handling'["registrar"] = handling["registrar"],
           pc'["registrar"] = "count" => pc["registrar"] = "count",
           Registering \in Lines \/ pc["registrar"] # "count",
           \A l \in Lines :
               /\ Listed(l) => Listed(l)' \/ leaving'[l]
               /\ leaving[l] => leaving'[l]
               /\ closeChan[l] = "nil" => closeChan'[l] = "nil"
               /\ closeChan[l] = "closed" => closeChan'[l] = "closed"
               /\ Unadded(l)' => Unadded(l)
               /\ Unadded(l) /\ leaving'[l] => leaving[l] \/ closeChan'[l] = "closed"
    PROVE  DropLayer'
<1>1. NoSilentDrop' BY Zenon DEF DropLayer, DropInv, NoSilentDrop
<1>2. pc'["registrar"] = "count" => Listed(Registering)' \/ leaving'[Registering']
  BY Zenon DEF DropLayer, DropInv, Registering, Listed
<1>3. \A l \in Lines : Unadded(l)' /\ leaving'[l] => closeChan'[l] = "closed"
  BY Zenon DEF DropLayer
<1> QED BY Zenon, <1>1, <1>2, <1>3 DEF DropLayer, DropInv

\* A step that leaves the lists and their write locks alone keeps SignalInv, when it
\* leaves the loops of the goroutines with a lock alone and tells no line to close.
LEMMA SignalFrame ==
    ASSUME TypeOK, SignalInv, UNCHANGED <<lines, wlock>>, crashed => crashed',
           \A o \in Lines : wlock[o] # None => /\ rest'[wlock[o]] = rest[wlock[o]]
                                               /\ kept'[wlock[o]] = kept[wlock[o]],
           \A l \in Lines : leaving'[l] /\ closeChan'[l] = "open"
                                => leaving[l] /\ closeChan[l] = "open"
    PROVE  SignalInv'
<1> SUFFICES ASSUME ~PoolRecovers, ~crashed', NEW o \in Lines, NEW l \in Elems(lines'[o]),
                    leaving'[l], closeChan'[l] = "open"
             PROVE  /\ wlock'[o] # None
                    /\ l \notin Elems(rest'[wlock'[o]]) \cup Elems(kept'[wlock'[o]])
  BY Zenon DEF SignalInv
<1>1. l \in Elems(lines[o]) /\ l \in Lines BY Zenon, ListedAreLines
<1>2. /\ wlock[o] # None
      /\ l \notin Elems(rest[wlock[o]]) \cup Elems(kept[wlock[o]])
  BY Zenon, <1>1 DEF SignalInv
<1> QED BY Zenon, <1>2

\* Calm steps, the steps of the lines' goroutines and closing the channels of a line
\* keep both.
LEMMA QuietKeepsLeave ==
    ASSUME TypeOK, DropLayer, SignalInv,
           \/ Calm \/ CloseCloseChan \/ CloseWriteChan \/ MakeWriteChan \/ LoadOrStore
           \/ \E l \in Lines : SendRegistered(l) \/ ReceiveClosed(l)
    PROVE  DropLayer' /\ SignalInv'
<1> USE ProcNames
<1>1. UNCHANGED <<lines, wlock, rest, kept>> /\ (crashed => crashed')
  <2> USE DEF listVars, loopVars, procVars, ListStep, LineStep, Running
  <2>1. CASE Calm BY Zenon, <2>1 DEF Calm
  <2>2. CASE CloseCloseChan BY Zenon, <2>2 DEF CloseCloseChan
  <2>3. CASE CloseWriteChan BY Zenon, <2>3 DEF CloseWriteChan
  <2>4. CASE MakeWriteChan BY Zenon, <2>4 DEF MakeWriteChan
  <2>5. CASE LoadOrStore BY Zenon, <2>5 DEF LoadOrStore
  <2>6. ASSUME NEW l \in Lines, SendRegistered(l) \/ ReceiveClosed(l)
        PROVE  UNCHANGED <<lines, wlock, rest, kept>> /\ (crashed => crashed')
    BY Zenon, <2>6 DEF SendRegistered, ReceiveClosed
  <2> QED BY Zenon, <2>1, <2>2, <2>3, <2>4, <2>5, <2>6
<1>2. /\ handling'["registrar"] = handling["registrar"]
      /\ pc'["registrar"] = "count" => pc["registrar"] = "count"
      /\ pc'["registrar"] \in {"make", "store", "lock", "waiting"}
             => pc["registrar"] \in {"make", "store", "lock", "waiting"}
  <2> USE TypeParts DEF procVars, LineStep, LoopType
  <2>1. CASE Calm BY Zenon, <2>1 DEF Calm
  <2>2. CASE CloseCloseChan BY Zenon, <2>2 DEF CloseCloseChan
  <2>3. CASE CloseWriteChan BY Zenon, <2>3 DEF CloseWriteChan
  <2>4. CASE MakeWriteChan BY Zenon, <2>4 DEF MakeWriteChan
  <2>5. CASE LoadOrStore BY Zenon, <2>5 DEF LoadOrStore
  <2>6. ASSUME NEW l \in Lines, SendRegistered(l) \/ ReceiveClosed(l)
        PROVE  UNCHANGED <<pc, handling>>
    BY Zenon, <2>6 DEF SendRegistered, ReceiveClosed
  <2> QED BY Zenon, <2>1, <2>2, <2>3, <2>4, <2>5, <2>6
<1>3. \A l \in Lines : /\ leaving[l] => leaving'[l]
                       /\ closeChan[l] = "nil" => closeChan'[l] = "nil"
                       /\ closeChan[l] = "closed" => closeChan'[l] = "closed"
                       /\ closeChan'[l] = "open" => closeChan[l] = "open"
                       /\ leaving'[l] => leaving[l] \/ closeChan'[l] = "closed"
  <2> USE TypeParts DEF chanVars, lineVars, ListStep, LineType, ChanType
  <2>1. CASE Calm BY Zenon, <2>1 DEF Calm
  <2>2. CASE CloseCloseChan BY Zenon, <2>2 DEF CloseCloseChan
  <2>3. CASE CloseWriteChan BY Zenon, <2>3 DEF CloseWriteChan
  <2>4. CASE MakeWriteChan BY Zenon, <2>4 DEF MakeWriteChan
  <2>5. CASE LoadOrStore BY Zenon, <2>5 DEF LoadOrStore
  <2>6. ASSUME NEW k \in Lines, SendRegistered(k)
        PROVE  UNCHANGED <<closeChan, leaving>>
    BY Zenon, <2>6 DEF SendRegistered
  <2>7. ASSUME NEW k \in Lines, ReceiveClosed(k)
        PROVE  /\ UNCHANGED closeChan /\ closeChan[k] = "closed"
               /\ \A l \in Lines : leaving'[l] = (IF l = k THEN TRUE ELSE leaving[l])
    BY Zenon, <2>7 DEF ReceiveClosed
  <2> QED BY Zenon, <2>1, <2>2, <2>3, <2>4, <2>5, <2>6, <2>7
<1>4. \A l \in Lines : Unadded(l)' => Unadded(l) BY Zenon, <1>2 DEF Unadded, Registering
<1>5. \A l \in Lines : Listed(l)' = Listed(l) BY Zenon, <1>1 DEF Listed
<1>6. Registering \in Lines \/ pc["registrar"] # "count"
  BY Zenon, TypeParts DEF HasObject, HandlingType, Registering
<1>7. DropLayer' BY Zenon, <1>2, <1>3, <1>4, <1>5, <1>6, DropFrame
<1>8. SignalInv' BY Zenon, <1>1, <1>3, SignalFrame
<1> QED BY Zenon, <1>7, <1>8

\* The line the registrar takes has no channel and is not leaving; the line it adds is
\* listed, and is still listed or leaving when the registrar lets go of it.
LEMMA RegistrarKeepsLeave ==
    ASSUME TypeOK, RegLayer, ListLayer, DropLayer, SignalInv, Registrar
    PROVE  DropLayer' /\ SignalInv'
<1> USE ProcNames
<1>1. CASE TakeRegistered
  <2> DEFINE l == Head(registeredChan)
  <2>1. registeredChan \in Seq(Lines) /\ registeredChan # <<>>
    BY Zenon, <1>1, TypeParts DEF TakeRegistered, HubChanType
  <2>2. l \in Lines /\ l \in Elems(registeredChan) BY Zenon, <2>1, ElemsTail
  <2>3. closeChan[l] = "nil" /\ ~leaving[l] BY Zenon, <2>2, RegParts DEF RegistrationInv
  <2>4. pc["registrar"] = "idle" /\ handling["registrar"] = None
    BY Zenon, <1>1, RegParts DEF TakeRegistered, RegistrationInv, Registering
  <2>5. /\ handling'["registrar"] = l /\ pc'["registrar"] = "make"
        /\ closeChan' = [closeChan EXCEPT ![l] = "open"]
        /\ UNCHANGED <<leaving, lines, wlock, rest, kept, crashed>>
    BY Zenon, <1>1, TypeParts DEF TakeRegistered, lineVars, listVars, loopVars, Running,
       LoopType, HandlingType
  <2> HIDE DEF l
  <2>6. \A k \in Lines : Listed(k)' = Listed(k) BY Zenon, <2>5 DEF Listed
  <2>7. \A k \in Lines : closeChan'[k] = IF k = l THEN "open" ELSE closeChan[k]
    BY Zenon, <2>2, <2>5, TypeParts DEF ChanType
  <2>8. None \notin Lines BY Zenon, HubAssumption DEF HubAssumption
  <2>9. NoSilentDrop'
    BY Zenon, <2>4, <2>5, <2>6, <2>7, <2>8 DEF DropLayer, DropInv, NoSilentDrop
  <2>10. \A k \in Lines : Unadded(k)' /\ leaving'[k] => closeChan'[k] = "closed"
    BY Zenon, <2>3, <2>5 DEF Unadded, Registering
  <2>11. DropLayer' BY Zenon, <2>5, <2>9, <2>10 DEF DropLayer, DropInv
  <2>12. SignalInv' BY Zenon, <2>3, <2>5, <2>7, SignalFrame
  <2> QED BY Zenon, <2>11, <2>12
<1>2. CASE MakeWriteChan \/ LoadOrStore BY Zenon, <1>2, QuietKeepsLeave
<1>3. CASE AddLine
  <2> DEFINE o == obj["registrar"]
             l == Registering
  <2>1. o \in Lines /\ l \in Lines /\ wlock[o] = None /\ Unadded(l)
    BY Zenon, <1>3, TypeParts DEF AddLine, LockFree, HasObject, HandlingType, LoopType,
       Registering, Unadded
  <2>2. /\ lines' = [lines EXCEPT ![o] = Append(@, l)] /\ pc'["registrar"] = "count"
        /\ UNCHANGED <<leaving, closeChan, wlock, rest, kept, handling, crashed>>
    BY Zenon, <1>3, TypeParts DEF AddLine, ListStep, lineVars, chanVars, loopVars, Running,
       LoopType
  <2>3. leaving[l] => closeChan[l] = "closed" BY Zenon, <2>1 DEF DropLayer
  <2>4. Registering' = l BY Zenon, <2>2 DEF Registering
  <2> HIDE DEF o, l
  <2>5. \A k \in Lines :
            Elems(lines'[k]) = IF k = o THEN Elems(lines[k]) \cup {l} ELSE Elems(lines[k])
    <3>1. lines[o] \in Seq(Lines) BY Zenon, <2>1, ListedAreLines
    <3>2. \A k \in Lines : lines'[k] = IF k = o THEN Append(lines[o], l) ELSE lines[k]
      BY Zenon, <2>1, <2>2, TypeParts DEF ListType
    <3> QED BY Zenon, <2>1, <3>1, <3>2, ElemsAppend
  <2>6. \A k \in Lines : Listed(k) \/ k = l => Listed(k)' BY Zenon, <2>1, <2>5 DEF Listed
  <2>7. NoSilentDrop' BY Zenon, <2>2, <2>6 DEF DropLayer, DropInv, NoSilentDrop
  <2>8. pc'["registrar"] = "count" => Listed(Registering)' \/ leaving'[Registering']
    BY Zenon, <2>1, <2>4, <2>6 DEF Listed
  <2>9. \A k \in Lines : ~Unadded(k)' BY Zenon, <2>2 DEF Unadded
  <2>10. DropLayer' BY Zenon, <2>7, <2>8, <2>9 DEF DropLayer, DropInv
  <2>11. SignalInv'
    <3> SUFFICES ASSUME ~PoolRecovers, ~crashed', NEW m \in Lines, NEW k \in Elems(lines'[m]),
                        leaving'[k], closeChan'[k] = "open"
                 PROVE  /\ wlock'[m] # None
                        /\ k \notin Elems(rest'[wlock'[m]]) \cup Elems(kept'[wlock'[m]])
      BY Zenon DEF SignalInv
    <3>1. k # l BY Zenon, <2>2, <2>3
    <3>2. k \in Elems(lines[m]) BY Zenon, <2>5, <3>1
    <3> QED BY Zenon, <2>2, <3>2 DEF SignalInv
  <2> QED BY Zenon, <2>10, <2>11
<1>4. CASE CountRegistered
  <2>1. /\ pc["registrar"] = "count" /\ pc'["registrar"] = "idle"
        /\ UNCHANGED <<leaving, closeChan, lines, wlock, rest, kept, crashed>>
    BY Zenon, <1>4, TypeParts DEF CountRegistered, ListStep, lineVars, chanVars, listVars,
       Running, LoopType
  <2>2. \A k \in Lines : Listed(k)' = Listed(k) BY Zenon, <2>1 DEF Listed
  <2>3. Listed(Registering) \/ leaving[Registering] BY Zenon, <2>1 DEF DropLayer, DropInv
  <2>4. NoSilentDrop'
    BY Zenon, <2>1, <2>2, <2>3 DEF DropLayer, DropInv, NoSilentDrop, Registering
  <2>5. DropLayer' BY Zenon, <2>1, <2>4 DEF DropLayer, DropInv, Unadded
  <2>6. SignalInv' BY Zenon, <2>1, SignalFrame
  <2> QED BY Zenon, <2>5, <2>6
<1> QED BY Zenon, <1>1, <1>2, <1>3, <1>4 DEF Registrar

\* A sweep leaves no line out of the list it stores but those it has told to close.
LEMMA SweepKeepsDrop ==
    ASSUME TypeOK, ListLayer, DropLayer, NEW p \in Procs, p # "registrar", SweepStep(p)
    PROVE  DropLayer'
<1>1. UNCHANGED <<closeChan, handling>> /\ pc'["registrar"] = pc["registrar"]
  <2> USE ProcNames, TypeParts DEF chanVars, loopVars, LoopType
  <2>1. CASE LockLines(p) BY Zenon, <2>1 DEF LockLines
  <2>2. CASE KeepLine(p) BY Zenon, <2>2 DEF KeepLine
  <2>3. CASE SignalLine(p) BY Zenon, <2>3 DEF SignalLine
  <2>4. CASE UnlockLines(p) BY Zenon, <2>4 DEF UnlockLines
  <2>5. CASE RLockLines(p) BY Zenon, <2>5 DEF RLockLines
  <2>6. CASE PushLine(p) BY Zenon, <2>6 DEF PushLine
  <2>7. CASE SendPanics(p) BY Zenon, <2>7 DEF SendPanics
  <2> QED BY Zenon, <2>1, <2>2, <2>3, <2>4, <2>5, <2>6, <2>7 DEF SweepStep
<1>2. \A l \in Lines : Listed(l) => Listed(l)' \/ leaving'[l]
  <2>1. CASE UnlockLines(p)
    <3>1. /\ obj[p] \in Lines /\ pc[p] = "sweep" /\ rest[p] = <<>> /\ UNCHANGED leaving
          /\ lines' = [lines EXCEPT ![obj[p]] = kept[p]]
      BY Zenon, <2>1, TypeParts DEF UnlockLines, ListStep, lineVars, HasObject, LoopType
    <3>2. \A l \in Elems(lines[obj[p]]) : l \in Elems(kept[p]) \/ leaving[l]
      BY Zenon, <3>1, ElemsEmpty, ListParts DEF SweepAt
    <3>3. \A o \in Lines : lines'[o] = IF o = obj[p] THEN kept[p] ELSE lines[o]
      BY Zenon, <3>1, TypeParts DEF ListType
    <3> QED BY Zenon, <3>1, <3>2, <3>3 DEF Listed
  <2>2. CASE ~UnlockLines(p)
    <3>1. UNCHANGED lines
      BY Zenon, <2>2 DEF SweepStep, LockLines, KeepLine, SignalLine, RLockLines, PushLine,
         SendPanics, listVars
    <3> QED BY Zenon, <3>1 DEF Listed
  <2> QED BY Zenon, <2>1, <2>2
<1>3. ASSUME NEW l \in Lines
      PROVE  /\ leaving[l] => leaving'[l]
             /\ Unadded(l) /\ leaving'[l] => leaving[l]
  <2>1. CASE SignalLine(p)
    <3>1. /\ pc[p] = "sweep" /\ rest[p] # <<>> /\ rest[p] \in Seq(Lines) /\ obj[p] \in Lines
          /\ leaving' = [leaving EXCEPT ![Head(rest[p])] = TRUE]
      BY Zenon, <2>1, TypeParts DEF SignalLine, HasObject, LoopType
    <3>2. Head(rest[p]) \in Elems(rest[p]) BY Zenon, <3>1, ElemsTail
    <3>3. Head(rest[p]) \in Elems(lines[obj[p]]) BY Zenon, <3>1, <3>2, ListParts DEF SweepAt
    <3>4. Unadded(l) => l # Head(rest[p])
      BY Zenon, <3>1, <3>3, ListParts DEF UnaddedUnlisted, Listed
    <3> QED BY Zenon, <3>1, <3>4, TypeParts DEF LineType
  <2>2. CASE ~SignalLine(p)
    BY Zenon, <2>2 DEF SweepStep, LockLines, KeepLine, UnlockLines, RLockLines, PushLine,
       SendPanics, ListStep, lineVars
  <2> QED BY Zenon, <2>1, <2>2
<1>4. \A l \in Lines : Unadded(l)' => Unadded(l) BY Zenon, <1>1 DEF Unadded, Registering
<1>5. Registering \in Lines \/ pc["registrar"] # "count"
  BY Zenon, ProcNames, TypeParts DEF HasObject, HandlingType, Registering
<1> QED BY Zenon, <1>1, <1>2, <1>3, <1>4, <1>5, DropFrame

\* A sweep passes a line as it tells it to close, and stores a list without it.
LEMMA SweepKeepsSignal ==
    ASSUME TypeOK, LockInv, ListLayer, SignalInv, NEW p \in Procs, SweepStep(p)
    PROVE  SignalInv'
<1> DEFINE o == obj[p]
<1>1. o \in Lines /\ rest[p] \in Seq(Lines) /\ kept[p] \in Seq(Lines)
  BY Zenon, SweepStepHasList
<1>2. \A m \in Lines : m # o => wlock[m] # p BY Zenon, HolderSweeps
<1>3. \A q \in Procs : q # p => rest'[q] = rest[q] /\ kept'[q] = kept[q]
  <2> USE TypeParts DEF loopVars, LoopType
  <2>1. CASE LockLines(p) BY Zenon, <2>1 DEF LockLines
  <2>2. CASE KeepLine(p) BY Zenon, <2>2 DEF KeepLine
  <2>3. CASE SignalLine(p) BY Zenon, <2>3 DEF SignalLine
  <2>4. CASE UnlockLines(p) BY Zenon, <2>4 DEF UnlockLines
  <2>5. CASE RLockLines(p) BY Zenon, <2>5 DEF RLockLines
  <2>6. CASE PushLine(p) BY Zenon, <2>6 DEF PushLine
  <2>7. CASE SendPanics(p) BY Zenon, <2>7 DEF SendPanics
  <2> QED BY Zenon, <2>1, <2>2, <2>3, <2>4, <2>5, <2>6, <2>7 DEF SweepStep
<1>4. \A m \in Lines : wlock[m] # None => wlock[m] \in Procs BY Zenon, TypeParts DEF ListType
<1>5. CASE RLockLines(p) \/ PushLine(p)
  <2>1. UNCHANGED <<lines, wlock, leaving, closeChan, crashed>> /\ wlock[o] # p
    BY Zenon, <1>1, <1>5, HolderSweeps DEF RLockLines, PushLine, ListStep, lineVars,
       listVars,
       chanVars, Running
  <2> QED BY Zenon, <1>2, <1>3, <1>4, <2>1, SignalFrame
<1>6. CASE SendPanics(p) BY Zenon, <1>6 DEF SendPanics, Panics, SignalInv
<1>7. CASE LockLines(p) \/ KeepLine(p) \/ SignalLine(p) \/ UnlockLines(p)
  <2> SUFFICES ASSUME ~PoolRecovers, ~crashed', NEW m \in Lines, NEW k \in Elems(lines'[m]),
                      leaving'[k], closeChan'[k] = "open"
               PROVE  /\ wlock'[m] # None
                      /\ k \notin Elems(rest'[wlock'[m]]) \cup Elems(kept'[wlock'[m]])
    BY Zenon DEF SignalInv
  <2>1. ~crashed /\ UNCHANGED closeChan
    BY Zenon, <1>7 DEF LockLines, KeepLine, SignalLine, UnlockLines, ListStep, Running,
       chanVars
  <2>2. ASSUME NEW n \in Lines, k \in Elems(lines[n]), leaving[k]
        PROVE  /\ wlock[n] # None
               /\ k \notin Elems(rest[wlock[n]]) \cup Elems(kept[wlock[n]])
    BY Zenon, <2>1, <2>2 DEF SignalInv
  <2> HIDE DEF o
  <2>3. CASE LockLines(p)
    <3>1. /\ UNCHANGED <<lines, leaving>> /\ wlock[o] = None
          /\ wlock' = [wlock EXCEPT ![o] = p]
      BY Zenon, <2>3 DEF LockLines, LockFree, ListStep, lineVars, o
    <3>2. m # o BY Zenon, <2>2, <3>1
    <3>3. wlock'[m] = wlock[m] BY Zenon, <3>1, <3>2, TypeParts DEF ListType
    <3> QED BY Zenon, <1>2, <1>3, <1>4, <2>2, <3>1, <3>2, <3>3
  <2>4. CASE KeepLine(p) \/ SignalLine(p)
    <3> DEFINE h == Head(rest[p])
    <3>1. /\ UNCHANGED <<lines, wlock>> /\ pc[p] = "sweep" /\ rest[p] # <<>>
          /\ rest'[p] = Tail(rest[p])
      BY Zenon, <2>4, TypeParts DEF KeepLine, SignalLine, listVars, LoopType
    <3>2. /\ h \in Lines /\ h \in Elems(rest[p]) /\ Elems(Tail(rest[p])) \subseteq Elems(rest[p])
          /\ h \notin Elems(Tail(rest[p])) /\ h \notin Elems(kept[p])
          /\ h \in Elems(lines[o])
      <4>1. /\ Elems(rest[p]) \cup Elems(kept[p]) \subseteq Elems(lines[o])
            /\ Distinct(rest[p]) /\ Elems(rest[p]) \cap Elems(kept[p]) = {}
        BY Zenon, <3>1, ListParts DEF SweepAt, o
      <4>2. /\ h \in Lines /\ Elems(rest[p]) = Elems(Tail(rest[p])) \cup {h}
            /\ h \notin Elems(Tail(rest[p]))
        BY Zenon, <1>1, <3>1, <4>1, ElemsTail
      <4> QED BY Zenon, <4>1, <4>2
    <3>3. wlock[o] = p BY Zenon, <3>1, SweepHolds DEF o
    <3> HIDE DEF h
    <3>4. ASSUME m # o
          PROVE  /\ wlock'[m] # None
                 /\ k \notin Elems(rest'[wlock'[m]]) \cup Elems(kept'[wlock'[m]])
      <4>1. k # h BY Zenon, <1>1, <3>1, <3>2, <3>4, ListParts DEF ListsDisjoint
      <4>2. leaving[k]
        <5>1. k \in Lines BY Zenon, <3>1, ListedAreLines
        <5>2. CASE KeepLine(p) BY Zenon, <5>2 DEF KeepLine, ListStep, lineVars
        <5>3. CASE SignalLine(p) BY Zenon, <4>1, <5>1, <5>3, TypeParts DEF SignalLine,
                                    LineType, h
        <5> QED BY Zenon, <2>4, <5>2, <5>3
      <4> QED BY Zenon, <1>2, <1>3, <1>4, <2>2, <3>1, <3>4, <4>2
    <3>5. CASE m = o /\ KeepLine(p)
      <4>1. UNCHANGED leaving /\ kept'[p] = Append(kept[p], h)
        BY Zenon, <3>5, TypeParts DEF KeepLine, ListStep, lineVars, LoopType, h
      <4>2. Elems(kept'[p]) = Elems(kept[p]) \cup {h} BY Zenon, <1>1, <3>2, <4>1, ElemsAppend
      <4>3. k \notin Elems(rest[p]) \cup Elems(kept[p]) BY Zenon, <2>2, <3>1, <3>3, <3>5,
        <4>1
      <4> QED BY Zenon, <3>1, <3>2, <3>3, <3>5, <4>2, <4>3, HubAssumption DEF HubAssumption
    <3>6. CASE m = o /\ SignalLine(p)
      <4>1. leaving' = [leaving EXCEPT ![h] = TRUE] /\ UNCHANGED kept
        BY Zenon, <3>6 DEF SignalLine, h
      <4>2. k = h \/ leaving[k] BY <4>1, TypeParts DEF LineType
      <4>3. k = h \/ k \notin Elems(rest[p]) \cup Elems(kept[p])
        BY Zenon, <2>2, <3>1, <3>3, <3>6, <4>2
      <4> QED BY Zenon, <3>1, <3>2, <3>3, <3>6, <4>1, <4>3, HubAssumption DEF HubAssumption
    <3> QED BY Zenon, <2>4, <3>4, <3>5, <3>6
  <2>5. CASE UnlockLines(p)
    <3>1. /\ UNCHANGED leaving /\ pc[p] = "sweep" /\ lines' = [lines EXCEPT ![o] = kept[p]]
          /\ wlock' = [wlock EXCEPT ![o] = None]
      BY Zenon, <2>5 DEF UnlockLines, ListStep, lineVars, o
    <3>2. wlock[o] = p /\ Elems(kept[p]) \subseteq Elems(lines[o])
      BY Zenon, <3>1, SweepHolds, ListParts DEF SweepAt, o
    <3>3. m # o
      <4>1. m = o => k \in Elems(kept[p]) BY Zenon, <1>1, <3>1, TypeParts DEF ListType
      <4> QED BY Zenon, <1>1, <2>2, <3>1, <3>2, <4>1
    <3>4. lines'[m] = lines[m] /\ wlock'[m] = wlock[m]
      BY Zenon, <3>1, <3>3, TypeParts DEF ListType
    <3> QED BY <1>2, <1>3, <1>4, <2>2, <3>1, <3>3, <3>4
  <2> QED BY Zenon, <1>7, <2>3, <2>4, <2>5
<1> QED BY Zenon, <1>5, <1>6, <1>7 DEF SweepStep

\* DropLayer and SignalInv hold in every reachable state of the hub.
THEOREM HubLeaving == Spec => [](DropLayer /\ SignalInv)
<1> DEFINE LeaveLayer == DropLayer /\ SignalInv
<1>1. Init => LeaveLayer
  <2> SUFFICES ASSUME Init PROVE LeaveLayer OBVIOUS
  <2>1. \A o \in Lines : Elems(lines[o]) = {} BY Zenon, ElemsEmpty DEF Init
  <2> QED BY Zenon, <2>1, ProcNames DEF Init, DropLayer, DropInv, NoSilentDrop, SignalInv
<1>2. TypeOK /\ LockInv /\ RegLayer /\ ListLayer /\ LeaveLayer /\ [Next]_vars => LeaveLayer'
  <2> SUFFICES ASSUME TypeOK, LockInv, RegLayer, ListLayer, LeaveLayer, [Next]_vars
               PROVE  LeaveLayer'
    OBVIOUS
  <2>1. CalmAll \/ KeyStep BY Zenon, StepKinds, RegParts DEF RegistrationInv, RegistrarStates
  <2>2. ASSUME NEW p \in Procs, SweepStep(p) PROVE LeaveLayer'
    <3>1. p # "registrar"
      BY Zenon, <2>2, SweepersAreNotRegistrar, RegParts DEF RegistrationInv, RegistrarStates
    <3> QED BY Zenon, <2>2, <3>1, SweepKeepsDrop, SweepKeepsSignal
  <2>3. CASE Registrar BY Zenon, <2>3, RegistrarKeepsLeave
  <2>4. ReceiveLine => Calm BY Zenon, ReceiveLineCalm
  <2> QED BY Zenon, <2>1, <2>2, <2>3, <2>4, QuietKeepsLeave DEF KeyStep, CalmAll
<1> QED BY <1>1, <1>2, HubTypeCorrect, HubLockInvariant, HubRegistration, HubLists, PTL
        DEF Spec
-----------------------------------------------------------------------------
(* The results.                                                            *)

\* Every step of hub.go preserves HubInv: it holds for all users, lines, callers,
\* capacities and bounds on the faults.
THEOREM HubInvariant == Spec => []HubInv
<1>1. ListLayer => SweepInv BY Zenon, ListParts DEF SweepAt, SweepInv
<1>2. ListLayer /\ DropLayer => UnaddedInv
  BY Zenon, ListParts DEF UnaddedUnlisted, DropLayer, UnaddedInv
<1>3. RegLayer => RegistrationInv /\ KeptInv BY Zenon, RegParts
<1>4. DropLayer => DropInv BY Zenon DEF DropLayer
<1>5. /\ TypeOK /\ LockInv /\ RegLayer /\ ListLayer /\ OwnerInv /\ DropLayer /\ SignalInv
      /\ ListedOnce /\ ListedHasChannels
      => HubInv
  BY Zenon, <1>1, <1>2, <1>3, <1>4 DEF HubInv
<1> QED BY Zenon, <1>5, HubTypeCorrect, HubLockInvariant, HubRegistration, HubLists,
           HubOwners,
        HubLeaving, HubListedOnce, HubListedHasChannels, PTL

\* No connection is forgotten: a registered line of hub.go stays in a list until its writer
\* has been told to close, whatever the sweeps, deletions and registrations in between.
THEOREM HubDropsNone == Spec => []NoSilentDrop
<1>1. HubInv => NoSilentDrop BY Zenon DEF HubInv, DropInv
<1> QED BY <1>1, HubInvariant, PTL

\* No goroutine of hub.go waits under a user's lock to close a line a second time.
THEOREM HubSignalsOnce == Spec => []NoSecondSignal
<1>1. Init => NoSecondSignal BY Zenon DEF Init, NoSecondSignal
<1>2. ASSUME TypeOK, LockInv, ListLayer, SignalInv, ~crashed PROVE NoSecondSignal
  <2> SUFFICES ASSUME ~PoolRecovers, NEW p \in Procs, NEW l \in Lines, pc[p] = "sweep",
                      l \in Elems(rest[p]), closeChan[l] = "open", leaving[l]
               PROVE  FALSE
    BY Zenon DEF NoSecondSignal
  <2>1. obj[p] \in Lines /\ wlock[obj[p]] = p
    BY Zenon, <1>2, SweepHolds
  <2>2. l \in Elems(lines[obj[p]]) BY Zenon, <1>2, ListParts DEF SweepAt
  <2> QED BY Zenon, <1>2, <2>1, <2>2 DEF SignalInv
<1>3. ASSUME TypeOK, RegLayer, NoSecondSignal, [Next]_vars, crashed'
      PROVE  NoSecondSignal'
  <2>1. CalmAll \/ KeyStep
    BY Zenon, <1>3, StepKinds, RegParts DEF RegistrationInv, RegistrarStates
  <2>2. ASSUME Calm PROVE NoSecondSignal' BY Zenon, <1>3, <2>2 DEF Calm, NoSecondSignal
  <2>3. ASSUME NEW p \in Procs, SendPanics(p) PROVE NoSecondSignal'
    <3>1. /\ UNCHANGED <<leaving, closeChan, rest>>
          /\ \A q \in Procs : pc'[q] = "sweep" => pc[q] = "sweep"
      BY Zenon, <1>3, <2>3, TypeParts DEF SendPanics, lineVars, chanVars, loopVars, LoopType
    <3> QED BY Zenon, <1>3, <3>1 DEF NoSecondSignal
  <2>4. ASSUME NEW p \in Procs, SweepStep(p) PROVE SendPanics(p)
    BY Zenon, <1>3, <2>4 DEF SweepStep, LockLines, KeepLine, SignalLine, UnlockLines,
       RLockLines,
       PushLine, ListStep, Running
  <2>5. ASSUME NEW l \in Lines PROVE ~SendRegistered(l) /\ ~ReceiveClosed(l)
    BY Zenon, <1>3 DEF SendRegistered, ReceiveClosed, LineStep, Running
  <2>6. ~Registrar /\ ~CloseCloseChan /\ ~CloseWriteChan
    BY Zenon, <1>3 DEF Registrar, TakeRegistered, MakeWriteChan, LoadOrStore, AddLine,
       CountRegistered, CloseCloseChan, CloseWriteChan, ListStep, Running
  <2>7. ReceiveLine => Calm BY Zenon, ReceiveLineCalm
  <2> QED BY Zenon, <2>1, <2>2, <2>3, <2>4, <2>5, <2>6, <2>7 DEF KeyStep, CalmAll
<1>4. (TypeOK /\ LockInv /\ ListLayer /\ SignalInv)' /\ ~crashed' => NoSecondSignal'
  <2>1. TypeOK /\ LockInv /\ ListLayer /\ SignalInv /\ ~crashed => NoSecondSignal BY Zenon,
        <1>2
  <2> QED BY <2>1, PTL
<1>5. /\ TypeOK /\ RegLayer /\ (TypeOK /\ LockInv /\ ListLayer /\ SignalInv)'
      /\ NoSecondSignal /\ [Next]_vars
      => NoSecondSignal'
  BY Zenon, <1>3, <1>4
<1> QED BY Zenon, <1>1, <1>5, HubTypeCorrect, HubLockInvariant, HubRegistration, HubLists,
        HubLeaving, PTL DEF Spec
-----------------------------------------------------------------------------
(* The refinement of Membership.                                           *)

\* A step after which the lists, the close signals and the line in the registrar's hands
\* are what they were is a stuttering step of Membership.
LEMMA UnseenStep ==
    ASSUME UNCHANGED <<lines, leaving>>,
           \A l \in Lines : /\ closeChan'[l] = "nil" <=> closeChan[l] = "nil"
                            /\ Unadded(l)' <=> Unadded(l)
    PROVE  UNCHANGED Connection!vars
<1>1. Waiting' = Waiting BY Zenon DEF Waiting
<1>2. Joining' = Joining BY Zenon DEF Joining
<1>3. Members' = Members BY Zenon DEF Members
<1>4. Told' = Told BY Zenon DEF Told
<1> QED BY Zenon, <1>1, <1>2, <1>3, <1>4 DEF Connection!vars

\* A step that changes the lines of one user only.
LEMMA OneUserChanges ==
    ASSUME NEW u \in Users, NEW S, Members'[u] = S,
           \A v \in Users : v # u => Members'[v] = Members[v]
    PROVE  Members' = [Members EXCEPT ![u] = S]
<1>1. /\ Members = [v \in Users |-> Members[v]] /\ Members' = [v \in Users |-> Members'[v]]
  BY DEF Members
<1> QED BY Zenon, <1>1

\* A step that lets one line know that it is to close, and leaves the lists and the
\* registrar alone, is a Tell step, or a stuttering step when the line knew already.
LEMMA TellStep ==
    ASSUME TypeOK, NEW l \in Lines, closeChan[l] # "nil",
           leaving' = [leaving EXCEPT ![l] = TRUE], UNCHANGED <<lines, closeChan>>,
           \A k \in Lines : Unadded(k)' <=> Unadded(k)
    PROVE  [Connection!Next]_(Connection!vars)
<1>1. UNCHANGED <<Waiting, Joining, Members>> BY Zenon DEF Waiting, Joining, Members
<1>2. Told' = Told \cup {l} BY Zenon, TypeParts DEF Told, LineType
<1>3. CASE l \in Told
  <2>1. Told' = Told BY Zenon, <1>2, <1>3
  <2> QED BY Zenon, <1>1, <2>1 DEF Connection!vars
<1>4. CASE l \notin Told
  <2>1. l \notin Waiting BY Zenon DEF Waiting
  <2>2. Connection!Tell(l) BY Zenon, <1>1, <1>2, <1>4, <2>1 DEF Connection!Tell
  <2> QED BY Zenon, <2>2 DEF Connection!Next
<1> QED BY Zenon, <1>3, <1>4

\* The registrar's receive is a Take step: the line had no channel, and nobody else was
\* being added.
LEMMA TakeStep ==
    ASSUME TypeOK, RegLayer, TakeRegistered PROVE Connection!Next
<1> USE ProcNames
<1> DEFINE l == Head(registeredChan)
<1>1. registeredChan \in Seq(Lines) /\ registeredChan # <<>>
  BY Zenon, TypeParts DEF TakeRegistered, HubChanType
<1>2. l \in Lines /\ l \in Elems(registeredChan) BY Zenon, <1>1, ElemsTail
<1>3. closeChan[l] = "nil" BY Zenon, <1>2, RegParts DEF RegistrationInv
<1> HIDE DEF l
<1>4. /\ handling' = [handling EXCEPT !["registrar"] = l] /\ pc["registrar"] = "idle"
      /\ closeChan' = [closeChan EXCEPT ![l] = "open"]
      /\ pc' = [pc EXCEPT !["registrar"] = "make"] /\ UNCHANGED <<lines, leaving>>
  BY Zenon DEF TakeRegistered, l, lineVars, listVars
<1>5. handling'["registrar"] = l /\ pc'["registrar"] = "make"
  BY Zenon, <1>4, TypeParts DEF HandlingType, LoopType
<1>6. Joining = {} BY Zenon, <1>4 DEF Joining, Unadded
<1>7. Joining' = {l} BY Zenon, <1>2, <1>5 DEF Joining, Unadded, Registering
<1>8. l \in Waiting BY Zenon, <1>2, <1>3 DEF Waiting
<1>9. Waiting' = Waiting \ {l}
  <2>1. \A k \in Lines : closeChan'[k] = IF k = l THEN "open" ELSE closeChan[k]
    BY Zenon, <1>4, TypeParts DEF ChanType
  <2> QED BY <2>1 DEF Waiting
<1>10. Members' = Members /\ Told' = Told BY Zenon, <1>4 DEF Members, Told
<1>11. Connection!Take(l)
  BY Zenon, <1>6, <1>7, <1>8, <1>9, <1>10 DEF Connection!Take
<1> QED BY Zenon, <1>2, <1>11 DEF Connection!Next

\* UserLines.add is a Join step: the list belongs to the user of the line.
LEMMA JoinStep ==
    ASSUME TypeOK, RegLayer, OwnerInv, AddLine PROVE Connection!Next
<1> USE ProcNames
<1> DEFINE o == obj["registrar"]
           l == Registering
<1>1. /\ o \in Lines /\ l \in Lines /\ UserOf[o] = UserOf[l]
      /\ pc["registrar"] \in {"lock", "waiting"}
  <2>1. pc["registrar"] \in {"lock", "waiting"} BY Zenon DEF AddLine
  <2>2. o \in Lines BY Zenon, <2>1, HasList
  <2>3. l \in Lines
    BY Zenon, <2>1, TypeParts DEF HasObject, HandlingType, Registering
  <2> QED BY Zenon, <2>1, <2>2, <2>3 DEF OwnerInv
<1>2. /\ lines' = [lines EXCEPT ![o] = Append(lines[o], l)]
      /\ pc' = [pc EXCEPT !["registrar"] = "count"]
      /\ UNCHANGED <<leaving, closeChan, handling>>
  BY Zenon DEF AddLine, ListStep, lineVars, chanVars
<1>3. Joining = {l} BY Zenon, <1>1 DEF Joining, Unadded
<1> HIDE DEF o, l
<1>4. Joining' = {}
  <2>1. pc'["registrar"] = "count" BY Zenon, <1>2, TypeParts DEF LoopType
  <2> QED BY Zenon, <2>1 DEF Joining, Unadded
<1>5. \A m \in Lines : Elems(lines'[m]) = IF m = o THEN Elems(lines[o]) \cup {l}
                                                 ELSE Elems(lines[m])
  <2>1. Elems(Append(lines[o], l)) = Elems(lines[o]) \cup {l}
    BY Zenon, <1>1, ListedAreLines, ElemsAppend
  <2> QED BY Zenon, <1>1, <1>2, <2>1, TypeParts DEF ListType
<1>6. Members' = [Members EXCEPT ![UserOf[l]] = @ \cup {l}]
  <2>1. UserOf[l] \in Users BY <1>1, HubAssumption DEF HubAssumption
  <2>2. Members'[UserOf[l]] = Members[UserOf[l]] \cup {l} BY <1>1, <1>5, <2>1 DEF Members
  <2>3. ASSUME NEW u \in Users, u # UserOf[l] PROVE Members'[u] = Members[u]
    BY <1>1, <1>5, <2>3 DEF Members
  <2> QED BY Zenon, <2>1, <2>2, <2>3, OneUserChanges
<1>7. Waiting' = Waiting /\ Told' = Told BY Zenon, <1>2 DEF Waiting, Told
<1>8. Connection!Join(l) BY Zenon, <1>3, <1>4, <1>6, <1>7 DEF Connection!Join
<1> QED BY Zenon, <1>1, <1>8 DEF Connection!Next

\* Storing the list a sweep has kept is a Leave step of the lines it has told to close,
\* or a stuttering step when there are none.
LEMMA LeaveStep ==
    ASSUME TypeOK, RegLayer, ListLayer, NEW p \in Procs, UnlockLines(p)
    PROVE  [Connection!Next]_(Connection!vars)
<1> USE ProcNames
<1> DEFINE o == obj[p]
           u == UserOf[o]
           gone == Elems(lines[o]) \ Elems(kept[p])
<1>1. /\ o \in Lines /\ pc[p] = "sweep" /\ rest[p] = <<>>
      /\ lines' = [lines EXCEPT ![o] = kept[p]]
      /\ UNCHANGED <<leaving, closeChan, handling>>
  BY Zenon, SweepStepHasList DEF SweepStep, UnlockLines, ListStep, lineVars, chanVars
<1>2. pc'["registrar"] = pc["registrar"]
  <2>1. p # "registrar" BY Zenon, <1>1, RegParts DEF RegistrationInv
  <2> QED BY Zenon, <2>1, TypeParts DEF UnlockLines, LoopType
<1>3. /\ Elems(kept[p]) \subseteq Elems(lines[o])
      /\ \A l \in Elems(lines[o]) : l \in Elems(kept[p]) \/ leaving[l]
  BY Zenon, <1>1, ElemsEmpty, ListParts DEF SweepAt
<1>4. Elems(lines[o]) \subseteq Lines BY Zenon, <1>1, ListedAreLines
<1>5. u \in Users BY <1>1, HubAssumption DEF HubAssumption
<1> HIDE DEF o, u
<1>6. \A m \in Lines : Elems(lines'[m]) = IF m = o THEN Elems(kept[p]) ELSE Elems(lines[m])
  BY Zenon, <1>1, TypeParts DEF ListType
<1>7. \A m \in Lines : m # o => Elems(lines[m]) \cap gone = {}
  BY Zenon, <1>1, ListParts DEF ListsDisjoint
<1>8. gone \subseteq Members[u] \cap Told
  BY <1>1, <1>3, <1>4, <1>5 DEF Members, Told, u
<1>9. Members' = [Members EXCEPT ![u] = @ \ gone]
  <2>1. Members'[u] = Members[u] \ gone
    BY <1>1, <1>3, <1>5, <1>6, <1>7 DEF Members, u
  <2>2. ASSUME NEW v \in Users, v # u PROVE Members'[v] = Members[v]
    BY <1>6, <2>2 DEF Members, u
  <2> QED BY Zenon, <1>5, <2>1, <2>2, OneUserChanges
<1>10. UNCHANGED <<Waiting, Joining, Told>>
  BY Zenon, <1>1, <1>2 DEF Waiting, Joining, Told, Unadded, Registering
<1>11. gone \in SUBSET Lines BY Zenon, <1>4
<1> HIDE DEF gone
<1>12. CASE gone = {}
  <2>1. Members' = Members BY <1>9, <1>12 DEF Members
  <2> QED BY Zenon, <1>10, <2>1 DEF Connection!vars
<1>13. CASE gone # {}
  <2>1. Connection!Leave(u, gone)
    BY Zenon, <1>8, <1>9, <1>10, <1>13 DEF Connection!Leave
  <2> QED BY Zenon, <1>5, <1>11, <2>1 DEF Connection!Next
<1> QED BY Zenon, <1>12, <1>13

\* Every step of a loop over lines is a step of Membership.
LEMMA SweepIsMembership ==
    ASSUME TypeOK, RegLayer, ListLayer, NEW p \in Procs, p # "registrar", SweepStep(p)
    PROVE  [Connection!Next]_(Connection!vars)
<1> USE ProcNames
<1>1. UNCHANGED <<closeChan, handling>> /\ pc'["registrar"] = pc["registrar"]
  <2> USE TypeParts DEF chanVars, loopVars, LoopType
  <2>1. CASE LockLines(p) BY Zenon, <2>1 DEF LockLines
  <2>2. CASE KeepLine(p) BY Zenon, <2>2 DEF KeepLine
  <2>3. CASE SignalLine(p) BY Zenon, <2>3 DEF SignalLine
  <2>4. CASE UnlockLines(p) BY Zenon, <2>4 DEF UnlockLines
  <2>5. CASE RLockLines(p) BY Zenon, <2>5 DEF RLockLines
  <2>6. CASE PushLine(p) BY Zenon, <2>6 DEF PushLine
  <2>7. CASE SendPanics(p) BY Zenon, <2>7 DEF SendPanics
  <2> QED BY Zenon, <2>1, <2>2, <2>3, <2>4, <2>5, <2>6, <2>7 DEF SweepStep
<1>2. \A l \in Lines : Unadded(l)' <=> Unadded(l) BY Zenon, <1>1 DEF Unadded, Registering
<1>3. CASE SignalLine(p)
  <2>1. /\ rest[p] \in Seq(Lines) /\ rest[p] # <<>> /\ closeChan[Head(rest[p])] = "open"
        /\ leaving' = [leaving EXCEPT ![Head(rest[p])] = TRUE] /\ UNCHANGED lines
    BY Zenon, <1>3, TypeParts DEF SignalLine, LoopType, listVars
  <2>2. Head(rest[p]) \in Lines BY Zenon, <2>1, ElemsTail
  <2>3. closeChan[Head(rest[p])] # "nil" BY <2>1
  <2> QED BY Zenon, <1>1, <1>2, <2>1, <2>2, <2>3, TellStep
<1>4. CASE UnlockLines(p) BY Zenon, <1>4, LeaveStep
<1>5. CASE ~SignalLine(p) /\ ~UnlockLines(p)
  <2>1. UNCHANGED <<lines, leaving>>
    BY Zenon, <1>5 DEF SweepStep, LockLines, KeepLine, RLockLines, PushLine, SendPanics,
       ListStep, listVars, lineVars
  <2> QED BY Zenon, <1>1, <1>2, <2>1, UnseenStep
<1> QED BY Zenon, <1>3, <1>4, <1>5

\* hub.go implements Membership: whatever its goroutines, the clients and the application
\* do, every connection joins its own user's connections once, leaves them only after it
\* has been told to close, and never comes back.
THEOREM HubConnectionsGoOneWay == Spec => ConnectionsGoOneWay
<1> USE ProcNames
<1>1. Init => Connection!Init
  <2> SUFFICES ASSUME Init PROVE Connection!Init OBVIOUS
  <2>1. Waiting = Lines BY Zenon DEF Init, Waiting
  <2>2. Joining = {} BY Zenon DEF Init, Joining, Unadded
  <2>3. Told = {} BY Zenon DEF Init, Told
  <2>4. \A o \in Lines : Elems(lines[o]) = {} BY Zenon, ElemsEmpty DEF Init
  <2>5. Members = [u \in Users |-> {}] BY <2>4 DEF Members
  <2> QED BY Zenon, <2>1, <2>2, <2>3, <2>5 DEF Connection!Init
<1>2. TypeOK /\ RegLayer /\ ListLayer /\ OwnerInv /\ [Next]_vars
      => [Connection!Next]_(Connection!vars)
  <2> SUFFICES ASSUME TypeOK, RegLayer, ListLayer, OwnerInv, [Next]_vars
               PROVE  [Connection!Next]_(Connection!vars)
    OBVIOUS
  <2>1. CalmAll \/ KeyStep BY Zenon, StepKinds, RegParts DEF RegistrationInv, RegistrarStates
  <2>2. ASSUME Calm PROVE UNCHANGED Connection!vars
    <3>1. \A l \in Lines : Unadded(l)' <=> Unadded(l)
      BY <2>2 DEF Calm, Unadded, Registering
    <3> QED BY Zenon, <2>2, <3>1, UnseenStep DEF Calm
  <2>3. ASSUME NEW p \in Procs, SweepStep(p) PROVE [Connection!Next]_(Connection!vars)
    <3>1. p # "registrar"
      BY Zenon, <2>3, SweepersAreNotRegistrar, RegParts DEF RegistrationInv, RegistrarStates
    <3> QED BY Zenon, <2>3, <3>1, SweepIsMembership
  <2>4. ASSUME NEW l \in Lines, SendRegistered(l) \/ ReceiveClosed(l)
        PROVE  [Connection!Next]_(Connection!vars)
    <3>1. UNCHANGED <<lines, closeChan, pc, handling>>
      BY Zenon, <2>4 DEF SendRegistered, ReceiveClosed, LineStep, listVars, chanVars,
         procVars, loopVars
    <3>2. \A k \in Lines : Unadded(k)' <=> Unadded(k) BY Zenon, <3>1 DEF Unadded, Registering
    <3>3. CASE SendRegistered(l)
      <4>1. UNCHANGED leaving BY Zenon, <3>3 DEF SendRegistered
      <4> QED BY Zenon, <3>1, <3>2, <4>1, UnseenStep
    <3>4. CASE ReceiveClosed(l)
      <4>1. closeChan[l] # "nil" /\ leaving' = [leaving EXCEPT ![l] = TRUE]
        BY <3>4 DEF ReceiveClosed
      <4> QED BY Zenon, <3>1, <3>2, <4>1, TellStep
    <3> QED BY Zenon, <2>4, <3>3, <3>4
  <2>5. CASE MakeWriteChan \/ LoadOrStore \/ CountRegistered
    <3>1. UNCHANGED <<lines, leaving, closeChan>>
      BY Zenon, <2>5 DEF MakeWriteChan, LoadOrStore, CountRegistered, ListStep, lineVars,
         listVars, chanVars
    <3>2. \A l \in Lines : Unadded(l)' <=> Unadded(l)
      <4>1. CASE MakeWriteChan \/ LoadOrStore
        BY <4>1, TypeParts DEF MakeWriteChan, LoadOrStore, Unadded, Registering, LoopType
      <4>2. CASE CountRegistered
        BY <4>2, TypeParts DEF CountRegistered, Unadded, Registering, LoopType
      <4> QED BY Zenon, <2>5, <4>1, <4>2
    <3> QED BY Zenon, <3>1, <3>2, UnseenStep
  <2>6. CASE CloseCloseChan \/ CloseWriteChan
    <3>1. /\ UNCHANGED <<lines, leaving, handling>> /\ pc'["registrar"] = pc["registrar"]
      BY Zenon, <2>6, TypeParts DEF CloseCloseChan, CloseWriteChan, ListStep, lineVars,
         listVars, LoopType
    <3>2. \A l \in Lines : closeChan'[l] = "nil" <=> closeChan[l] = "nil"
      BY Zenon, <2>6, TypeParts DEF CloseCloseChan, CloseWriteChan, ChanType
    <3>3. \A l \in Lines : Unadded(l)' <=> Unadded(l) BY Zenon, <3>1 DEF Unadded, Registering
    <3> QED BY Zenon, <3>1, <3>2, <3>3, UnseenStep
  <2>7. Registrar => [Connection!Next]_(Connection!vars)
    BY Zenon, <2>5, TakeStep, JoinStep DEF Registrar
  <2>8. ReceiveLine => Calm BY Zenon, ReceiveLineCalm
  <2> QED BY Zenon, <2>1, <2>2, <2>3, <2>4, <2>6, <2>7, <2>8 DEF KeyStep, CalmAll
<1> QED BY <1>1, <1>2, HubTypeCorrect, HubRegistration, HubLists, HubOwners, PTL
        DEF Spec, ConnectionsGoOneWay, Connection!Spec
=============================================================================
