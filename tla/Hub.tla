-------------------------------- MODULE Hub --------------------------------
(***************************************************************************)
(* The WebSocket hub of hub.go: client connections (Line), the lists of a  *)
(* user's connections (UserLines, each guarded by an RWMutex), the user    *)
(* map Hub.connections, and the goroutines that share them.                *)
(*                                                                         *)
(* Every line runs a reader and a writer goroutine (Line.start); the hub   *)
(* runs a registrar, an unregistrar and a reaper (NewHub); the application *)
(* calls the close and push operations from any number of goroutines       *)
(* (Callers) and Hub.Close once (the "closer").  One action is one step of *)
(* one goroutine between two points where it can block or touch state that *)
(* another goroutine reads.                                                *)
(*                                                                         *)
(* A UserLines object is allocated by LoadOrStore while a line is being    *)
(* registered, and a line is registered once, so the object is named by    *)
(* that line: lines[o] is the slice of the object allocated for line o.    *)
(***************************************************************************)
EXTENDS Integers, Sequences

CONSTANTS
    Lines,            \* the connections that clients may open
    Users,            \* user ids
    UserOf,           \* Line.userId
    IdOf,             \* Line.id, chosen by the application
    PlatformOf,       \* Line.platform
    Callers,          \* application goroutines calling close and push
    None,             \* Go's nil, and "absent from the map"
    MessageCap,       \* capacity of Hub.messageChan (4096)
    RegisteredCap,    \* capacity of Hub.registeredChan (2048)
    UnregisteredCap,  \* capacity of Hub.unregisteredChan (2048)
    ErrorCap,         \* capacity of Hub.errorChan (2048)
    WriteCap,         \* capacity of Line.writeChan (2048)
    IdleCheck,        \* connMaxIdleSeconds > 0
    PoolRecovers,     \* the CoroutinePool recovers a task's panic
    MayClose,         \* the application calls Hub.Close
    MayReceive,       \* the application receives from RegisteredChan(), UnegisteredChan()
    MaxTicks,         \* bound: ticks of liveTicker
    MaxCalls,         \* bound: close and push calls of the application
    MaxFrames,        \* bound: binary frames read
    MaxFaults,        \* bound: faults of pool, peer or network on open connections
    MaxEvents         \* bound: all of these together

HubProcs == {"registrar", "unregistrar", "reaper", "closer"}
Procs == Callers \cup HubProcs
Tasks == {"reader", "writer"}
Ids == {IdOf[l] : l \in Lines}
Platforms == {PlatformOf[l] : l \in Lines}
Resources == {"tick", "call", "frame", "fault"}
Bound == [tick |-> MaxTicks, call |-> MaxCalls, frame |-> MaxFrames, fault |-> MaxFaults]

ASSUME HubAssumption ==
    /\ UserOf \in [Lines -> Users]
    /\ Callers \cap HubProcs = {}
    /\ None \notin Lines /\ None \notin Procs
    /\ MessageCap \in Nat /\ RegisteredCap \in Nat /\ UnregisteredCap \in Nat
    /\ ErrorCap \in Nat /\ WriteCap \in Nat
    /\ IdleCheck \in BOOLEAN /\ PoolRecovers \in BOOLEAN /\ MayClose \in BOOLEAN

VARIABLES
    conn,            \* the websocket of each line, as this process holds it
    starter,         \* the next step of Line.start, run by UpgradeWebSocket
    task,            \* where the reader and the writer of each line are
    leaving,         \* the writer has received from closeChan
    seen,            \* the channels that were not nil when the writer's select began
    closeChan,       \* Line.closeChan: "nil", "open" or "closed"; unbuffered
    writeChan,       \* Line.writeChan: "nil", "open" or "closed"
    queued,          \* messages buffered in Line.writeChan
    lines,           \* UserLines.lines
    wlock,           \* the goroutine holding UserLines.Lock
    rlocks,          \* the goroutines holding UserLines.RLock
    connections,     \* Hub.connections: the UserLines of each user
    connCount,       \* Hub.connCount
    messageChan,     \* messages buffered in Hub.messageChan
    registeredChan,  \* Hub.registeredChan
    unregisteredChan,\* Hub.unregisteredChan
    errorChan,       \* errors buffered in Hub.errorChan
    hubClosed,       \* how many of the four hub channels Hub.Close has closed; 5 when
                     \* it has also dropped readBufferPool and the user map
    pc,              \* where each goroutine of the hub and each caller is
    obj,             \* the UserLines a goroutine has loaded
    sel,             \* the lines the running operation selects
    rest,            \* loop over UserLines.lines: the lines still to visit
    kept,            \* the slice of lines to keep, built by that loop
    todo,            \* loop over users: the users still to visit
    handling,        \* the line the registrar or the unregistrar has received
    delArr,          \* the reaper's delArr
    spent,           \* how much of each bound is used up
    crashed          \* an unrecovered panic has ended the process

lineVars == <<conn, starter, task, leaving, seen>>
chanVars == <<closeChan, writeChan, queued>>
listVars == <<lines, wlock, rlocks>>
mapVars == <<connections, connCount>>
hubChans == <<messageChan, registeredChan, unregisteredChan, errorChan, hubClosed>>
loopVars == <<obj, sel, rest, kept, todo>>
procVars == <<pc, loopVars, handling, delArr>>
vars == <<lineVars, chanVars, listVars, mapVars, hubChans, procVars, spent, crashed>>

Init ==
    /\ conn = [l \in Lines |-> "none"]
    /\ starter = [l \in Lines |-> "idle"]
    /\ task = [t \in Tasks |-> [l \in Lines |-> "off"]]
    /\ leaving = [l \in Lines |-> FALSE]
    /\ seen = [l \in Lines |-> {}]
    /\ closeChan = [l \in Lines |-> "nil"] /\ writeChan = [l \in Lines |-> "nil"]
    /\ queued = [l \in Lines |-> 0]
    /\ lines = [o \in Lines |-> <<>>]
    /\ wlock = [o \in Lines |-> None] /\ rlocks = [o \in Lines |-> {}]
    /\ connections = [u \in Users |-> None] /\ connCount = 0
    /\ messageChan = 0 /\ errorChan = 0 /\ hubClosed = 0
    /\ registeredChan = <<>> /\ unregisteredChan = <<>>
    /\ pc = [p \in Procs |-> "idle"]
    /\ obj = [p \in Procs |-> None]
    /\ sel = [p \in Procs |-> {}] /\ todo = [p \in Procs |-> {}]
    /\ rest = [p \in Procs |-> <<>>] /\ kept = [p \in Procs |-> <<>>]
    /\ handling = [p \in {"registrar", "unregistrar"} |-> None]
    /\ delArr = {}
    /\ spent = [k \in Resources |-> 0]
    /\ crashed = FALSE
-----------------------------------------------------------------------------
\* One unit of a bounded resource of the model.
Spend(k) ==
    /\ spent[k] < Bound[k]
    /\ spent["tick"] + spent["call"] + spent["frame"] + spent["fault"] < MaxEvents
    /\ spent' = [spent EXCEPT ![k] = @ + 1]

\* A connection that this process has closed fails freely, an open one by a fault.
FaultIfOpen(l) == IF conn[l] = "open" THEN Spend("fault") ELSE UNCHANGED spent

\* A step that does not panic, and one that does: without a recovering pool the
\* panic ends the process.  After that nothing runs.
Running == ~crashed /\ UNCHANGED crashed
Panics == ~crashed /\ crashed' = ~PoolRecovers

\* What the steps of a line's goroutines leave alone, and what the steps that
\* work on the lists and the user map leave alone.
LineStep == Running /\ UNCHANGED <<listVars, mapVars, procVars>>
ListStep == Running /\ UNCHANGED <<lineVars, hubChans>>
-----------------------------------------------------------------------------
(* UpgradeWebSocket and Line.start, run by an HTTP handler.                *)

\* The handshake succeeds and a Line is made; a failed handshake leaves nothing.
UpgradeWebSocket(l) ==
    /\ starter[l] = "idle"
    /\ starter' = [starter EXCEPT ![l] = "reader"]
    /\ conn' = [conn EXCEPT ![l] = "open"]
    /\ LineStep /\ UNCHANGED <<task, leaving, seen, chanVars, hubChans, spent>>

\* The first Submit starts the reader.
SubmitReader(l) ==
    /\ starter[l] = "reader"
    /\ starter' = [starter EXCEPT ![l] = "writer"]
    /\ task' = [task EXCEPT !["reader"][l] = "read"]
    /\ LineStep /\ UNCHANGED <<conn, leaving, seen, chanVars, hubChans, spent>>

\* The second Submit starts the writer, before the registrar knows the line.
SubmitWriter(l) ==
    /\ starter[l] = "writer"
    /\ starter' = [starter EXCEPT ![l] = "register"]
    /\ task' = [task EXCEPT !["writer"][l] = "select"]
    /\ LineStep /\ UNCHANGED <<conn, leaving, seen, chanVars, hubChans, spent>>

\* Either Submit fails: the connection is closed and the error returned.
SubmitFails(l) ==
    /\ starter[l] \in {"reader", "writer"} /\ Spend("fault")
    /\ starter' = [starter EXCEPT ![l] = "done"]
    /\ conn' = [conn EXCEPT ![l] = "closed"]
    /\ LineStep /\ UNCHANGED <<task, leaving, seen, chanVars, hubChans>>

\* registeredChan <- ln.  After Hub.Close the send panics; net/http recovers the
\* panic of a handler.
SendRegistered(l) ==
    /\ starter[l] = "register"
    /\ \/ /\ hubClosed < 2 /\ Len(registeredChan) < RegisteredCap
          /\ registeredChan' = Append(registeredChan, l)
       \/ hubClosed >= 2 /\ UNCHANGED registeredChan
    /\ starter' = [starter EXCEPT ![l] = "done"]
    /\ LineStep
    /\ UNCHANGED <<conn, task, leaving, seen, chanVars, messageChan, unregisteredChan,
                   errorChan, hubClosed, spent>>
-----------------------------------------------------------------------------
(* The reader goroutine (the first task of Line.start).                    *)

\* SetReadDeadline, NextReader or io.Copy returns an error: the peer is gone, the
\* read or a pong timed out, or this process has closed the connection.
ReadFails(l) ==
    /\ task["reader"][l] = "read" /\ FaultIfOpen(l)
    /\ task' = [task EXCEPT !["reader"][l] = "error"]
    /\ LineStep /\ UNCHANGED <<conn, starter, leaving, seen, chanVars, hubChans>>

\* A close or a text frame: ln.close(_, nil), without an error event.
ReadOtherFrame(l) ==
    /\ task["reader"][l] = "read" /\ conn[l] = "open" /\ Spend("fault")
    /\ task' = [task EXCEPT !["reader"][l] = "shut"]
    /\ LineStep /\ UNCHANGED <<conn, starter, leaving, seen, chanVars, hubChans>>

\* A binary frame is copied into a buffer of readBufferPool.
ReadBinary(l) ==
    /\ task["reader"][l] = "read" /\ conn[l] = "open" /\ hubClosed < 5
    /\ Spend("frame")
    /\ task' = [task EXCEPT !["reader"][l] = "message"]
    /\ LineStep /\ UNCHANGED <<conn, starter, leaving, seen, chanVars, hubChans>>

\* messageChan <- message.
SendMessage(l) ==
    /\ task["reader"][l] = "message" /\ hubClosed = 0 /\ messageChan < MessageCap
    /\ messageChan' = messageChan + 1
    /\ task' = [task EXCEPT !["reader"][l] = "read"]
    /\ LineStep
    /\ UNCHANGED <<conn, starter, leaving, seen, chanVars, registeredChan,
                   unregisteredChan, errorChan, hubClosed, spent>>
-----------------------------------------------------------------------------
(* The writer goroutine (the second task of Line.start).                   *)

\* The select statement evaluates its channel operands once, on entry: a nil
\* channel is never ready, whatever is later stored in the field.
EnterSelect(l) ==
    /\ task["writer"][l] = "select"
    /\ task' = [task EXCEPT !["writer"][l] = "wait"]
    /\ seen' = [seen EXCEPT ![l] = (IF closeChan[l] = "nil" THEN {} ELSE {"close"})
                              \cup (IF writeChan[l] = "nil" THEN {} ELSE {"write"})]
    /\ LineStep /\ UNCHANGED <<conn, starter, leaving, chanVars, hubChans, spent>>

\* case <-closeChan on the closed channel (a signal is received in SignalLine).
ReceiveClosed(l) ==
    /\ task["writer"][l] = "wait" /\ "close" \in seen[l] /\ closeChan[l] = "closed"
    /\ leaving' = [leaving EXCEPT ![l] = TRUE]
    /\ task' = [task EXCEPT !["writer"][l] = "shut"]
    /\ LineStep /\ UNCHANGED <<conn, starter, seen, chanVars, hubChans, spent>>

\* case msg := <-writeChan: a buffered message, or nil from the closed channel.
ReceiveMessage(l) ==
    /\ task["writer"][l] = "wait" /\ "write" \in seen[l]
    /\ \/ queued[l] > 0 /\ queued' = [queued EXCEPT ![l] = @ - 1]
       \/ queued[l] = 0 /\ writeChan[l] = "closed" /\ UNCHANGED queued
    /\ task' = [task EXCEPT !["writer"][l] = "write"]
    /\ LineStep
    /\ UNCHANGED <<conn, starter, leaving, seen, closeChan, writeChan, hubChans, spent>>

\* WriteMessage; after an error the loop goes on once ln.close has returned.
\* (gorilla/websocket's SetWriteDeadline never returns an error.)
WriteMessage(l) ==
    /\ task["writer"][l] = "write"
    /\ \/ /\ conn[l] = "open" /\ UNCHANGED spent
          /\ task' = [task EXCEPT !["writer"][l] = "select"]
       \/ /\ FaultIfOpen(l)
          /\ task' = [task EXCEPT !["writer"][l] = "error"]
    /\ LineStep /\ UNCHANGED <<conn, starter, leaving, seen, chanVars, hubChans>>
-----------------------------------------------------------------------------
(* Line.close, called by the reader and by the writer.                     *)

\* errorChan <- the error, when there is one.
SendError(t, l) ==
    /\ task[t][l] = "error" /\ hubClosed < 4 /\ errorChan < ErrorCap
    /\ errorChan' = errorChan + 1
    /\ task' = [task EXCEPT ![t][l] = "shut"]
    /\ LineStep
    /\ UNCHANGED <<conn, starter, leaving, seen, chanVars, messageChan, registeredChan,
                   unregisteredChan, hubClosed, spent>>

\* The close frame, if one is sent, and conn.Close.
CloseConn(t, l) ==
    /\ task[t][l] = "shut"
    /\ conn' = [conn EXCEPT ![l] = "closed"]
    /\ task' = [task EXCEPT ![t][l] = "post"]
    /\ LineStep /\ UNCHANGED <<starter, leaving, seen, chanVars, hubChans, spent>>

\* Where a goroutine goes when Line.close returns: the reader and a writer that
\* was told to close return, a writer whose write failed loops.
AfterClose(t, l) == IF t = "reader" \/ leaving[l] THEN "done" ELSE "select"

\* unregisteredChan <- ln.
SendUnregistered(t, l) ==
    /\ task[t][l] = "post" /\ hubClosed < 3 /\ Len(unregisteredChan) < UnregisteredCap
    /\ unregisteredChan' = Append(unregisteredChan, l)
    /\ task' = [task EXCEPT ![t][l] = AfterClose(t, l)]
    /\ LineStep
    /\ UNCHANGED <<conn, starter, leaving, seen, chanVars, messageChan, registeredChan,
                   errorChan, hubClosed, spent>>

\* A send on a hub channel that Hub.Close has closed panics, and so does a frame
\* read when Hub.Close has set readBufferPool to nil.
TaskPanics(t, l) ==
    /\ \/ task[t][l] = "read" /\ conn[l] = "open" /\ hubClosed = 5
       \/ task[t][l] = "message" /\ hubClosed >= 1
       \/ task[t][l] = "post" /\ hubClosed >= 3
       \/ task[t][l] = "error" /\ hubClosed >= 4
    /\ task' = [task EXCEPT ![t][l] = "dead"]
    /\ Panics
    /\ UNCHANGED <<conn, starter, leaving, seen, chanVars, listVars, mapVars, hubChans,
                   procVars, spent>>
-----------------------------------------------------------------------------
(* UserLines: the RWMutex, the closing loops and the pushing loops.        *)

LockFree(o) == wlock[o] = None /\ rlocks[o] = {}

\* Mutant: RLock does not look for a goroutine that holds Lock.
RLockFreeUnchecked(o) ==
    \A p \in Procs : ~(pc[p] = "waiting" /\ obj[p] = o)

\* A goroutine waiting in Lock keeps new readers out.
RLockFree(o) ==
    wlock[o] = None /\ \A p \in Procs : ~(pc[p] = "waiting" /\ obj[p] = o)

\* Lock finds the mutex taken.
AwaitLock(p) ==
    /\ pc[p] = "lock" /\ ~LockFree(obj[p])
    /\ pc' = [pc EXCEPT ![p] = "waiting"]
    /\ ListStep
    /\ UNCHANGED <<chanVars, listVars, mapVars, loopVars, handling, delArr, spent>>

\* Mutant: the slice to keep starts as u.lines instead of empty.
LockLinesFromOld(p) ==
    /\ p # "registrar" /\ pc[p] \in {"lock", "waiting"} /\ LockFree(obj[p])
    /\ wlock' = [wlock EXCEPT ![obj[p]] = p]
    /\ \E S \in SUBSET Lines :
         (p # "reaper" => S = sel[p]) /\ sel' = [sel EXCEPT ![p] = S]
    /\ kept' = [kept EXCEPT ![p] = lines[obj[p]]]
    /\ rest' = [rest EXCEPT ![p] = lines[obj[p]]]
    /\ pc' = [pc EXCEPT ![p] = "sweep"]
    /\ ListStep
    /\ UNCHANGED <<chanVars, lines, rlocks, mapVars, obj, todo, handling, delArr,
                   spent>>

\* Lock, and the head of the loop that closes the selected lines.  Which lines
\* closeInactiveLines finds idle depends on the clock and the clients: any of them.
LockLines(p) ==
    /\ p # "registrar" /\ pc[p] \in {"lock", "waiting"} /\ LockFree(obj[p])
    /\ wlock' = [wlock EXCEPT ![obj[p]] = p]
    /\ \E S \in SUBSET Lines :
         (p # "reaper" => S = sel[p]) /\ sel' = [sel EXCEPT ![p] = S]
    /\ rest' = [rest EXCEPT ![p] = lines[obj[p]]]
    /\ pc' = [pc EXCEPT ![p] = "sweep"]
    /\ ListStep
    /\ UNCHANGED <<chanVars, lines, rlocks, mapVars, obj, kept, todo, handling, delArr,
                   spent>>

\* Mutant: the else branch that keeps a line is missing.
KeepLineForgets(p) ==
    /\ pc[p] = "sweep" /\ rest[p] # <<>> /\ Head(rest[p]) \notin sel[p]
    /\ rest' = [rest EXCEPT ![p] = Tail(@)]
    /\ ListStep
    /\ UNCHANGED <<chanVars, listVars, mapVars, pc, obj, sel, kept, todo, handling, delArr,
                   spent>>

\* A line that is not selected is kept.
KeepLine(p) ==
    /\ pc[p] = "sweep" /\ rest[p] # <<>> /\ Head(rest[p]) \notin sel[p]
    /\ kept' = [kept EXCEPT ![p] = Append(@, Head(rest[p]))]
    /\ rest' = [rest EXCEPT ![p] = Tail(@)]
    /\ ListStep
    /\ UNCHANGED <<chanVars, listVars, mapVars, pc, obj, sel, todo, handling, delArr,
                   spent>>

\* Mutant: the signal is sent again to the line that has received it.
SignalLineTwice(p) ==
    /\ pc[p] = "sweep" /\ rest[p] # <<>> /\ Head(rest[p]) \in sel[p]
    /\ LET l == Head(rest[p]) IN
       /\ closeChan[l] = "open" /\ task["writer"][l] = "wait" /\ "close" \in seen[l]
       /\ leaving' = [leaving EXCEPT ![l] = TRUE]
       /\ task' = [task EXCEPT !["writer"][l] = "shut"]
    /\ Running
    /\ UNCHANGED <<conn, starter, seen, chanVars, listVars, mapVars, hubChans, pc, obj,
                   sel, rest, kept, todo, handling, delArr, spent>>

\* closeChan <- Empty{} on an unbuffered channel: the writer must be in a select
\* that has seen the channel, and receives; it goes on with ln.close(true, nil).
SignalLine(p) ==
    /\ pc[p] = "sweep" /\ rest[p] # <<>> /\ Head(rest[p]) \in sel[p]
    /\ LET l == Head(rest[p]) IN
       /\ closeChan[l] = "open" /\ task["writer"][l] = "wait" /\ "close" \in seen[l]
       /\ leaving' = [leaving EXCEPT ![l] = TRUE]
       /\ task' = [task EXCEPT !["writer"][l] = "shut"]
    /\ rest' = [rest EXCEPT ![p] = Tail(@)]
    /\ Running
    /\ UNCHANGED <<conn, starter, seen, chanVars, listVars, mapVars, hubChans, pc, obj,
                   sel, kept, todo, handling, delArr, spent>>

\* What follows the closing loop: the reaper and the unregistrar go on with this
\* list, the others with the next user.
AfterSweep(p) ==
    CASE p = "reaper" -> "len"
      [] p = "unregistrar" -> "count"
      [] OTHER -> "closing"

\* Mutant: u.lines = lines is missing.
UnlockLinesUnassigned(p) ==
    /\ pc[p] = "sweep" /\ rest[p] = <<>>
    /\ wlock' = [wlock EXCEPT ![obj[p]] = None]
    /\ kept' = [kept EXCEPT ![p] = <<>>]
    /\ pc' = [pc EXCEPT ![p] = AfterSweep(p)]
    /\ ListStep
    /\ UNCHANGED <<chanVars, lines, rlocks, mapVars, obj, sel, rest, todo, handling, delArr,
                   spent>>

\* u.lines = lines, and the deferred Unlock.
UnlockLines(p) ==
    /\ pc[p] = "sweep" /\ rest[p] = <<>>
    /\ lines' = [lines EXCEPT ![obj[p]] = kept[p]]
    /\ wlock' = [wlock EXCEPT ![obj[p]] = None]
    /\ kept' = [kept EXCEPT ![p] = <<>>]
    /\ pc' = [pc EXCEPT ![p] = AfterSweep(p)]
    /\ ListStep
    /\ UNCHANGED <<chanVars, rlocks, mapVars, obj, sel, rest, todo, handling, delArr,
                   spent>>

\* RLock, and the head of the loop that pushes to the selected lines.
RLockLines(p) ==
    /\ pc[p] = "rlock" /\ RLockFree(obj[p])
    /\ rlocks' = [rlocks EXCEPT ![obj[p]] = @ \cup {p}]
    /\ rest' = [rest EXCEPT ![p] = lines[obj[p]]]
    /\ pc' = [pc EXCEPT ![p] = "push"]
    /\ ListStep
    /\ UNCHANGED <<chanVars, lines, wlock, mapVars, obj, sel, kept, todo, handling,
                   delArr, spent>>

\* Mutant: the loop stays at the line it has pushed to.
PushLineTwice(p) ==
    /\ pc[p] = "push" /\ rest[p] # <<>>
    /\ LET l == Head(rest[p]) IN
       /\ l \in sel[p] /\ writeChan[l] = "open" /\ queued[l] < WriteCap
       /\ queued' = [queued EXCEPT ![l] = @ + 1]
    /\ ListStep
    /\ UNCHANGED <<closeChan, writeChan, listVars, mapVars, procVars, spent>>

\* A line that is not selected is passed over; otherwise writeChan <- data, which
\* waits while the buffer is full.
PushLine(p) ==
    /\ pc[p] = "push" /\ rest[p] # <<>>
    /\ LET l == Head(rest[p]) IN
       \/ l \notin sel[p] /\ UNCHANGED queued
       \/ /\ l \in sel[p] /\ writeChan[l] = "open" /\ queued[l] < WriteCap
          /\ queued' = [queued EXCEPT ![l] = @ + 1]
    /\ rest' = [rest EXCEPT ![p] = Tail(@)]
    /\ ListStep
    /\ UNCHANGED <<closeChan, writeChan, listVars, mapVars, pc, obj, sel, kept, todo,
                   handling, delArr, spent>>

\* The deferred RUnlock.
RUnlockLines(p) ==
    /\ pc[p] = "push" /\ rest[p] = <<>>
    /\ rlocks' = [rlocks EXCEPT ![obj[p]] = @ \ {p}]
    /\ pc' = [pc EXCEPT ![p] = "pushing"]
    /\ ListStep
    /\ UNCHANGED <<chanVars, lines, wlock, mapVars, loopVars, handling, delArr, spent>>

\* The next send of the loop of p is on a closed channel.
SendsOnClosed(p) ==
    /\ rest[p] # <<>> /\ Head(rest[p]) \in sel[p]
    /\ \/ pc[p] = "sweep" /\ closeChan[Head(rest[p])] = "closed"
       \/ pc[p] = "push" /\ writeChan[Head(rest[p])] = "closed"

\* Mutant: the unlock is not deferred.
SendPanicsLocked(p) ==
    /\ SendsOnClosed(p)
    /\ pc' = [pc EXCEPT ![p] = "dead"]
    /\ Panics
    /\ UNCHANGED <<lineVars, chanVars, listVars, mapVars, hubChans, loopVars, handling,
                   delArr, spent>>

\* Such a send panics: the deferred unlock runs, u.lines is not assigned.
SendPanics(p) ==
    /\ SendsOnClosed(p)
    /\ wlock' = [wlock EXCEPT ![obj[p]] = IF @ = p THEN None ELSE @]
    /\ rlocks' = [rlocks EXCEPT ![obj[p]] = @ \ {p}]
    /\ pc' = [pc EXCEPT ![p] = "dead"]
    /\ Panics
    /\ UNCHANGED <<lineVars, chanVars, lines, mapVars, hubChans, loopVars, handling,
                   delArr, spent>>
-----------------------------------------------------------------------------
(* The registrar: for ln := range registeredChan.                          *)

Registering == handling["registrar"]

\* The next line; its closeChan is made first.
TakeRegistered ==
    /\ pc["registrar"] = "idle" /\ registeredChan # <<>>
    /\ handling' = [handling EXCEPT !["registrar"] = Head(registeredChan)]
    /\ registeredChan' = Tail(registeredChan)
    /\ closeChan' = [closeChan EXCEPT ![Head(registeredChan)] = "open"]
    /\ pc' = [pc EXCEPT !["registrar"] = "make"]
    /\ Running
    /\ UNCHANGED <<lineVars, writeChan, queued, listVars, mapVars, messageChan,
                   unregisteredChan, errorChan, hubClosed, loopVars, delArr, spent>>

\* Mutant: writeChan is not made before the line is added.
MakeWriteChanLate ==
    /\ pc["registrar"] = "make"
    /\ UNCHANGED writeChan
    /\ pc' = [pc EXCEPT !["registrar"] = "store"]
    /\ ListStep
    /\ UNCHANGED <<closeChan, queued, listVars, mapVars, loopVars, handling, delArr,
                   spent>>

\* ln.writeChan = make(chan []byte, 2048).
MakeWriteChan ==
    /\ pc["registrar"] = "make"
    /\ writeChan' = [writeChan EXCEPT ![Registering] = "open"]
    /\ pc' = [pc EXCEPT !["registrar"] = "store"]
    /\ ListStep
    /\ UNCHANGED <<closeChan, queued, listVars, mapVars, loopVars, handling, delArr,
                   spent>>

\* connections.LoadOrStore(ln.userId, &UserLines{}).
LoadOrStore ==
    /\ pc["registrar"] = "store"
    /\ LET u == UserOf[Registering]
           o == IF connections[u] = None THEN Registering ELSE connections[u]
       IN  /\ connections' = [connections EXCEPT ![u] = o]
           /\ obj' = [obj EXCEPT !["registrar"] = o]
    /\ pc' = [pc EXCEPT !["registrar"] = "lock"]
    /\ ListStep
    /\ UNCHANGED <<chanVars, listVars, connCount, sel, rest, kept, todo, handling,
                   delArr, spent>>

\* UserLines.add: Lock, append, Unlock; nothing in between can wait.
AddLine ==
    /\ pc["registrar"] \in {"lock", "waiting"} /\ LockFree(obj["registrar"])
    /\ lines' = [lines EXCEPT ![obj["registrar"]] = Append(@, Registering)]
    /\ pc' = [pc EXCEPT !["registrar"] = "count"]
    /\ ListStep
    /\ UNCHANGED <<chanVars, wlock, rlocks, mapVars, loopVars, handling, delArr, spent>>

\* connCount.Add(1).
CountRegistered ==
    /\ pc["registrar"] = "count"
    /\ connCount' = connCount + 1
    /\ handling' = [handling EXCEPT !["registrar"] = None]
    /\ obj' = [obj EXCEPT !["registrar"] = None]
    /\ pc' = [pc EXCEPT !["registrar"] = "idle"]
    /\ ListStep
    /\ UNCHANGED <<chanVars, listVars, connections, sel, rest, kept, todo, delArr, spent>>
-----------------------------------------------------------------------------
(* The unregistrar: for ln := range unregisteredChan.                      *)

Unregistering == handling["unregistrar"]

\* The next line, and connections.Load(ln.userId); UserLines.Close(ln.id) follows
\* when the user is there.
TakeUnregistered ==
    /\ pc["unregistrar"] = "idle" /\ unregisteredChan # <<>>
    /\ LET l == Head(unregisteredChan)
           o == connections[UserOf[l]]
       IN  /\ handling' = [handling EXCEPT !["unregistrar"] = l]
           /\ obj' = [obj EXCEPT !["unregistrar"] = o]
           /\ sel' = [sel EXCEPT !["unregistrar"] = {k \in Lines : IdOf[k] = IdOf[l]}]
           /\ pc' = [pc EXCEPT !["unregistrar"] = IF o = None THEN "count" ELSE "lock"]
    /\ unregisteredChan' = Tail(unregisteredChan)
    /\ Running
    /\ UNCHANGED <<lineVars, chanVars, listVars, mapVars, messageChan, registeredChan,
                   errorChan, hubClosed, rest, kept, todo, delArr, spent>>

\* connCount.Add(-1).
CountUnregistered ==
    /\ pc["unregistrar"] = "count"
    /\ connCount' = connCount - 1
    /\ pc' = [pc EXCEPT !["unregistrar"] = "close"]
    /\ ListStep
    /\ UNCHANGED <<chanVars, listVars, connections, loopVars, handling, delArr, spent>>

\* close(ln.closeChan).
CloseCloseChan ==
    /\ pc["unregistrar"] = "close" /\ closeChan[Unregistering] = "open"
    /\ closeChan' = [closeChan EXCEPT ![Unregistering] = "closed"]
    /\ pc' = [pc EXCEPT !["unregistrar"] = "closeWrite"]
    /\ ListStep
    /\ UNCHANGED <<writeChan, queued, listVars, mapVars, loopVars, handling, delArr,
                   spent>>

\* close(ln.writeChan); Len follows when the user was there.
CloseWriteChan ==
    /\ pc["unregistrar"] = "closeWrite" /\ writeChan[Unregistering] = "open"
    /\ writeChan' = [writeChan EXCEPT ![Unregistering] = "closed"]
    /\ pc' = [pc EXCEPT !["unregistrar"] =
                  IF obj["unregistrar"] = None THEN "idle" ELSE "len"]
    /\ ListStep
    /\ UNCHANGED <<closeChan, queued, listVars, mapVars, loopVars, handling, delArr,
                   spent>>

\* close of a nil or of a closed channel panics.
ClosePanics ==
    /\ \/ pc["unregistrar"] = "close" /\ closeChan[Unregistering] # "open"
       \/ pc["unregistrar"] = "closeWrite" /\ writeChan[Unregistering] # "open"
    /\ pc' = [pc EXCEPT !["unregistrar"] = "dead"]
    /\ Panics
    /\ UNCHANGED <<lineVars, chanVars, listVars, mapVars, hubChans, loopVars, handling,
                   delArr, spent>>

\* UserLines.Len() == 0, under RLock.
TestEmpty ==
    /\ pc["unregistrar"] = "len" /\ RLockFree(obj["unregistrar"])
    /\ pc' = [pc EXCEPT !["unregistrar"] =
                  IF lines[obj["unregistrar"]] = <<>> THEN "delete" ELSE "idle"]
    /\ ListStep
    /\ UNCHANGED <<chanVars, listVars, mapVars, loopVars, handling, delArr, spent>>

\* connections.Delete(ln.userId).
DeleteUser ==
    /\ pc["unregistrar"] = "delete"
    /\ connections' = [connections EXCEPT ![UserOf[Unregistering]] = None]
    /\ pc' = [pc EXCEPT !["unregistrar"] = "idle"]
    /\ ListStep
    /\ UNCHANGED <<chanVars, listVars, connCount, loopVars, handling, delArr, spent>>
-----------------------------------------------------------------------------
(* Loops over the user map: the reaper, Hub.Close, and the calls of the    *)
(* application.  sync.Map.Range and the loops over userIds load each user  *)
(* when they reach it; a user stored or deleted meanwhile may be met or    *)
(* missed, which any order of the visits covers.                           *)

\* The step of p at a list it has loaded.
VisitStep(p) ==
    CASE pc[p] = "pushing" -> "rlock"
      [] p = "reaper" /\ ~IdleCheck -> "len"
      [] OTHER -> "lock"

\* The next user of the loop.
VisitUser(p) ==
    /\ pc[p] \in {"closing", "pushing"}
    /\ \E u \in todo[p] :
         /\ todo' = [todo EXCEPT ![p] = @ \ {u}]
         /\ IF connections[u] = None
            THEN UNCHANGED <<obj, pc>>
            ELSE /\ obj' = [obj EXCEPT ![p] = connections[u]]
                 /\ pc' = [pc EXCEPT ![p] = VisitStep(p)]
    /\ ListStep
    /\ UNCHANGED <<chanVars, listVars, mapVars, sel, rest, kept, handling, delArr, spent>>

\* What follows the loop.
AfterRange(p) ==
    CASE p = "reaper" -> "delete"
      [] p = "closer" -> "sleep"
      [] OTHER -> "idle"

\* The end of the loop, and of the scope of its variables.
EndRange(p) ==
    /\ pc[p] \in {"closing", "pushing"} /\ todo[p] = {}
    /\ pc' = [pc EXCEPT ![p] = AfterRange(p)]
    /\ obj' = [obj EXCEPT ![p] = None]
    /\ sel' = [sel EXCEPT ![p] = {}]
    /\ ListStep
    /\ UNCHANGED <<chanVars, listVars, mapVars, rest, kept, todo, handling, delArr, spent>>

\* The head of a loop over users.
BeginRange(p, how, users, selected) ==
    /\ pc[p] = "idle"
    /\ pc' = [pc EXCEPT ![p] = how]
    /\ todo' = [todo EXCEPT ![p] = users]
    /\ sel' = [sel EXCEPT ![p] = selected]
    /\ ListStep
    /\ UNCHANGED <<chanVars, listVars, mapVars, obj, rest, kept, handling, delArr>>

\* A tick of liveTicker, which Hub.Close stops; delArr is empty.
Tick ==
    /\ pc["closer"] = "idle" /\ Spend("tick")
    /\ BeginRange("reaper", "closing", Users, {})

\* if conn.Len() == 0 { delArr = append(delArr, key) }.
ReaperLen ==
    /\ pc["reaper"] = "len" /\ RLockFree(obj["reaper"])
    /\ delArr' = IF lines[obj["reaper"]] = <<>>
                 THEN delArr \cup {UserOf[obj["reaper"]]} ELSE delArr
    /\ pc' = [pc EXCEPT !["reaper"] = "closing"]
    /\ ListStep
    /\ UNCHANGED <<chanVars, listVars, mapVars, loopVars, handling, spent>>

\* connections.Delete of the users in delArr, one by one; then the next tick.
ReaperDelete ==
    /\ pc["reaper"] = "delete"
    /\ \/ \E u \in delArr :
            /\ connections' = [connections EXCEPT ![u] = None]
            /\ delArr' = delArr \ {u}
            /\ UNCHANGED pc
       \/ /\ delArr = {}
          /\ pc' = [pc EXCEPT !["reaper"] = "idle"]
          /\ UNCHANGED <<connections, delArr>>
    /\ ListStep
    /\ UNCHANGED <<chanVars, listVars, connCount, loopVars, handling, spent>>

\* Hub.Close: the ticker is stopped, and CloseAll of every user begins.
BeginClose ==
    /\ MayClose /\ UNCHANGED spent
    /\ BeginRange("closer", "closing", Users, Lines)

\* After the sleep messageChan, registeredChan, unregisteredChan and errorChan are
\* closed in this order.
CloseHubChan ==
    /\ pc["closer"] = "sleep" /\ hubClosed < 4
    /\ hubClosed' = hubClosed + 1
    /\ Running
    /\ UNCHANGED <<lineVars, chanVars, listVars, mapVars, messageChan, registeredChan,
                   unregisteredChan, errorChan, procVars, spent>>

\* readBufferPool = nil and connections.Clear().
ClearConnections ==
    /\ pc["closer"] = "sleep" /\ hubClosed = 4
    /\ hubClosed' = 5
    /\ connections' = [u \in Users |-> None]
    /\ pc' = [pc EXCEPT !["closer"] = "done"]
    /\ Running
    /\ UNCHANGED <<lineVars, chanVars, listVars, connCount, messageChan, registeredChan,
                   unregisteredChan, errorChan, loopVars, handling, delArr, spent>>
-----------------------------------------------------------------------------
(* The operations of the application.  A call with an empty argument list  *)
(* returns at once; the others load the users' lists and select lines.     *)

BeginCall(p, how, users, selected) ==
    Spend("call") /\ BeginRange(p, how, users, selected)

ById(ids) == {l \in Lines : IdOf[l] \in ids}
ByPlatform(platforms) == {l \in Lines : PlatformOf[l] \in platforms}
NonEmpty(S) == SUBSET S \ {{}}

\* Hub.CloseUserLines, and UserLines.CloseAll on one user's list.
CloseUserLines(p) ==
    \E us \in NonEmpty(Users) : BeginCall(p, "closing", us, Lines)

\* UserLines.Close(lineId) and UserLines.CloseLines(lineIds...).
CloseLines(p) ==
    \E u \in Users, ids \in NonEmpty(Ids) : BeginCall(p, "closing", {u}, ById(ids))

\* UserLines.CloseLinesExcept(exceptLineIds...).
CloseLinesExcept(p) ==
    \E u \in Users, ids \in NonEmpty(Ids) :
        BeginCall(p, "closing", {u}, Lines \ ById(ids))

\* UserLines.ClosePlatforms(platforms...).
ClosePlatforms(p) ==
    \E u \in Users, ps \in NonEmpty(Platforms) :
        BeginCall(p, "closing", {u}, ByPlatform(ps))

\* UserLines.ClosePlatformsExcept(exceptPlatforms...).
ClosePlatformsExcept(p) ==
    \E u \in Users, ps \in NonEmpty(Platforms) :
        BeginCall(p, "closing", {u}, Lines \ ByPlatform(ps))

\* Hub.PushMessage and Hub.BroadcastMessage (all users), UserLines.PushMessage.
PushMessage(p) ==
    \E us \in NonEmpty(Users) : BeginCall(p, "pushing", us, Lines)

\* UserLines.PushMessageToLines(data, lineIds...).
PushMessageToLines(p) ==
    \E u \in Users, ids \in NonEmpty(Ids) : BeginCall(p, "pushing", {u}, ById(ids))

\* UserLines.PushMessageExceptLines(data, exceptLineIds...).
PushMessageExceptLines(p) ==
    \E u \in Users, ids \in NonEmpty(Ids) :
        BeginCall(p, "pushing", {u}, Lines \ ById(ids))

\* UserLines.PushMessageToPlatforms(data, platforms...).
PushMessageToPlatforms(p) ==
    \E u \in Users, ps \in NonEmpty(Platforms) :
        BeginCall(p, "pushing", {u}, ByPlatform(ps))

\* UserLines.PushMessageExceptPlatforms(data, exceptPlatforms...).
PushMessageExceptPlatforms(p) ==
    \E u \in Users, ps \in NonEmpty(Platforms) :
        BeginCall(p, "pushing", {u}, Lines \ ByPlatform(ps))

\* The application receives from MessageChan() and from ErrorChan().
ReceiveEvent ==
    /\ \/ messageChan > 0 /\ messageChan' = messageChan - 1 /\ UNCHANGED errorChan
       \/ errorChan > 0 /\ errorChan' = errorChan - 1 /\ UNCHANGED messageChan
    /\ Running
    /\ UNCHANGED <<lineVars, chanVars, listVars, mapVars, registeredChan,
                   unregisteredChan, hubClosed, procVars, spent>>

\* The application receives from RegisteredChan() or UnegisteredChan(), the channels
\* of the registrar and the unregistrar, which then miss the line.
ReceiveLine ==
    /\ MayReceive
    /\ \/ /\ registeredChan # <<>> /\ registeredChan' = Tail(registeredChan)
          /\ UNCHANGED unregisteredChan
       \/ /\ unregisteredChan # <<>> /\ unregisteredChan' = Tail(unregisteredChan)
          /\ UNCHANGED registeredChan
    /\ Running
    /\ UNCHANGED <<lineVars, chanVars, listVars, mapVars, messageChan, errorChan,
                   hubClosed, procVars, spent>>
-----------------------------------------------------------------------------
(* The goroutines.                                                         *)

\* What the client, the network and the pool do to line l.
Peer(l) ==
    \/ UpgradeWebSocket(l) \/ SubmitFails(l) \/ ReadFails(l) \/ ReadOtherFrame(l)
    \/ ReadBinary(l)
Starter(l) == SubmitReader(l) \/ SubmitWriter(l) \/ SendRegistered(l)
Reader(l) == SendMessage(l)
Writer(l) ==
    EnterSelect(l) \/ ReceiveClosed(l) \/ ReceiveMessage(l) \/ WriteMessage(l)
Closing(t, l) ==
    SendError(t, l) \/ CloseConn(t, l) \/ SendUnregistered(t, l) \/ TaskPanics(t, l)

Loop(p) ==
    \/ AwaitLock(p) \/ LockLines(p) \/ KeepLine(p) \/ SignalLine(p) \/ UnlockLines(p)
    \/ RLockLines(p) \/ PushLine(p) \/ RUnlockLines(p) \/ SendPanics(p)
    \/ VisitUser(p) \/ EndRange(p)
Registrar ==
    TakeRegistered \/ MakeWriteChan \/ LoadOrStore \/ AddLine \/ CountRegistered
Unregistrar ==
    \/ TakeUnregistered \/ CountUnregistered \/ CloseCloseChan \/ CloseWriteChan
    \/ ClosePanics \/ TestEmpty \/ DeleteUser
Reaper == ReaperLen \/ ReaperDelete
Closer == CloseHubChan \/ ClearConnections

Call(p) ==
    \/ CloseUserLines(p) \/ CloseLines(p) \/ CloseLinesExcept(p)
    \/ ClosePlatforms(p) \/ ClosePlatformsExcept(p)
    \/ PushMessage(p) \/ PushMessageToLines(p) \/ PushMessageExceptLines(p)
    \/ PushMessageToPlatforms(p) \/ PushMessageExceptPlatforms(p)

Next ==
    \/ \E l \in Lines : Peer(l) \/ Starter(l) \/ Reader(l) \/ Writer(l)
    \/ \E t \in Tasks, l \in Lines : Closing(t, l)
    \/ \E p \in Procs : Loop(p)
    \/ \E p \in Callers : Call(p)
    \/ Registrar \/ Unregistrar \/ Tick \/ Reaper \/ BeginClose \/ Closer
    \/ ReceiveEvent \/ ReceiveLine

Spec == Init /\ [][Next]_vars

\* Every goroutine runs on when it can, a read on a closed connection returns, and
\* the application keeps receiving from MessageChan() and ErrorChan().
Fairness ==
    /\ \A l \in Lines :
         /\ WF_vars(Starter(l)) /\ WF_vars(Reader(l)) /\ WF_vars(Writer(l))
         /\ WF_vars(conn[l] = "closed" /\ ReadFails(l))
         /\ \A t \in Tasks : WF_vars(Closing(t, l))
    /\ \A p \in Procs : WF_vars(Loop(p))
    /\ WF_vars(Registrar) /\ WF_vars(Unregistrar) /\ WF_vars(Reaper) /\ WF_vars(Closer)
    /\ WF_vars(ReceiveEvent)

FairSpec == Spec /\ Fairness
=============================================================================
