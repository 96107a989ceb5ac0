-------------------------- MODULE CoordinatorProofs --------------------------
(***************************************************************************)
(* The processes of the server, for any number of dispatchers and any      *)
(* number of SIGINTs: which children a master can leave behind, and what   *)
(* the log line of a handler says about the save file, when one thread of  *)
(* the master runs it or both do.                                          *)
(***************************************************************************)
EXTENDS Coordinator, TLAPS

ChildPlace == {"none", "fresh", "serving", "handling", "saving", "cut", "dying", "dead"}

Place == {"main", "fork", "record", "announce", "started", "wait", "cleanup",
          "release", "leave", "none", "starting", "ticking", "finished"}
         \cup Handling \cup Ended

\* Places of the main thread before there is a monitor thread.
Alone == {"main", "fork", "record", "announce", "failed", "killed"}

\* Places after the wait loop.
Leaving == {"cleanup", "release", "leave", "stopped"}

\* Places of a handler whose wait() has collected every child.
Reaped == {"open", "write", "unmap", "forget", "shutdown"}

\* Places of a handler that has opened the save file or failed to.
Opened == {"write", "unmap", "forget", "shutdown", "faulted"}

\* How far the fork loop is, by where the main thread is.
LoopInv ==
    /\ at["main"] \in {"main", "killed"} => forked = 0
    /\ at["main"] = "fork" => forked < WORKER_COUNT
    /\ at["main"] = "record" => forked = recorded + 1
    /\ at["main"] \notin {"none", "starting", "ticking", "finished"}

\* Before the handler, g_running is false only by server_app's own early one; so a
\* master that leaves the wait loop has no children or was told to stop before it.
StopInv ==
    /\ ~g_running => program = "server_app" \/ at["main"] \in Handling \cup {"shutdown", "faulted"}
    /\ at["main"] \in Handling \cup {"shutdown", "faulted"} => ~g_running
    /\ at["main"] \in Leaving /\ Alive # {} => program = "server_app" /\ ~g_running

\* The monitor thread: it is in its loop only if g_running was true after the fork
\* loop, and in the handler only while the main thread is in it too.
MonitorInv ==
    /\ at["monitor"] \in {"none", "starting", "ticking", "finished", "shutdown", "faulted"} \cup Handling
    /\ at["main"] \in Alone => at["monitor"] = "none"
    /\ at["monitor"] \in {"ticking", "faulted"} /\ at["main"] \notin Handling \cup {"shutdown", "faulted"}
          => g_running
    /\ at["monitor"] \in Handling \cup {"shutdown"} => at["main"] \in Handling \cup {"shutdown", "faulted"}

\* A handler past its wait() has no children left, and nobody ends by a fault with
\* children left.
ReapInv ==
    /\ \A t \in Thread : at[t] \in Reaped => Alive = {}
    /\ at["main"] = "faulted" => Alive = {}
    /\ at["monitor"] = "faulted" => Alive = {}
    /\ at["monitor"] = "ticking" /\ segment # "mapped" => Alive = {}
    /\ segment # "mapped" => at["main"] \in {"leave", "stopped", "shutdown", "faulted"} \cup Handling

\* The save file is written by handlers only after it was opened by one, and the
\* last to open it is the last to write a whole one.
FileInv ==
    /\ \A t \in Thread : opener = t => Alive = {} /\ at[t] \in Opened
    /\ \A t \in Thread : said[t] # "nothing" => at[t] \in Opened \ {"write"}
    /\ opener # "none" => at["main"] \in Handling \cup {"shutdown", "faulted"}
    /\ \A t \in Thread : opener = t /\ said[t] = "saved" => server_dat = "whole"

IInv == TypeOK /\ LoopInv /\ StopInv /\ MonitorInv /\ ReapInv /\ FileInv

LEMMA InitInv == Init => IInv
<1> SUFFICES ASSUME Init PROVE IInv
  OBVIOUS
<1>1. at["main"] = "main" /\ at["monitor"] = "none" /\ \A t \in Thread : said[t] = "nothing"
  BY DEF Init, Thread
<1>2. TypeOK
  BY CoordinatorAssumption DEF Init, TypeOK, Slot, Thread
<1>3. LoopInv /\ StopInv /\ MonitorInv
  BY <1>1 DEF Init, LoopInv, StopInv, MonitorInv, Handling, Alone, Leaving
<1>4. ReapInv /\ FileInv
  BY <1>1 DEF Init, ReapInv, FileInv, Thread, Reaped, Opened, Handling
<1> QED
  BY <1>2, <1>3, <1>4 DEF IInv

-----------------------------------------------------------------------------
\* A signal neither makes a process nor revives one.
LEMMA SignalKeeps ==
    ASSUME NEW s \in ChildPlace
    PROVE  /\ Sigterm(s) \in ChildPlace /\ Sigint(s) \in ChildPlace
           /\ Sigterm(s) = "none" <=> s = "none"
           /\ Sigint(s) = "none" <=> s = "none"
           /\ s = "dead" => Sigterm(s) = "dead" /\ Sigint(s) = "dead"
  BY DEF Sigterm, Sigint, ChildPlace

\* What a step may do to the children once they are forked.
ChildrenFade ==
    /\ forked' = forked
    /\ child' \in [Slot -> ChildPlace]
    /\ \A w \in Slot : child'[w] = "none" <=> child[w] = "none"
    /\ \A w \in Slot : child[w] = "dead" => child'[w] = "dead"

\* Then a child alive after the step was alive before it.
LEMMA NoneReborn ==
    ASSUME TypeOK, ChildrenFade
    PROVE  Alive' \subseteq Alive
<1>1. \A w \in 1..forked : w \in Slot
  BY CoordinatorAssumption DEF TypeOK, Slot
<1> QED
  BY <1>1 DEF ChildrenFade, Alive

\* A step that leaves the children alone.
LEMMA NobodyFades ==
    ASSUME TypeOK, UNCHANGED family
    PROVE  ChildrenFade /\ Alive' = Alive /\ recorded' = recorded
  BY DEF TypeOK, ChildrenFade, ChildPlace, Alive, family

\* A thread that goes from one place to another leaves the other where it is.
LEMMA GoMoves ==
    ASSUME TypeOK, NEW t \in Thread, NEW from, NEW to, Go(t, from, to)
    PROVE  /\ at[t] = from /\ at'[t] = to
           /\ \A u \in Thread : u # t => at'[u] = at[u]
           /\ to \in Place => at' \in [Thread -> Place]
           /\ \A u \in Thread : at[u] \notin Ended
  BY DEF Go, Over, TypeOK, Place

\* What of the type invariant a step has to show that is not a child's.
Typed ==
    /\ program \in {"server_app", "insecure_server"}
    /\ at \in [Thread -> Place]
    /\ g_running \in BOOLEAN
    /\ recorded # forked => at["main"] \in {"record"} \cup Handling \cup Ended
    /\ segment \in {"mapped", "stale", "null"}
    /\ server_dat \in {"none", "whole", "torn"}
    /\ opener \in Thread \cup {"none"}
    /\ said \in [Thread -> {"nothing", "saved", "failed"}]
    /\ signals \in 0..MaxSignals

LEMMA FadeTyped ==
    ASSUME TypeOK, ChildrenFade, recorded' = recorded, Typed'
    PROVE  TypeOK'
  BY DEF TypeOK, ChildrenFade, Typed, Place, ChildPlace

LEMMA TypedNow == TypeOK => Typed
  BY DEF TypeOK, Typed, Place


-----------------------------------------------------------------------------
(***************************************************************************)
(* Steps outside the handler: where the threads go, and that no invariant  *)
(* minds.                                                                  *)
(***************************************************************************)
\* A step of the main thread before its handler.
LEMMA MainStepInv ==
    ASSUME IInv, MainStep
    PROVE  IInv'
<1> USE DEF IInv
<1>0. "main" \in Thread /\ "monitor" \in Thread /\ \A t \in Thread : t \in {"main", "monitor"}
  BY DEF Thread
<1>1. CASE StartCoordinator
  <2>1. /\ at["main"] = "main" /\ at'["main"] = "fork" /\ at'["monitor"] = at["monitor"]
        /\ at' \in [Thread -> Place] /\ at["monitor"] \notin Ended
    <3>1. "fork" \in Place /\ Go("main", "main", "fork")
      BY <1>1 DEF StartCoordinator, Place, Ended
    <3> QED
      BY <1>0, <3>1, GoMoves
  <2>2. ChildrenFade /\ Alive' = Alive /\ recorded' = recorded
    BY <1>1, NobodyFades DEF StartCoordinator
  <2>3. Typed'
    BY <1>1, <2>1, <2>2, TypedNow DEF StartCoordinator, Typed, ChildrenFade, file, Handling, Ended
  <2>4. TypeOK'
    BY <2>2, <2>3, FadeTyped
  <2>5. LoopInv' /\ StopInv' /\ MonitorInv'
    BY <1>1, <2>1, <2>2, CoordinatorAssumption DEF StartCoordinator, LoopInv, StopInv, MonitorInv, ChildrenFade, Handling, Alone, Leaving, Ended
  <2>6. ReapInv' /\ FileInv'
    BY <1>1, <1>0, <2>1, <2>2 DEF StartCoordinator, ReapInv, FileInv, StopInv, MonitorInv, file, Reaped, Opened, Handling, Leaving, Ended
  <2> QED
    BY <2>4, <2>5, <2>6
<1>2. CASE Record
  <2>1. /\ at["main"] = "record" /\ at'["main"] \in {"announce", "fork"} /\ at'["monitor"] = at["monitor"]
        /\ at' \in [Thread -> Place] /\ at["monitor"] \notin Ended
    <3>1. /\ "announce" \in Place /\ "fork" \in Place
          /\ \E p \in {"announce", "fork"} : Go("main", "record", p)
      BY <1>2 DEF Record, Place
    <3> QED
      BY <1>0, <3>1, GoMoves
  <2>2. ChildrenFade /\ Alive' = Alive /\ recorded' = forked' /\ forked' \in 0..WORKER_COUNT
    BY <1>2 DEF Record, TypeOK, ChildrenFade, ChildPlace, Alive
  <2>3. TypeOK'
    BY <1>2, <2>1, <2>2, CoordinatorAssumption DEF Record, TypeOK, ChildrenFade, Place, ChildPlace, file
  <2>5. LoopInv' /\ StopInv' /\ MonitorInv'
    BY <1>2, <2>1, <2>2, CoordinatorAssumption DEF Record, LoopInv, StopInv, MonitorInv, TypeOK, Handling, Alone, Leaving, Ended, Go
  <2>6. ReapInv' /\ FileInv'
    BY <1>2, <1>0, <2>1, <2>2 DEF Record, ReapInv, FileInv, MonitorInv, Alone, file, Reaped, Opened, Handling, Ended
  <2> QED
    BY <2>3, <2>5, <2>6
<1>3. CASE Started
  <2>1. /\ at["main"] = "started" /\ at'["main"] = "wait" /\ at'["monitor"] = at["monitor"]
        /\ at' \in [Thread -> Place] /\ at["monitor"] \notin Ended
    <3>1. "wait" \in Place /\ Go("main", "started", "wait")
      BY <1>3 DEF Started, Place, Ended
    <3> QED
      BY <1>0, <3>1, GoMoves
  <2>2. ChildrenFade /\ Alive' = Alive /\ recorded' = recorded
    BY <1>3, NobodyFades DEF Started
  <2>3. Typed'
    BY <1>3, <2>1, <2>2, TypedNow DEF Started, Typed, ChildrenFade, file, Handling, Ended
  <2>4. TypeOK'
    BY <2>2, <2>3, FadeTyped
  <2>5. LoopInv' /\ StopInv' /\ MonitorInv'
    BY <1>3, <2>1, <2>2 DEF Started, LoopInv, StopInv, MonitorInv, ChildrenFade, Handling, Alone, Leaving, Ended
  <2>6. ReapInv' /\ FileInv'
    BY <1>3, <1>0, <2>1, <2>2 DEF Started, ReapInv, FileInv, StopInv, MonitorInv, file, Reaped, Opened, Handling, Leaving, Ended
  <2> QED
    BY <2>4, <2>5, <2>6
<1>4. CASE LeaveLoop
  <2>1. /\ at["main"] = "wait" /\ at'["main"] = "cleanup" /\ at'["monitor"] = at["monitor"]
        /\ at' \in [Thread -> Place] /\ at["monitor"] \notin Ended
    <3>1. "cleanup" \in Place /\ Go("main", "wait", "cleanup")
      BY <1>4 DEF LeaveLoop, Place, Ended
    <3> QED
      BY <1>0, <3>1, GoMoves
  <2>2. ChildrenFade /\ Alive' = Alive /\ recorded' = recorded
    BY <1>4, NobodyFades DEF LeaveLoop
  <2>3. Typed'
    BY <1>4, <2>1, <2>2, TypedNow DEF LeaveLoop, Typed, ChildrenFade, file, Handling, Ended
  <2>4. TypeOK'
    BY <2>2, <2>3, FadeTyped
  <2>5. LoopInv' /\ StopInv' /\ MonitorInv'
    BY <1>4, <2>1, <2>2 DEF LeaveLoop, LoopInv, StopInv, MonitorInv, ChildrenFade, Handling, Alone, Leaving, Ended
  <2>6. ReapInv' /\ FileInv'
    BY <1>4, <1>0, <2>1, <2>2 DEF LeaveLoop, ReapInv, FileInv, StopInv, MonitorInv, file, Reaped, Opened, Handling, Leaving, Ended
  <2> QED
    BY <2>4, <2>5, <2>6
<1>5. CASE Cleanup
  <2>1. /\ at["main"] = "cleanup" /\ at'["main"] = "release" /\ at'["monitor"] = at["monitor"]
        /\ at' \in [Thread -> Place] /\ at["monitor"] \notin Ended
    <3>1. "release" \in Place /\ Go("main", "cleanup", "release")
      BY <1>5 DEF Cleanup, Place, Ended
    <3> QED
      BY <1>0, <3>1, GoMoves
  <2>2. ChildrenFade /\ Alive' = Alive /\ recorded' = recorded
    BY <1>5, NobodyFades DEF Cleanup
  <2>3. Typed'
    BY <1>5, <2>1, <2>2, TypedNow DEF Cleanup, Typed, ChildrenFade, file, Handling, Ended
  <2>4. TypeOK'
    BY <2>2, <2>3, FadeTyped
  <2>5. LoopInv' /\ StopInv' /\ MonitorInv'
    BY <1>5, <2>1, <2>2 DEF Cleanup, LoopInv, StopInv, MonitorInv, ChildrenFade, Handling, Alone, Leaving, Ended
  <2>6. ReapInv' /\ FileInv'
    BY <1>5, <1>0, <2>1, <2>2 DEF Cleanup, ReapInv, FileInv, StopInv, MonitorInv, file, Reaped, Opened, Handling, Leaving, Ended
  <2> QED
    BY <2>4, <2>5, <2>6
<1>6. CASE Release
  <2>1. /\ at["main"] = "release" /\ at'["main"] = "leave" /\ at'["monitor"] = at["monitor"]
        /\ at' \in [Thread -> Place] /\ at["monitor"] \notin Ended
    <3>1. "leave" \in Place /\ Go("main", "release", "leave")
      BY <1>6 DEF Release, Place, Ended
    <3> QED
      BY <1>0, <3>1, GoMoves
  <2>2. ChildrenFade /\ Alive' = Alive /\ recorded' = recorded
    BY <1>6, NobodyFades DEF Release
  <2>3. Typed'
    BY <1>6, <2>1, <2>2, TypedNow DEF Release, Typed, ChildrenFade, file, Handling, Ended
  <2>4. TypeOK'
    BY <2>2, <2>3, FadeTyped
  <2>5. LoopInv' /\ StopInv' /\ MonitorInv'
    BY <1>6, <2>1, <2>2 DEF Release, LoopInv, StopInv, MonitorInv, ChildrenFade, Handling, Alone, Leaving, Ended
  <2>6. ReapInv' /\ FileInv'
    BY <1>6, <1>0, <2>1, <2>2 DEF Release, ReapInv, FileInv, StopInv, MonitorInv, file, Reaped, Opened, Handling, Leaving, Ended
  <2> QED
    BY <2>4, <2>5, <2>6
<1>7. CASE Forget
  <2>1. /\ at["main"] = "leave" /\ at'["main"] = "leave" /\ at'["monitor"] = at["monitor"]
        /\ at' \in [Thread -> Place] /\ at["monitor"] \notin Ended
    <3>1. "leave" \in Place /\ Go("main", "leave", "leave")
      BY <1>7 DEF Forget, Place, Ended
    <3> QED
      BY <1>0, <3>1, GoMoves
  <2>2. ChildrenFade /\ Alive' = Alive /\ recorded' = recorded
    BY <1>7, NobodyFades DEF Forget
  <2>3. Typed'
    BY <1>7, <2>1, <2>2, TypedNow DEF Forget, Typed, ChildrenFade, file, Handling, Ended
  <2>4. TypeOK'
    BY <2>2, <2>3, FadeTyped
  <2>5. LoopInv' /\ StopInv' /\ MonitorInv'
    BY <1>7, <2>1, <2>2 DEF Forget, LoopInv, StopInv, MonitorInv, ChildrenFade, Handling, Alone, Leaving, Ended
  <2>6. ReapInv' /\ FileInv'
    BY <1>7, <1>0, <2>1, <2>2 DEF Forget, ReapInv, FileInv, StopInv, MonitorInv, file, Reaped, Opened, Handling, Leaving, Ended
  <2> QED
    BY <2>4, <2>5, <2>6
<1>8. CASE EndMain
  <2>1. /\ at["main"] = "leave" /\ at'["main"] = "stopped" /\ at'["monitor"] = at["monitor"]
        /\ at' \in [Thread -> Place] /\ at["monitor"] \notin Ended
    <3>1. "stopped" \in Place /\ Go("main", "leave", "stopped")
      BY <1>8 DEF EndMain, Place, Ended
    <3> QED
      BY <1>0, <3>1, GoMoves
  <2>2. ChildrenFade /\ Alive' = Alive /\ recorded' = recorded
    BY <1>8, NobodyFades DEF EndMain
  <2>3. Typed'
    BY <1>8, <2>1, <2>2, TypedNow DEF EndMain, Typed, ChildrenFade, file, Handling, Ended
  <2>4. TypeOK'
    BY <2>2, <2>3, FadeTyped
  <2>5. LoopInv' /\ StopInv' /\ MonitorInv'
    BY <1>8, <2>1, <2>2 DEF EndMain, LoopInv, StopInv, MonitorInv, ChildrenFade, Handling, Alone, Leaving, Ended
  <2>6. ReapInv' /\ FileInv'
    BY <1>8, <1>0, <2>1, <2>2 DEF EndMain, ReapInv, FileInv, StopInv, MonitorInv, file, Reaped, Opened, Handling, Leaving, Ended
  <2> QED
    BY <2>4, <2>5, <2>6
<1>9. CASE Fork
  <2>1. CASE Go("main", "fork", "failed") /\ UNCHANGED <<forked, child>>
    <3>1. /\ at["main"] = "fork" /\ at'["main"] = "failed" /\ at'["monitor"] = at["monitor"]
          /\ at' \in [Thread -> Place]
      BY <1>0, <2>1, GoMoves DEF Place, Ended
    <3>2. ChildrenFade /\ Alive' = Alive /\ recorded' = recorded
      BY <1>9, <2>1, NobodyFades DEF Fork, family
    <3>3. Typed'
      BY <1>9, <3>1, <3>2, TypedNow DEF Fork, Typed, file, Ended
    <3>4. TypeOK'
      BY <3>2, <3>3, FadeTyped
    <3>5. LoopInv' /\ StopInv' /\ MonitorInv'
      BY <1>9, <3>1, <3>2 DEF Fork, LoopInv, StopInv, MonitorInv, Handling, Alone, Leaving
    <3>6. ReapInv' /\ FileInv'
      BY <1>9, <1>0, <3>1, <3>2 DEF Fork, ReapInv, FileInv, MonitorInv, Alone, file, Reaped, Opened, Handling
    <3> QED
      BY <3>4, <3>5, <3>6
  <2>2. CASE /\ Go("main", "fork", "record") /\ forked' = forked + 1
             /\ child' = [child EXCEPT ![forked + 1] = "fresh"]
    <3>1. /\ at["main"] = "fork" /\ at'["main"] = "record" /\ at'["monitor"] = at["monitor"]
          /\ at' \in [Thread -> Place]
      BY <1>0, <2>2, GoMoves DEF Place
    <3>2. forked + 1 \in Slot /\ recorded = forked /\ forked \in Nat
      BY <3>1, CoordinatorAssumption DEF TypeOK, LoopInv, Slot, Handling, Ended
    <3>3. at["monitor"] = "none" /\ segment = "mapped" /\ opener = "none"
      BY <3>1 DEF MonitorInv, ReapInv, FileInv, Alone, TypeOK, Handling
    <3>4. TypeOK'
      <4>1. child' \in [Slot -> ChildPlace] /\ \A w \in Slot : child'[w] = "none" <=> w > forked + 1
        BY <2>2, <3>2 DEF TypeOK, Slot, ChildPlace
      <4> QED
        BY <1>9, <2>2, <3>1, <3>2, <4>1, CoordinatorAssumption DEF Fork, TypeOK, Place, ChildPlace, Slot, file
    <3>5. LoopInv' /\ StopInv' /\ MonitorInv'
      BY <1>9, <2>2, <3>1, <3>2, <3>3 DEF Fork, LoopInv, StopInv, MonitorInv, Handling, Alone, Leaving
    <3>6. ReapInv' /\ FileInv'
      BY <1>9, <1>0, <3>1, <3>3 DEF Fork, ReapInv, FileInv, file, Reaped, Opened, Handling
    <3> QED
      BY <3>4, <3>5, <3>6
  <2> QED
    BY <1>9, <2>1, <2>2 DEF Fork
<1>10. CASE StartMonitor
  <2>1. /\ at["main"] = "announce" /\ at'["main"] \in {"started", "wait"}
        /\ at["monitor"] = "none" /\ at'["monitor"] \in {"none", "starting"}
        /\ at' \in [Thread -> Place]
    BY <1>10, <1>0 DEF StartMonitor, TypeOK, Place, MonitorInv, Alone
  <2>2. ChildrenFade /\ Alive' = Alive /\ recorded' = recorded
    BY <1>10, NobodyFades DEF StartMonitor
  <2>3. Typed'
    BY <1>10, <2>1, <2>2, TypedNow DEF StartMonitor, Typed, ChildrenFade, file, Handling, Ended
  <2>4. TypeOK'
    BY <2>2, <2>3, FadeTyped
  <2>5. LoopInv' /\ StopInv' /\ MonitorInv'
    BY <1>10, <2>1, <2>2 DEF StartMonitor, LoopInv, StopInv, MonitorInv, Handling, Alone, Leaving
  <2>6. ReapInv' /\ FileInv'
    BY <1>10, <1>0, <2>1, <2>2 DEF StartMonitor, ReapInv, FileInv, file, Reaped, Opened, Handling
  <2> QED
    BY <2>4, <2>5, <2>6
<1> QED
  BY <1>1, <1>2, <1>3, <1>4, <1>5, <1>6, <1>7, <1>8, <1>9, <1>10 DEF MainStep

\* A step of the monitor thread outside the handler.
LEMMA MonitorStepInv ==
    ASSUME IInv, MonitorStep
    PROVE  IInv'
<1> USE DEF IInv
<1>0. "main" \in Thread /\ "monitor" \in Thread /\ \A t \in Thread : t \in {"main", "monitor"}
  BY DEF Thread
<1>1. /\ at'["main"] = at["main"] /\ at' \in [Thread -> Place]
      /\ at["main"] \notin Ended
      /\ \/ at["monitor"] = "starting" /\ at'["monitor"] = "ticking" /\ g_running
         \/ at["monitor"] \in {"starting", "ticking"} /\ at'["monitor"] = "finished"
         \/ at["monitor"] = "ticking" /\ at'["monitor"] = "faulted" /\ segment # "mapped"
  <2>1. CASE Go("monitor", "starting", "ticking") /\ g_running
    BY <1>0, <2>1, GoMoves DEF Place
  <2>2. CASE \E p \in {"starting", "ticking"} : Go("monitor", p, "finished") /\ ~g_running
    <3>1. PICK p \in {"starting", "ticking"} : Go("monitor", p, "finished")
      BY <2>2
    <3> QED
      BY <1>0, <3>1, GoMoves DEF Place
  <2>3. CASE Go("monitor", "ticking", "faulted") /\ segment # "mapped"
    BY <1>0, <2>3, GoMoves DEF Place, Ended
  <2> QED
    BY <2>1, <2>2, <2>3 DEF MonitorStep
<1>2. ChildrenFade /\ Alive' = Alive /\ recorded' = recorded
  BY NobodyFades DEF MonitorStep
<1>3. Typed'
  BY <1>1, <1>2, TypedNow DEF MonitorStep, Typed, ChildrenFade, file
<1>4. TypeOK'
  BY <1>2, <1>3, FadeTyped
<1>5. LoopInv' /\ StopInv' /\ MonitorInv'
  BY <1>1, <1>2 DEF MonitorStep, LoopInv, StopInv, MonitorInv, Handling, Alone, Leaving
<1>6. ReapInv' /\ FileInv'
  <2>1. at["monitor"] = "starting" /\ g_running /\ segment # "mapped" => Alive = {}
    BY <1>1 DEF ReapInv, StopInv, Leaving, Ended
  <2> QED
    BY <1>0, <1>1, <1>2, <2>1 DEF MonitorStep, ReapInv, FileInv, file, Reaped, Opened, Handling
<1> QED
  BY <1>4, <1>5, <1>6

\* SIGINT, whoever gets it: the main thread, or the monitor thread while the main
\* thread is in the handler, or neither.
LEMMA InterruptInv ==
    ASSUME IInv, NEW group \in BOOLEAN, Interrupt(group)
    PROVE  IInv'
<1> USE DEF IInv
<1>0. "main" \in Thread /\ "monitor" \in Thread /\ \A t \in Thread : t \in {"main", "monitor"}
  BY DEF Thread
<1>1. ChildrenFade
  BY SignalKeeps DEF Interrupt, TypeOK, ChildrenFade, ChildPlace
<1>2. Alive' \subseteq Alive
  BY <1>1, NoneReborn
<1>3. /\ at' \in [Thread -> Place] /\ g_running' \in BOOLEAN
      /\ at["main"] \notin Ended /\ at["monitor"] \notin Ended
      /\ \/ /\ at["main"] = "main" /\ at'["main"] = "main" /\ program = "server_app"
            /\ ~g_running' /\ at'["monitor"] = at["monitor"]
         \/ /\ at["main"] = "main" /\ at'["main"] = "killed" /\ g_running' = g_running
            /\ at'["monitor"] = at["monitor"]
         \/ /\ at["main"] \notin Handling \cup {"main"} /\ at'["main"] \in {"handler", "deadlocked"}
            /\ ~g_running' /\ at'["monitor"] = at["monitor"]
         \/ /\ at["main"] \in Handling /\ at'["main"] = at["main"] /\ ~g_running'
            /\ at["monitor"] \in {"starting", "ticking"}
            /\ at'["monitor"] \in {"handler", "deadlocked"}
         \/ at' = at /\ g_running' = g_running
  <2>1. at["main"] \notin Ended /\ at["monitor"] \notin Ended
    BY <1>0 DEF Interrupt, Over
  <2>2. CASE at["main"] \notin Handling
    <3>1. PICK p \in InterruptMain(at["main"]) :
             at' = [at EXCEPT !["main"] = p] /\ g_running' = (g_running /\ p = "killed")
      BY <2>2 DEF Interrupt, InterruptMaster
    <3>2. \/ at["main"] = "main" /\ p = "main" /\ program = "server_app"
          \/ at["main"] = "main" /\ p = "killed"
          \/ at["main"] # "main" /\ p \in {"handler", "deadlocked"}
      BY <3>1 DEF InterruptMain, TypeOK
    <3>3. p \in Place
      BY <3>2 DEF Place, Handling, Ended
    <3>4. g_running \in BOOLEAN /\ at \in [Thread -> Place]
      BY DEF TypeOK, Place
    <3>5. /\ at' \in [Thread -> Place] /\ at'["main"] = p /\ at'["monitor"] = at["monitor"]
      BY <1>0, <3>1, <3>3, <3>4
    <3>6. g_running' \in BOOLEAN /\ (p = "killed" => g_running' = g_running) /\ (p # "killed" => ~g_running')
      BY <3>1, <3>4
    <3> QED
      BY <2>1, <2>2, <3>2, <3>5, <3>6
  <2>3. CASE at["main"] \in Handling /\ at["monitor"] \in {"starting", "ticking"}
    <3>1. /\ at' = [at EXCEPT !["monitor"] = IF at["main"] = "deadlocked" THEN "deadlocked" ELSE "handler"]
          /\ g_running' = FALSE
      BY <2>3 DEF Interrupt, InterruptMaster
    <3> QED
      BY <1>0, <2>1, <2>3, <3>1 DEF TypeOK, Place, Handling
  <2>4. CASE at["main"] \in Handling /\ at["monitor"] \notin {"starting", "ticking"}
    <3>1. UNCHANGED <<at, g_running>>
      BY <2>4 DEF Interrupt, InterruptMaster
    <3> QED
      BY <2>1, <3>1 DEF TypeOK, Place
  <2> QED
    BY <2>2, <2>3, <2>4
<1>4. /\ recorded' = recorded /\ forked' = forked /\ program' = program
      /\ segment' = segment /\ UNCHANGED <<server_dat, opener, said>>
      /\ signals' = signals + 1 /\ signals < MaxSignals
  BY DEF Interrupt, file
<1>5. Typed'
  <2>1. signals' \in 0..MaxSignals
    BY <1>4, CoordinatorAssumption DEF TypeOK
  <2>2. recorded' # forked' => at'["main"] \in {"record"} \cup Handling \cup Ended
    BY <1>3, <1>4 DEF TypeOK, Handling, Ended
  <2> QED
    BY <1>3, <1>4, <2>1, <2>2, TypedNow DEF Typed
<1>6. TypeOK'
  BY <1>1, <1>4, <1>5, FadeTyped
<1>7. LoopInv'
  BY <1>3, <1>4 DEF LoopInv, Handling
<1>8. StopInv' /\ MonitorInv'
  BY <1>2, <1>3, <1>4 DEF StopInv, MonitorInv, Handling, Alone, Leaving, Ended
<1>9. ReapInv'
  BY <1>0, <1>2, <1>3, <1>4 DEF ReapInv, Reaped, Handling, Ended
<1>10. FileInv'
  BY <1>0, <1>2, <1>3, <1>4 DEF FileInv, Opened, Handling, Ended
<1> QED
  BY <1>6, <1>7, <1>8, <1>9, <1>10

-----------------------------------------------------------------------------
(***************************************************************************)
(* handle_sigint, in either thread.                                        *)
(***************************************************************************)

\* A thread in the handler stays in it or ends the process by it; the main thread
\* is in the handler whenever the monitor thread is.
InHandler(t, from, to) ==
    /\ from \in Handling /\ to \in Handling \cup {"shutdown", "faulted"}
    /\ at[t] = from /\ at'[t] = to
    /\ \A u \in Thread : u # t => at'[u] = at[u]
    /\ at' \in [Thread -> Place]
    /\ \A u \in Thread : at[u] \notin Ended

LEMMA HandlerMoves ==
    ASSUME TypeOK, NEW t \in Thread, NEW from \in Handling,
           NEW to \in Handling \cup {"shutdown", "faulted"}, Go(t, from, to)
    PROVE  InHandler(t, from, to)
<1>1. to \in Place
  BY DEF Place, Ended
<1> QED
  BY <1>1, GoMoves DEF InHandler

\* What such a move leaves of the invariants that are about places alone.
LEMMA HandlerPlaces ==
    ASSUME IInv, NEW t \in Thread, NEW from, NEW to, InHandler(t, from, to),
           forked' = forked, recorded' = recorded, program' = program, g_running' = g_running,
           Alive' \subseteq Alive
    PROVE  /\ LoopInv' /\ StopInv' /\ MonitorInv'
           /\ recorded' # forked' => at'["main"] \in {"record"} \cup Handling \cup Ended
           /\ at["main"] \in Handling /\ at'["main"] \in Handling \cup {"shutdown", "faulted"}
           /\ at["monitor"] \notin {"shutdown", "faulted"}
           /\ at["main"] \notin {"shutdown", "faulted"}
<1> USE DEF IInv
<1>0. "main" \in Thread /\ "monitor" \in Thread /\ t \in {"main", "monitor"}
  BY DEF Thread
<1>1. /\ at["main"] \in Handling /\ at'["main"] \in Handling \cup {"shutdown", "faulted"}
      /\ at["monitor"] \notin Ended /\ at["main"] \notin Ended
      /\ \/ at'["monitor"] = at["monitor"]
         \/ at["monitor"] \in Handling /\ at'["monitor"] \in Handling \cup {"shutdown", "faulted"}
  BY <1>0 DEF InHandler, MonitorInv, Ended
<1>2. LoopInv'
  BY <1>1 DEF LoopInv, Handling
<1>3. StopInv'
  BY <1>1 DEF StopInv, Leaving, Handling
<1>4. MonitorInv'
  BY <1>1 DEF MonitorInv, Alone, Handling, Ended
<1> QED
  BY <1>1, <1>2, <1>3, <1>4 DEF Ended

\* The first half: signals to the children, and their end.
LEMMA KillWorkersInv ==
    ASSUME IInv, NEW t \in Thread, KillWorkers(t) \/ Reap(t)
    PROVE  IInv'
<1> USE DEF IInv
<1>1. CASE KillWorkers(t)
  <2>1. ChildrenFade /\ recorded' = recorded
    BY <1>1, SignalKeeps DEF KillWorkers, TypeOK, ChildrenFade, ChildPlace
  <2>2. Alive' \subseteq Alive
    BY <2>1, NoneReborn
  <2>3. InHandler(t, "handler", "reap")
    BY <1>1, HandlerMoves DEF KillWorkers, Handling
  <2>4. UNCHANGED <<program, g_running, segment, server_dat, opener, said, signals>> /\ forked' = forked
    BY <1>1 DEF KillWorkers, file
  <2>5. /\ LoopInv' /\ StopInv' /\ MonitorInv'
        /\ recorded' # forked' => at'["main"] \in {"record"} \cup Handling \cup Ended
        /\ at'["main"] \in Handling \cup {"shutdown", "faulted"}
    BY <2>1, <2>2, <2>3, <2>4, HandlerPlaces
  <2>6. TypeOK'
    BY <2>1, <2>3, <2>4, <2>5, TypedNow, FadeTyped DEF Typed, InHandler
  <2>7. ReapInv'
    BY <2>2, <2>3, <2>4, <2>5 DEF ReapInv, InHandler, Reaped, Ended, Thread
  <2>8. FileInv'
    BY <2>2, <2>3, <2>4, <2>5 DEF FileInv, InHandler, Opened
  <2> QED
    BY <2>5, <2>6, <2>7, <2>8
<1>2. CASE Reap(t)
  <2>1. ChildrenFade /\ Alive' = Alive /\ recorded' = recorded /\ Alive = {}
    BY <1>2, NobodyFades DEF Reap
  <2>2. PICK p \in {"open", "unmap"} : Go(t, "reap", p) /\ (p = "unmap" => segment = "null")
    BY <1>2 DEF Reap
  <2>3. InHandler(t, "reap", p)
    BY <2>2, HandlerMoves DEF Handling
  <2>4. UNCHANGED <<program, g_running, segment, server_dat, opener, said, signals>> /\ forked' = forked
    BY <1>2, <2>1 DEF Reap, file, ChildrenFade
  <2>5. /\ LoopInv' /\ StopInv' /\ MonitorInv'
        /\ recorded' # forked' => at'["main"] \in {"record"} \cup Handling \cup Ended
        /\ at'["main"] \in Handling \cup {"shutdown", "faulted"}
    BY <2>1, <2>3, <2>4, HandlerPlaces
  <2>6. TypeOK'
    BY <2>1, <2>3, <2>4, <2>5, TypedNow, FadeTyped DEF Typed, InHandler
  <2>7. ReapInv'
    BY <2>1, <2>3, <2>4, <2>5 DEF ReapInv
  <2>8. FileInv'
    BY <2>1, <2>2, <2>3, <2>4, <2>5 DEF FileInv, InHandler, Opened
  <2> QED
    BY <2>5, <2>6, <2>7, <2>8
<1> QED
  BY <1>1, <1>2

\* The second half, with no child left: the save file, then the segment.
LEMMA SaveInv ==
    ASSUME IInv, NEW t \in Thread, OpenFile(t) \/ WriteFile(t) \/ Unmap(t) \/ Exit(t)
    PROVE  IInv'
<1> USE DEF IInv
<1>1. /\ \E from \in {"open", "write", "unmap", "forget"} :
            \E to \in Opened : InHandler(t, from, to)
      /\ UNCHANGED <<program, g_running, signals>> /\ UNCHANGED family
  <2>1. CASE OpenFile(t)
    <3>1. \E to \in {"write", "unmap"} : Go(t, "open", to)
      BY <2>1 DEF OpenFile
    <3> QED
      BY <2>1, <3>1, HandlerMoves DEF OpenFile, Handling, Opened
  <2>2. CASE WriteFile(t)
    BY <2>2, HandlerMoves DEF WriteFile, Handling, Opened
  <2>3. CASE Unmap(t)
    <3>1. \E to \in {"forget", "faulted", "shutdown"} : Go(t, "unmap", to)
      BY <2>3 DEF Unmap
    <3> QED
      BY <2>3, <3>1, HandlerMoves DEF Unmap, Handling, Opened
  <2>4. CASE Exit(t)
    BY <2>4, HandlerMoves DEF Exit, Handling, Opened
  <2> QED
    BY <2>1, <2>2, <2>3, <2>4
<1>2. PICK from \in {"open", "write", "unmap", "forget"}, to \in Opened : InHandler(t, from, to)
  BY <1>1
<1>3. ChildrenFade /\ Alive' = Alive /\ recorded' = recorded /\ forked' = forked
  BY <1>1, NobodyFades DEF ChildrenFade
<1>4. Alive = {}
  BY <1>2 DEF ReapInv, InHandler, Reaped
<1>5. /\ LoopInv' /\ StopInv' /\ MonitorInv'
      /\ recorded' # forked' => at'["main"] \in {"record"} \cup Handling \cup Ended
      /\ at'["main"] \in Handling \cup {"shutdown", "faulted"}
  BY <1>1, <1>2, <1>3, HandlerPlaces
<1>6. /\ segment' \in {"mapped", "stale", "null"} /\ server_dat' \in {"none", "whole", "torn"}
      /\ opener' \in Thread \cup {"none"} /\ said' \in [Thread -> {"nothing", "saved", "failed"}]
  BY DEF OpenFile, WriteFile, Unmap, Exit, file, TypeOK
<1>7. TypeOK'
  BY <1>1, <1>2, <1>3, <1>5, <1>6, TypedNow, FadeTyped DEF Typed, InHandler
<1>8. ReapInv'
  BY <1>3, <1>4, <1>5 DEF ReapInv
<1>9. FileInv'
  <2>1. CASE OpenFile(t)
    <3>1. CASE /\ Go(t, "open", "write") /\ server_dat' = "torn" /\ opener' = t /\ said' = said
      <4>1. at[t] = "open" /\ at'[t] = "write" /\ \A u \in Thread : u # t => at'[u] = at[u]
        BY <3>1, GoMoves
      <4>2. said[t] = "nothing"
        BY <4>1 DEF FileInv, Opened
      <4> QED
        BY <1>3, <1>4, <1>5, <3>1, <4>1, <4>2 DEF FileInv, Opened
    <3>2. CASE /\ Go(t, "open", "unmap") /\ said' = [said EXCEPT ![t] = "failed"]
               /\ UNCHANGED <<server_dat, opener>>
      <4>1. at[t] = "open" /\ at'[t] = "unmap" /\ \A u \in Thread : u # t => at'[u] = at[u]
        BY <3>2, GoMoves
      <4>2. \A u \in Thread : said'[u] = IF u = t THEN "failed" ELSE said[u]
        BY <3>2 DEF TypeOK
      <4> QED
        BY <1>3, <1>4, <1>5, <3>2, <4>1, <4>2 DEF FileInv, Opened
    <3> QED
      BY <2>1, <3>1, <3>2 DEF OpenFile
  <2>2. CASE WriteFile(t)
    <3>1. at[t] = "write" /\ at'[t] = "unmap" /\ \A u \in Thread : u # t => at'[u] = at[u]
      BY <2>2, GoMoves DEF WriteFile
    <3>2. /\ opener' = opener
          /\ \A u \in Thread : u # t => said'[u] = said[u]
          /\ \/ server_dat' = "whole" /\ said'[t] = "saved"
             \/ server_dat' = server_dat /\ said'[t] = "failed"
      BY <2>2 DEF WriteFile, TypeOK
    <3> QED
      BY <1>3, <1>4, <1>5, <3>1, <3>2 DEF FileInv, Opened
  <2>3. CASE Unmap(t) \/ Exit(t)
    <3>1. UNCHANGED <<server_dat, opener, said>>
      BY <2>3 DEF Unmap, Exit, file
    <3>2. at[t] \in {"unmap", "forget"} /\ at'[t] \in {"forget", "shutdown", "faulted"}
      BY <2>3, GoMoves DEF Unmap, Exit
    <3>3. \A u \in Thread : u # t => at'[u] = at[u]
      BY <1>2 DEF InHandler
    <3> QED
      BY <1>3, <1>4, <1>5, <3>1, <3>2, <3>3 DEF FileInv, Opened
  <2> QED
    BY <2>1, <2>2, <2>3
<1> QED
  BY <1>5, <1>7, <1>8, <1>9

-----------------------------------------------------------------------------
\* A step of a dispatcher: it had to be alive, so no handler has opened the file.
LEMMA DispatcherInv ==
    ASSUME IInv, NEW w \in Slot, ChildStep(w) \/ Crash(w)
    PROVE  IInv'
<1> USE DEF IInv
<1>1. /\ child[w] \in {"fresh", "serving", "handling", "saving", "cut", "dying"}
      /\ child' \in [Slot -> ChildPlace]
      /\ child'[w] # "none"
      /\ \A v \in Slot : v # w => child'[v] = child[v] \/ child'[v] = Sigterm(child[v])
      /\ server_dat' \in {"none", "whole", "torn"}
      /\ UNCHANGED <<program, at, g_running, forked, recorded, segment, opener, said, signals>>
  <2>1. CASE ChildKills(w)
    BY <2>1, SignalKeeps DEF ChildKills, OthersUnchanged, TypeOK, ChildPlace
  <2>2. CASE SetDefault(w) \/ Crash(w) \/ ChildSaves(w) \/ Die(w)
    BY <2>2 DEF SetDefault, Crash, ChildSaves, Die, Turn, OthersUnchanged, TypeOK, ChildPlace
  <2> QED
    BY <2>1, <2>2 DEF ChildStep
<1>2. ChildrenFade
  BY <1>1, SignalKeeps DEF TypeOK, ChildrenFade, ChildPlace
<1>3. Alive' \subseteq Alive
  BY <1>2, NoneReborn
<1>4. w \in Alive
  BY <1>1 DEF TypeOK, Alive, Slot
<1>5. opener = "none"
  BY <1>4 DEF FileInv, TypeOK
<1>6. TypeOK'
  BY <1>1, <1>2, TypedNow, FadeTyped DEF Typed
<1>7. LoopInv' /\ StopInv' /\ MonitorInv'
  BY <1>1, <1>3 DEF LoopInv, StopInv, MonitorInv
<1>8. ReapInv'
  BY <1>1, <1>3 DEF ReapInv
<1>9. FileInv'
  <2>1. \A t \in Thread : opener # t
    BY <1>5 DEF Thread
  <2> QED
    BY <1>1, <1>5, <2>1 DEF FileInv
<1> QED
  BY <1>6, <1>7, <1>8, <1>9

LEMMA StepInv == IInv /\ [Next]_vars => IInv'
<1> SUFFICES ASSUME IInv, [Next]_vars PROVE IInv'
  OBVIOUS
<1>1. CASE MainStep \/ MonitorStep
  BY <1>1, MainStepInv, MonitorStepInv
<1>2. CASE \E t \in Thread : HandlerStep(t)
  BY <1>2, KillWorkersInv, SaveInv DEF HandlerStep
<1>3. CASE \E group \in BOOLEAN : Interrupt(group)
  BY <1>3, InterruptInv
<1>4. CASE \E w \in Slot : ChildStep(w) \/ Crash(w)
  BY <1>4, DispatcherInv
<1>5. CASE UNCHANGED vars
  <2>1. /\ UNCHANGED <<program, at, g_running, forked, recorded, child, segment, signals>>
        /\ UNCHANGED <<server_dat, opener, said>>
    BY <1>5 DEF vars, family, file
  <2>2. Alive' = Alive
    BY <2>1 DEF Alive
  <2>3. TypeOK'
    BY <2>1 DEF IInv, TypeOK
  <2>4. LoopInv' /\ StopInv' /\ MonitorInv' /\ ReapInv' /\ FileInv'
    BY <2>1, <2>2 DEF IInv, LoopInv, StopInv, MonitorInv, ReapInv, FileInv
  <2> QED
    BY <2>3, <2>4 DEF IInv
<1> QED
  BY <1>1, <1>2, <1>3, <1>4, <1>5 DEF Next

-----------------------------------------------------------------------------
\* The inductive invariant holds in every state.
LEMMA InvAlways == Spec => []IInv
  BY InitInv, StepInv, PTL DEF Spec

\* At every moment at most the child forked last is missing in workers[]
\* (coordinator.c:143-153).
THEOREM TypeCorrect == Spec => []TypeOK
<1>1. IInv => TypeOK
  BY DEF IInv
<1> QED
  BY <1>1, InvAlways, PTL

\* The master leaves children behind only when fork() failed or SIGINT came before
\* start_coordinator_process (coordinator.c:145, 164; server_main.c:31), whichever
\* thread runs the handler and however the process ends.
THEOREM NoOrphansAlways == Spec => []NoOrphans
<1>1. IInv => NoOrphans
  <2> SUFFICES ASSUME IInv, NEW t \in Thread, at[t] \in Ended, Alive # {}
               PROVE  \/ at["main"] = "failed"
                      \/ at["main"] = "stopped" /\ program = "server_app" /\ ~g_running
    BY DEF NoOrphans, Over
  <2>1. CASE t = "main"
    <3>1. at["main"] = "killed" => Alive = {}
      BY CoordinatorAssumption DEF IInv, LoopInv, Alive
    <3> QED
      BY <2>1, <3>1 DEF IInv, StopInv, ReapInv, Reaped, Leaving, Ended
  <2>2. CASE t = "monitor"
    BY <2>2 DEF IInv, MonitorInv, ReapInv, Reaped, Ended, Handling
  <2> QED
    BY <2>1, <2>2 DEF Thread
<1> QED
  BY <1>1, InvAlways, PTL

\* The handler that opened the save file last, in whichever thread, tells the truth
\* when it logs that the state is saved (coordinator.c:46-53, 124-136).
THEOREM SavedWholeAlways == Spec => []SavedWhole
<1>1. IInv => SavedWhole
  BY DEF IInv, FileInv, SavedWhole
<1> QED
  BY <1>1, InvAlways, PTL

=============================================================================
