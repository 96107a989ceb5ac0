----------------------------- MODULE Coordinator -----------------------------
(***************************************************************************)
(* The processes of the server from main to the end (coordinator.c,        *)
(* server_main.c, insecure_server.c): the master installs its SIGINT       *)
(* handler, forks the dispatchers one by one and notes each pid after      *)
(* fork() has returned, starts the monitor thread, then waits until no     *)
(* dispatcher is left.  SIGINT can come at any point of this, to the       *)
(* master alone (kill) or to the whole foreground group (Ctrl-C).  A child *)
(* inherits the master's handler and has it until its own first statement  *)
(* sets the default back.                                                  *)
(*                                                                         *)
(* The master is two threads.  Linux gives a SIGINT to the main thread as  *)
(* long as that one does not block it, and a thread blocks it only while   *)
(* it is in the handler itself: a further SIGINT goes to the monitor       *)
(* thread, and then two threads run handle_sigint side by side.            *)
(*                                                                         *)
(* Whose fault a dead dispatcher is, is the subject of Connection; what a  *)
(* half-made booking does to the saved file, of Restart.                   *)
(***************************************************************************)
EXTENDS Integers

CONSTANTS
    WORKER_COUNT,   \* dispatchers to fork
    MaxSignals      \* bound: SIGINTs in one behaviour

ASSUME CoordinatorAssumption == WORKER_COUNT \in Nat \ {0} /\ MaxSignals \in Nat

VARIABLES
    program,     \* "server_app" or "insecure_server"
    at,          \* where each thread of the master is
    g_running,
    forked,      \* children forked so far
    recorded,    \* the pids in workers[] are those of 1..recorded
    child,       \* each dispatcher process
    segment,     \* g_shared_state: mapped, stale (unmapped, still pointed to) or null
    server_dat,  \* the save file: none, whole or torn
    opener,      \* history: the thread whose handler opened the save file last
    said,        \* history: what each thread's handler logged about its save
    signals      \* history, held below MaxSignals

family == <<forked, recorded, child>>
file == <<server_dat, opener, said>>
vars == <<program, at, g_running, family, segment, file, signals>>

Slot == 1..WORKER_COUNT

Thread == {"main", "monitor"}

\* Ways the master can have ended: fork() failed, handle_sigint, the end of main,
\* SIGINT before any handler, a fault on the unmapped segment.  The end of one
\* thread is the end of the process, and leaves the other where it was.
Ended == {"failed", "shutdown", "stopped", "killed", "faulted"}

Over == \E t \in Thread : at[t] \in Ended

\* The places of handle_sigint, where its thread blocks SIGINT.
Handling == {"handler", "reap", "open", "write", "unmap", "forget", "deadlocked"}

Alive == {w \in 1..forked : child[w] # "dead"}

Init ==
    /\ program \in {"server_app", "insecure_server"}
    /\ at = [t \in Thread |-> IF t = "main" THEN "main" ELSE "none"]
    /\ g_running = TRUE
    /\ forked = 0 /\ recorded = 0
    /\ child = [w \in Slot |-> "none"]
    /\ segment = "mapped"
    /\ server_dat = "none" /\ opener = "none" /\ said = [t \in Thread |-> "nothing"]
    /\ signals = 0

Go(t, from, to) == ~Over /\ at[t] = from /\ at' = [at EXCEPT ![t] = to]

-----------------------------------------------------------------------------
(***************************************************************************)
(* The main thread.                                                        *)
(***************************************************************************)
StartCoordinator ==
    /\ Go("main", "main", "fork")
    /\ UNCHANGED <<program, g_running, family, segment, file, signals>>

\* fork() can fail, and then the children there are stay behind.
Fork ==
    /\ \/ /\ Go("main", "fork", "record")
          /\ forked' = forked + 1
          /\ child' = [child EXCEPT ![forked + 1] = "fresh"]
       \/ /\ Go("main", "fork", "failed")
          /\ UNCHANGED <<forked, child>>
    /\ UNCHANGED <<program, g_running, recorded, segment, file, signals>>

\* Variant: the last pid is not stored.
RecordButLast ==
    /\ Go("main", "record", IF forked = WORKER_COUNT THEN "announce" ELSE "fork")
    /\ recorded' = IF forked = WORKER_COUNT THEN recorded ELSE forked
    /\ UNCHANGED <<program, g_running, forked, child, segment, file, signals>>

Record ==
    /\ Go("main", "record", IF forked = WORKER_COUNT THEN "announce" ELSE "fork")
    /\ recorded' = forked
    /\ UNCHANGED <<program, g_running, forked, child, segment, file, signals>>

\* The log line after the loop, then the monitor thread.  server_app logs once more
\* if there is one.
StartMonitor ==
    /\ ~Over /\ at["main"] = "announce"
    /\ \/ at' = [t \in Thread |-> IF t = "monitor" THEN "starting"
                                  ELSE IF program = "server_app" THEN "started" ELSE "wait"]
       \/ at' = [at EXCEPT !["main"] = "wait"]
    /\ UNCHANGED <<program, g_running, family, segment, file, signals>>

Started ==
    /\ Go("main", "started", "wait")
    /\ UNCHANGED <<program, g_running, family, segment, file, signals>>

\* Variant: the loop ends with the first child that does.
LeaveLoopAtFirst ==
    /\ Go("main", "wait", "cleanup") /\ (~g_running \/ \E w \in Slot : child[w] = "dead")
    /\ UNCHANGED <<program, g_running, family, segment, file, signals>>

\* Variant: ECHILD is not looked at.
LeaveLoopDeaf ==
    /\ Go("main", "wait", "cleanup") /\ ~g_running
    /\ UNCHANGED <<program, g_running, family, segment, file, signals>>

\* The wait loop is over when g_running is false at its head or no child is left.
LeaveLoop ==
    /\ Go("main", "wait", "cleanup") /\ (~g_running \/ Alive = {})
    /\ UNCHANGED <<program, g_running, family, segment, file, signals>>

\* cleanup_resources of server_app saves first, and does not look at what fwrite()
\* returns; ipc_cleanup of insecure_server does not save.
Cleanup ==
    /\ Go("main", "cleanup", "release")
    /\ server_dat' \in IF program = "server_app" THEN {"whole", "torn", server_dat}
                       ELSE {server_dat}
    /\ UNCHANGED <<program, g_running, family, segment, opener, said, signals>>

\* Both unmap the segment; only ipc_cleanup forgets the address.
Release ==
    /\ Go("main", "release", "leave")
    /\ segment' = "stale"
    /\ UNCHANGED <<program, g_running, family, file, signals>>

Forget ==
    /\ Go("main", "leave", "leave") /\ program = "insecure_server" /\ segment = "stale"
    /\ segment' = "null"
    /\ UNCHANGED <<program, g_running, family, file, signals>>

EndMain ==
    /\ Go("main", "leave", "stopped") /\ (program = "insecure_server" => segment = "null")
    /\ UNCHANGED <<program, g_running, family, segment, file, signals>>

-----------------------------------------------------------------------------
(***************************************************************************)
(* The monitor thread, as far as its life goes.  Its loop looks at         *)
(* g_running once per tick, and uses the segment without asking whether    *)
(* main has unmapped it.                                                   *)
(***************************************************************************)
MonitorStep ==
    /\ \/ Go("monitor", "starting", "ticking") /\ g_running
       \/ \E p \in {"starting", "ticking"} : Go("monitor", p, "finished") /\ ~g_running
       \/ Go("monitor", "ticking", "faulted") /\ segment # "mapped"
    /\ UNCHANGED <<program, g_running, family, segment, file, signals>>

-----------------------------------------------------------------------------
(***************************************************************************)
(* SIGINT.                                                                 *)
(***************************************************************************)
Sigterm(s) == CASE s \in {"none", "dead", "cut"} -> s [] s = "saving" -> "cut" [] OTHER -> "dying"

\* What SIGINT does to a dispatcher: the inherited handler, or the default.
Sigint(s) == CASE s = "fresh" -> "handling" [] s = "serving" -> "dying" [] OTHER -> s

\* Where SIGINT takes the master.  Before start_coordinator_process server_app has
\* a handler that only sets g_running, and insecure_server has none.  In the middle
\* of a log line the handler's own can wait for ever for the lock of localtime(),
\* and so can the monitor's once main does.
InterruptMain(p) ==
    CASE p = "main" /\ program = "server_app" -> {"main"}
      [] p = "main" /\ program = "insecure_server" -> {"killed"}
      [] p \in {"announce", "started", "cleanup", "leave"} -> {"handler", "deadlocked"}
      [] OTHER -> {"handler"}

InterruptMaster ==
    IF at["main"] \notin Handling
    THEN \E p \in InterruptMain(at["main"]) :
            /\ at' = [at EXCEPT !["main"] = p]
            /\ g_running' = (g_running /\ p = "killed")
    ELSE IF at["monitor"] \in {"starting", "ticking"}
    THEN /\ at' = [at EXCEPT !["monitor"] = IF at["main"] = "deadlocked" THEN "deadlocked" ELSE "handler"]
         /\ g_running' = FALSE
    ELSE UNCHANGED <<at, g_running>>

Interrupt(group) ==
    /\ ~Over /\ signals < MaxSignals
    /\ InterruptMaster
    /\ child' = IF group THEN [w \in Slot |-> Sigint(child[w])] ELSE child
    /\ signals' = signals + 1
    /\ UNCHANGED <<program, forked, recorded, segment, file>>

\* Variant: the loop stops one short.
KillWorkersButLast(t) ==
    /\ Go(t, "handler", "reap")
    /\ child' = [w \in Slot |-> IF w < recorded THEN Sigterm(child[w]) ELSE child[w]]
    /\ UNCHANGED <<program, g_running, forked, recorded, segment, file, signals>>

\* handle_sigint: SIGTERM to the pids in workers[].
KillWorkers(t) ==
    /\ Go(t, "handler", "reap")
    /\ child' = [w \in Slot |-> IF w <= recorded THEN Sigterm(child[w]) ELSE child[w]]
    /\ UNCHANGED <<program, g_running, forked, recorded, segment, file, signals>>

\* Variant: the handler does not wait for the children.
ReapNone(t) ==
    /\ Go(t, "reap", IF segment = "null" THEN "unmap" ELSE "open")
    /\ UNCHANGED <<program, g_running, family, segment, file, signals>>

\* wait() has collected every child, and the segment is saved if there still is a
\* pointer to it.
Reap(t) ==
    /\ Go(t, "reap", IF segment = "null" THEN "unmap" ELSE "open") /\ Alive = {}
    /\ UNCHANGED <<program, g_running, family, segment, file, signals>>

\* save_state: open() empties the file, or fails.
OpenFile(t) ==
    /\ \/ /\ Go(t, "open", "write")
          /\ server_dat' = "torn" /\ opener' = t /\ UNCHANGED said
       \/ /\ Go(t, "open", "unmap")
          /\ said' = [said EXCEPT ![t] = "failed"] /\ UNCHANGED <<server_dat, opener>>
    /\ UNCHANGED <<program, g_running, family, segment, signals>>

\* write() writes all of the segment, or stops short; of an unmapped segment it
\* writes nothing.
WriteFile(t) ==
    /\ Go(t, "write", "unmap")
    /\ \/ /\ segment = "mapped"
          /\ server_dat' = "whole" /\ said' = [said EXCEPT ![t] = "saved"]
       \/ /\ said' = [said EXCEPT ![t] = "failed"] /\ UNCHANGED server_dat
    /\ UNCHANGED <<program, g_running, family, segment, opener, signals>>

\* ipc_cleanup: the mutex is destroyed where it was, which is a fault after the
\* segment has been unmapped elsewhere.
Unmap(t) ==
    /\ \/ segment = "mapped" /\ Go(t, "unmap", "forget") /\ segment' = "stale"
       \/ segment = "stale" /\ Go(t, "unmap", "faulted") /\ UNCHANGED segment
       \/ segment = "null" /\ Go(t, "unmap", "shutdown") /\ UNCHANGED segment
    /\ UNCHANGED <<program, g_running, family, file, signals>>

Exit(t) ==
    /\ Go(t, "forget", "shutdown")
    /\ segment' = "null"
    /\ UNCHANGED <<program, g_running, family, file, signals>>

-----------------------------------------------------------------------------
(***************************************************************************)
(* A dispatcher.                                                           *)
(***************************************************************************)
Turn(w, from, to) == child[w] = from /\ child' = [child EXCEPT ![w] = to]

OthersUnchanged ==
    UNCHANGED <<program, at, g_running, forked, recorded, segment, opener, said, signals>>

\* signal(SIGINT, SIG_DFL).
SetDefault(w) == Turn(w, "fresh", "serving") /\ OthersUnchanged /\ UNCHANGED server_dat

\* A dispatcher that dies of what a client made it do.
Crash(w) == Turn(w, "serving", "dead") /\ OthersUnchanged /\ UNCHANGED server_dat

\* The inherited handler in a child: its copy of workers[] holds its elder siblings,
\* and it has no children of its own to wait for.
ChildKills(w) ==
    /\ child[w] = "handling"
    /\ child' = [v \in Slot |-> IF v = w THEN "saving" ELSE IF v < w THEN Sigterm(child[v]) ELSE child[v]]
    /\ OthersUnchanged /\ UNCHANGED server_dat

\* Its save can stop short, or not begin, like the master's.
ChildSaves(w) ==
    /\ Turn(w, "saving", "dead")
    /\ server_dat' \in {"whole", "torn", server_dat}
    /\ OthersUnchanged

\* A process killed while it saves may leave part of a file.
Die(w) ==
    /\ \/ Turn(w, "dying", "dead") /\ UNCHANGED server_dat
       \/ Turn(w, "cut", "dead") /\ server_dat' \in {server_dat, "torn"}
    /\ OthersUnchanged

-----------------------------------------------------------------------------
MainStep ==
    \/ StartCoordinator \/ Fork \/ Record \/ StartMonitor \/ Started \/ LeaveLoop
    \/ Cleanup \/ Release \/ Forget \/ EndMain

HandlerStep(t) ==
    KillWorkers(t) \/ Reap(t) \/ OpenFile(t) \/ WriteFile(t) \/ Unmap(t) \/ Exit(t)

ChildStep(w) == SetDefault(w) \/ ChildKills(w) \/ ChildSaves(w) \/ Die(w)

Next ==
    \/ MainStep \/ MonitorStep
    \/ \E t \in Thread : HandlerStep(t)
    \/ \E group \in BOOLEAN : Interrupt(group)
    \/ \E w \in Slot : ChildStep(w) \/ Crash(w)

\* Threads and processes that can go on do; nobody has to press Ctrl-C, nobody has to
\* crash, and nothing is asked of the monitor's own loop.
Fairness ==
    /\ WF_vars(MainStep \/ HandlerStep("main")) /\ WF_vars(HandlerStep("monitor"))
    /\ \A w \in Slot : WF_vars(ChildStep(w))

Spec == Init /\ [][Next]_vars /\ Fairness

-----------------------------------------------------------------------------
\* The shape of the state; only the child forked last can be missing in workers[],
\* and only while the loop is about to store it or a SIGINT came just then
\* (coordinator.c:143-153).
TypeOK ==
    /\ program \in {"server_app", "insecure_server"}
    /\ at \in [Thread -> {"main", "fork", "record", "announce", "started", "wait", "cleanup",
                          "release", "leave", "none", "starting", "ticking", "finished"}
                         \cup Handling \cup Ended]
    /\ g_running \in BOOLEAN
    /\ forked \in 0..WORKER_COUNT /\ recorded \in {forked - 1, forked} /\ recorded >= 0
    /\ recorded # forked => at["main"] \in {"record"} \cup Handling \cup Ended
    /\ child \in [Slot -> {"none", "fresh", "serving", "handling", "saving", "cut", "dying", "dead"}]
    /\ \A w \in Slot : child[w] = "none" <=> w > forked
    /\ segment \in {"mapped", "stale", "null"}
    /\ server_dat \in {"none", "whole", "torn"}
    /\ opener \in Thread \cup {"none"}
    /\ said \in [Thread -> {"nothing", "saved", "failed"}]
    /\ signals \in 0..MaxSignals

\* The master leaves children behind in two cases only: fork() failed
\* (coordinator.c:145), or SIGINT came before start_coordinator_process, whose wait
\* loop is then not entered (server_main.c:31, coordinator.c:164).
NoOrphans ==
    Over /\ Alive # {} =>
        \/ at["main"] = "failed"
        \/ at["main"] = "stopped" /\ program = "server_app" /\ ~g_running

\* The handler that opened the save file last tells the truth when it logs that the
\* state is saved (coordinator.c:46-53): the file is complete and there is no child
\* left that could still write to it with the inherited handler (124-148).  Nothing
\* holds for the log line of one that opened it earlier: the other thread of the
\* master has emptied the file since, and its write() may fail on the unmapped
\* segment, or exit() may come before it.
SavedWhole ==
    \A t \in Thread : opener = t /\ said[t] = "saved" => server_dat = "whole" /\ Alive = {}

\* A shutdown that can know all children ends, with none left (coordinator.c:129-135):
\* a child whose pid is not yet recorded must have had the SIGINT itself.  A kill to
\* the master alone between fork() and the assignment waits for ever instead.
ShutdownEnds ==
    (at["main"] = "handler" /\ \A w \in Alive : w <= recorded \/ child[w] \notin {"fresh", "serving"})
        ~> (Over /\ Alive = {})

\* When the last dispatcher has died, so does the server (coordinator.c:164-167),
\* unless a SIGINT catches main at one of its last log lines.
PoolGoneEnds == (at["main"] = "wait" /\ Alive = {}) ~> Over \/ at["main"] = "deadlocked"

=============================================================================
