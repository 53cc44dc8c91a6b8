----------------------------- MODULE IoThreads -----------------------------
(***************************************************************************)
(* Threaded I/O of redis-7.0.15/src/networking.c: the main thread fans     *)
(* client reads and writes out to I/O threads, waits until each of them    *)
(* drops its pending count, and only then touches the clients again.  The  *)
(* threads are parked on a mutex that the main thread holds while there    *)
(* is little to write.  A client's buffers are plain memory without a      *)
(* lock: what keeps them safe is this hand-over.                           *)
(***************************************************************************)
EXTENDS Integers, Sequences, FiniteSets, SequencesExt

CONSTANTS Clients,   \* the connections accepted at the start
          Num,       \* server.io_threads_num; thread 0 is the main thread
          Sends,     \* the number of commands each client sends
          DoReads,   \* server.io_threads_do_reads
          NoClient

VARIABLES main,      \* where the main thread is in beforeSleep
          ret,       \* where the reads return to: "writes", or "stop"
          op,        \* io_threads_op
          active,    \* server.io_threads_active
          mutex,     \* io_threads_mutex: the holder of each, -1 if none
          pending,   \* io_threads_pending
          list,      \* io_threads_list
          thread,    \* where each thread is in IOThreadMain
          busy,      \* the client whose buffers each thread is inside
          pr, pw,    \* clients_pending_read, clients_pending_write
          cl         \* the clients

vars == <<main, ret, op, active, mutex, pending, list, thread, busy, pr, pw, cl>>

Workers == 1 .. Num - 1
All == 0 .. Num - 1
Free == -1

New(c) == [alive |-> TRUE, unread |-> Sends[c], buf |-> 0, cmd |-> FALSE,
           out |-> FALSE, handler |-> FALSE, flag |-> FALSE,
           close |-> FALSE, after |-> FALSE]

\* initThreadedIO: the threads are created stopped.
Init == /\ main = "events" /\ ret = "writes"
        /\ op = "idle" /\ active = FALSE
        /\ mutex = [j \in Workers |-> 0]
        /\ pending = [j \in Workers |-> 0]
        /\ list = [j \in All |-> <<>>]
        /\ thread = [j \in Workers |-> "spin"]
        /\ busy = [j \in All |-> NoClient]
        /\ pr = <<>> /\ pw = <<>>
        /\ cl = [c \in Clients |-> New(c)]

----------------------------------------------------------------------------
\* What one call does to one client.

\* writeToClient: everything is sent, a part of it, or the connection fails.
Written(c) ==
    LET sent == [c EXCEPT !.out = FALSE, !.close = c.close \/ c.after]
    IN IF c.out THEN {sent, c, [c EXCEPT !.close = TRUE]} ELSE {sent}

\* readQueryFromClient and processInputBuffer while io_threads_op is not idle:
\* the first command is parsed and left for the main thread; a protocol error
\* is answered here, without queueing the client; or the connection is closed.
ReadByThread(c) ==
    {[c EXCEPT !.unread = @ - n, !.buf = @ + n - 1, !.cmd = TRUE] : n \in 1 .. c.unread}
    \cup (IF c.unread > 0 THEN {[c EXCEPT !.unread = @ - 1, !.out = TRUE, !.after = TRUE]}
                          ELSE {})
    \cup {[c EXCEPT !.close = TRUE]}

\* The same from the event loop, where commands are not left over.
ReadByMain(c) == {[c EXCEPT !.unread = @ - n, !.buf = @ + n] : n \in 1 .. c.unread}
                 \cup {[c EXCEPT !.close = TRUE]}

\* putClientInPendingWriteQueue
PutInQueue(s, c) == IF s.cl[c].flag THEN s
                    ELSE [s EXCEPT !.cl[c].flag = TRUE, !.pw = <<c>> \o @]

\* prepareClientToWrite, and a reply in the output buffer.
Answer(s, c) == LET t == IF s.cl[c].out THEN s ELSE PutInQueue(s, c)
                IN [t EXCEPT !.cl[c].out = TRUE]

\* Mutant: unlinkClient leaves the client in clients_pending_write.
unlinkClientKeepWrite(s, c) ==
    [s EXCEPT !.cl[c].alive = FALSE, !.cl[c].flag = FALSE,
              !.pr = SelectSeq(@, LAMBDA d : d # c)]

\* freeClient, unlinkClient.
unlinkClient(s, c) ==
    [s EXCEPT !.cl[c].alive = FALSE, !.cl[c].flag = FALSE,
              !.pw = IF s.cl[c].flag THEN SelectSeq(@, LAMBDA d : d # c) ELSE @,
              !.pr = SelectSeq(@, LAMBDA d : d # c)]

\* processPendingCommandAndInputBuffer, processInputBuffer: the parsed command
\* and then those in the query buffer run and are answered.  A command may free
\* another client (CLIENT KILL).
Run(s, c, victim) ==
    LET n == s.cl[c].buf + (IF s.cl[c].cmd THEN 1 ELSE 0)
        t == IF n = 0 THEN s ELSE Answer(s, c)
        u == [t EXCEPT !.cl[c].buf = IF t.cl[c].after THEN @ ELSE 0, !.cl[c].cmd = FALSE]
    IN IF n > 0 /\ victim # NoClient THEN unlinkClient(u, victim) ELSE u

Victims(c) == {d \in Clients \ {c} : cl[d].alive} \cup {NoClient}

State == [cl |-> cl, pr |-> pr, pw |-> pw]
Become(s) == cl' = s.cl /\ pr' = s.pr /\ pw' = s.pw

----------------------------------------------------------------------------
\* The event loop.

\* postponeClientRead
Postpones(c) == active /\ DoReads /\ op = "idle"

\* readQueryFromClient as a readable handler; the event loop calls it at most
\* once for a connection before the next beforeSleep.
ReadEvent(c) ==
    /\ main = "events" /\ cl[c].alive /\ ~cl[c].close
    /\ cl[c].unread > 0 /\ ~Contains(pr, c)
    /\ IF Postpones(c) THEN Become([State EXCEPT !.pr = <<c>> \o @])
       ELSE \E r \in ReadByMain(cl[c]), v \in Victims(c) :
              LET s == IF r.close THEN [State EXCEPT !.cl[c] = r]
                       ELSE Run([State EXCEPT !.cl[c] = r], c, v)
              IN Become(IF r.close THEN unlinkClient(s, c) ELSE s)
    /\ UNCHANGED <<main, ret, op, active, mutex, pending, list, thread, busy>>

\* sendReplyToClient: the handler goes once there is nothing left to send.
WriteEvent(c) ==
    /\ main = "events" /\ cl[c].alive /\ cl[c].handler
    /\ \E w \in Written(cl[c]) :
         cl' = [cl EXCEPT ![c] = [w EXCEPT !.handler = w.out]]
    /\ UNCHANGED <<main, ret, op, active, mutex, pending, list, thread, busy, pr, pw>>

BeforeSleep ==
    /\ main = "events"
    /\ main' = "reads" /\ ret' = "writes"
    /\ UNCHANGED <<op, active, mutex, pending, list, thread, busy, pr, pw, cl>>

----------------------------------------------------------------------------
\* Fan out and fan in.

\* Round robin: item_id % io_threads_num.
Share(s, j) == LET at == SelectSeq([i \in DOMAIN s |-> i], LAMBDA i : (i - 1) % Num = j)
               IN [i \in DOMAIN at |-> s[at[i]]]

\* handleClientsWithPendingReadsUsingThreads up to the start condition.
FanOutReads ==
    /\ main = "reads"
    /\ IF ~active \/ ~DoReads \/ pr = <<>>
       THEN /\ main' = IF ret = "stop" THEN "lock" ELSE "writes"
            /\ UNCHANGED <<list, op>>
       ELSE /\ list' = [j \in All |-> Share(pr, j)]
            /\ op' = "read"
            /\ main' = "give"
    /\ UNCHANGED <<ret, active, mutex, pending, thread, busy, pr, pw, cl>>

\* Mutant: startThreadedIO only sets the flag.
StartFlagOnly == /\ active' = TRUE /\ UNCHANGED mutex

startThreadedIO == /\ active' = TRUE
                   /\ mutex' = IF active THEN mutex ELSE [j \in Workers |-> Free]

\* handleClientsWithPendingWritesUsingThreads up to the start condition, and
\* stopThreadedIOIfNeeded.
FanOutWrites ==
    LET open == SelectSeq(pw, LAMBDA c : ~cl[c].close) IN
    /\ main = "writes"
    /\ \/ /\ pw = <<>>
          /\ main' = "free"
          /\ UNCHANGED <<ret, op, active, mutex, list, pw, cl>>
       \/ /\ pw # <<>> /\ Len(pw) < 2 * Num
          /\ main' = IF active THEN "reads" ELSE "sync"
          /\ ret' = IF active THEN "stop" ELSE ret
          /\ UNCHANGED <<op, active, mutex, list, pw, cl>>
       \/ /\ Len(pw) >= 2 * Num
          /\ startThreadedIO
          /\ cl' = [c \in Clients |-> IF Contains(pw, c) THEN [cl[c] EXCEPT !.flag = FALSE]
                                      ELSE cl[c]]
          /\ pw' = open
          /\ list' = [j \in All |-> Share(open, j)]
          /\ op' = "write"
          /\ main' = "give"
          /\ UNCHANGED ret
    /\ UNCHANGED <<pending, thread, busy, pr>>

\* The start condition: setIOPendingCount for every thread.
Give ==
    /\ main = "give"
    /\ pending' = [j \in Workers |-> Len(list[j])]
    /\ main' = "slice"
    /\ UNCHANGED <<ret, op, active, mutex, list, thread, busy, pr, pw, cl>>

Enter(j) == /\ busy[j] = NoClient /\ list[j] # <<>>
            /\ busy' = [busy EXCEPT ![j] = Head(list[j])]

\* writeToClient or readQueryFromClient returns; the next client of the list.
Leave(j) == /\ busy[j] # NoClient
            /\ \E r \in IF op = "write" THEN Written(cl[busy[j]]) ELSE ReadByThread(cl[busy[j]]) :
                 cl' = [cl EXCEPT ![busy[j]] = r]
            /\ busy' = [busy EXCEPT ![j] = NoClient]
            /\ list' = [list EXCEPT ![j] = Tail(@)]

\* The main thread's own slice, list[0].
MainEnters ==
    /\ main = "slice" /\ Enter(0)
    /\ UNCHANGED <<main, ret, op, active, mutex, pending, list, thread, pr, pw, cl>>

MainLeaves ==
    /\ main = "slice" /\ Leave(0)
    /\ UNCHANGED <<main, ret, op, active, mutex, pending, thread, pr, pw>>

SliceDone ==
    /\ main = "slice" /\ list[0] = <<>>
    /\ main' = "wait"
    /\ UNCHANGED <<ret, op, active, mutex, pending, list, thread, busy, pr, pw, cl>>

\* The end of the fan-in of the writes: a handler for what is left, then the
\* queue is emptied.
FanInWrites == /\ cl' = [c \in Clients |-> IF Contains(pw, c) /\ cl[c].out
                                          THEN [cl[c] EXCEPT !.handler = TRUE] ELSE cl[c]]
               /\ pw' = <<>>
               /\ main' = "free"

\* Every count is 0: the main thread may touch the clients again.
FanIn ==
    /\ main = "wait" /\ \A j \in Workers : pending[j] = 0
    /\ op' = "idle"
    /\ IF op = "write" THEN FanInWrites ELSE main' = "fanin" /\ UNCHANGED <<cl, pw>>
    /\ UNCHANGED <<ret, active, mutex, pending, list, thread, busy, pr>>

\* Mutant: the fan-in of the reads trusts the commands to queue the client.
FanInReadNoQueue ==
    /\ main = "fanin" /\ pr # <<>>
    /\ LET c == Head(pr)
           s == [State EXCEPT !.pr = Tail(@)]
       IN IF cl[c].close THEN Become(unlinkClient(s, c))
          ELSE \E v \in Victims(c) : Become(Run(s, c, v))
    /\ UNCHANGED <<main, ret, op, active, mutex, pending, list, thread, busy>>

\* One turn of the loop over clients_pending_read after the threads are done.
FanInRead ==
    /\ main = "fanin" /\ pr # <<>>
    /\ LET c == Head(pr)
           s == [State EXCEPT !.pr = Tail(@)]
       IN IF cl[c].close THEN Become(unlinkClient(s, c))
          ELSE \E v \in Victims(c) :
                 LET t == Run(s, c, v)
                 IN Become(IF t.cl[c].out THEN PutInQueue(t, c) ELSE t)
    /\ UNCHANGED <<main, ret, op, active, mutex, pending, list, thread, busy>>

ReadsDone ==
    /\ main = "fanin" /\ pr = <<>>
    /\ main' = IF ret = "stop" THEN "lock" ELSE "writes"
    /\ UNCHANGED <<ret, op, active, mutex, pending, list, thread, busy, pr, pw, cl>>

\* stopThreadedIO: take the mutexes, one after the other.
LockThreads ==
    /\ main = "lock"
    /\ IF \A j \in Workers : mutex[j] = 0
       THEN main' = "sync" /\ active' = FALSE /\ UNCHANGED mutex
       ELSE /\ \E j \in Workers :
                 /\ mutex[j] = Free /\ \A i \in 1 .. j - 1 : mutex[i] = 0
                 /\ mutex' = [mutex EXCEPT ![j] = 0]
            /\ UNCHANGED <<main, active>>
    /\ UNCHANGED <<ret, op, pending, list, thread, busy, pr, pw, cl>>

\* handleClientsWithPendingWrites, one client of the queue.
SyncWrite ==
    /\ main = "sync"
    /\ IF pw = <<>> THEN main' = "free" /\ UNCHANGED <<pw, cl>>
       ELSE LET c == Head(pw) IN
            /\ pw' = Tail(pw)
            /\ IF cl[c].close THEN cl' = [cl EXCEPT ![c].flag = FALSE]
               ELSE \E w \in Written(cl[c]) :
                      cl' = [cl EXCEPT ![c] =
                               [w EXCEPT !.flag = FALSE,
                                         !.handler = @ \/ (w.out /\ ~w.close)]]
            /\ UNCHANGED main
    /\ UNCHANGED <<ret, op, active, mutex, pending, list, thread, busy, pr>>

\* freeClientsInAsyncFreeQueue
FreeClients ==
    /\ main = "free"
    /\ main' = "events"
    /\ Become(FoldSet(LAMBDA c, s : unlinkClient(s, c), State,
                      {c \in Clients : cl[c].alive /\ cl[c].close}))
    /\ UNCHANGED <<ret, op, active, mutex, pending, list, thread, busy>>

----------------------------------------------------------------------------
\* IOThreadMain

Spin(j) ==
    /\ thread[j] = "spin"
    /\ thread' = [thread EXCEPT ![j] = IF pending[j] # 0 THEN "work" ELSE "lock"]
    /\ UNCHANGED <<main, ret, op, active, mutex, pending, list, busy, pr, pw, cl>>

Lock(j) ==
    /\ thread[j] = "lock" /\ mutex[j] = Free
    /\ mutex' = [mutex EXCEPT ![j] = j]
    /\ thread' = [thread EXCEPT ![j] = "unlock"]
    /\ UNCHANGED <<main, ret, op, active, pending, list, busy, pr, pw, cl>>

Unlock(j) ==
    /\ thread[j] = "unlock"
    /\ mutex' = [mutex EXCEPT ![j] = Free]
    /\ thread' = [thread EXCEPT ![j] = "spin"]
    /\ UNCHANGED <<main, ret, op, active, pending, list, busy, pr, pw, cl>>

\* Mutant: the count is dropped when the last client is entered, not left.
ThreadEntersLast(j) ==
    /\ thread[j] = "work" /\ Enter(j)
    /\ pending' = [pending EXCEPT ![j] = IF Len(list[j]) = 1 THEN 0 ELSE @]
    /\ UNCHANGED <<main, ret, op, active, mutex, list, thread, pr, pw, cl>>

ThreadEnters(j) ==
    /\ thread[j] = "work" /\ Enter(j)
    /\ UNCHANGED <<main, ret, op, active, mutex, pending, list, thread, pr, pw, cl>>

ThreadLeaves(j) ==
    /\ thread[j] = "work" /\ Leave(j)
    /\ UNCHANGED <<main, ret, op, active, mutex, pending, thread, pr, pw>>

Done(j) ==
    /\ thread[j] = "work" /\ list[j] = <<>>
    /\ pending' = [pending EXCEPT ![j] = 0]
    /\ thread' = [thread EXCEPT ![j] = "spin"]
    /\ UNCHANGED <<main, ret, op, active, mutex, list, busy, pr, pw, cl>>

Next == \/ \E c \in Clients : ReadEvent(c) \/ WriteEvent(c)
        \/ BeforeSleep \/ FanOutReads \/ FanOutWrites \/ Give
        \/ MainEnters \/ MainLeaves \/ SliceDone \/ FanIn \/ FanInRead \/ ReadsDone
        \/ LockThreads \/ SyncWrite \/ FreeClients
        \/ \E j \in Workers : \/ Spin(j) \/ Lock(j) \/ Unlock(j)
                              \/ ThreadEnters(j) \/ ThreadLeaves(j) \/ Done(j)

Spec == Init /\ [][Next]_vars

----------------------------------------------------------------------------
\* While an I/O thread is inside a client, the main thread gives work out or
\* waits, and io_threads_op says what to do: the event loop and the commands
\* never run beside a thread ("the main thread will never touch our list before
\* we drop the pending count to 0", IOThreadMain; its serverPanic, and the
\* serverAsserts on io_threads_op).
MainIsAlone ==
    \A j \in Workers : busy[j] # NoClient => main \in {"slice", "wait"} /\ op # "idle"

\* A freed client is in no queue and in no thread's list, also when it is freed
\* by another client's command in the middle of the fan-in.
FreedIsForgotten ==
    \A c \in Clients : ~cl[c].alive =>
        /\ ~Contains(pr, c) /\ ~Contains(pw, c)
        /\ \A j \in All : busy[j] # c /\ ~Contains(list[j], c)

\* When the server goes back to its event loop no reply is stranded: a client
\* with data to send is queued for writing or has a write handler; and no
\* command parsed by a thread is left over.
NothingStranded ==
    main = "events" =>
        \A c \in Clients : cl[c].alive =>
            /\ cl[c].out => cl[c].handler \/ Contains(pw, c)
            /\ ~cl[c].cmd

\* A thread that was given work is never parked on a mutex that the main thread
\* holds while the main thread waits for it: the two cannot wait for each other.
WorkIsNotParked ==
    \A j \in Workers : pending[j] # 0 => mutex[j] # 0
============================================================================
