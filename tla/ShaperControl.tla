--------------------------- MODULE ShaperControl ---------------------------
(***************************************************************************)
(* The shaper in a process of its own (scripts/process_tcp_shaper.py): the *)
(* stand's process asks over an inherited pipe, waits for one answer from  *)
(* a queue that a reader thread fills, and gives up after 30 seconds.  The *)
(* worker hosts a TcpShaper, answers in order, and may die at any time, or *)
(* be stuck: then it neither answers, nor exits, nor obeys a signal in     *)
(* time.  _close_process goes from one means to the next.                  *)
(***************************************************************************)
EXTENDS Sequences, Naturals

CONSTANTS Settings,     \* the rates the stand may ask for
          MaxAsks       \* bound on the requests of a run

ASSUME ControlAssumption == Settings \subseteq Nat \ {0} /\ MaxAsks \in Nat

VARIABLES parent,       \* "idle", "waiting", "broken"; then where the closing
                        \* is: "reaping", "closing", "terminating", "killing",
                        \* "joining"; at last "closed", or "failed" if it raised
          asked,        \* the requests written so far, oldest first
          served,       \* how many of them the worker has taken
          answers,      \* what the reader thread has queued, and the pipe
          taken,        \* history: <<request waited for, answer accepted>>
          set_rate,     \* _rate_bps of the parent
          worker_rate,  \* rate_bps of the worker's shaper
          process,      \* "alive"; "leaving" when it has answered the stop and
                        \* "failing" when it has reported a failure, "killed"
                        \* by the parent; "exited" (code 0) or "dead"
          eof_read,     \* the reader thread has queued WorkerEOF
          cached        \* _cached: 0, or the request whose answer it is

controlVars == <<parent, asked, served, answers, taken, set_rate, worker_rate,
                 process, eof_read, cached>>

Start == [op |-> "start"]
Stop == [op |-> "stop"]
Snapshot == [op |-> "snapshot"]
Rate(r) == [op |-> "rate", value |-> r]
Latest == asked[Len(asked)]
Gone == process \in {"exited", "dead"}

(* Popen, and the first request.                                           *)
ControlInit ==
    /\ parent = "waiting"
    /\ asked = <<Start>>
    /\ served = 0
    /\ answers = <<>>
    /\ taken = <<>>
    /\ set_rate = 0
    /\ worker_rate = 0
    /\ process = "alive"
    /\ eof_read = FALSE
    /\ cached = 0

-----------------------------------------------------------------------------
(* The stand's process.                                                    *)

(* A stand that has seen an error asks for nothing more than the stop.     *)
Asks(op) ==
    /\ cached = 0
    /\ Len(asked) < MaxAsks
    /\ \/ parent = "idle"
       \/ parent = "broken" /\ op = Stop /\ Latest # Start /\ Latest # Stop

(* The request is written; a dead worker breaks the pipe.                  *)
Ask(op) ==
    /\ Asks(op)
    /\ IF ~Gone
         THEN asked' = Append(asked, op) /\ parent' = "waiting"
         ELSE asked' = Append(asked, op) /\ parent' = IF op = Stop THEN "reaping" ELSE "broken"
    /\ UNCHANGED <<served, answers, taken, set_rate, worker_rate, process, eof_read, cached>>

(* Mutant: the parent notes the rate before it is acknowledged.            *)
AcceptRateAnyway ==
    /\ parent = "waiting"
    /\ answers # <<>>
    /\ LET a == Head(answers)
       IN /\ taken' = Append(taken, <<Len(asked), a.to>>)
          /\ set_rate' = IF Latest.op = "rate" THEN Latest.value ELSE set_rate
          /\ parent' = IF a.ok /\ Latest # Stop THEN "idle"
                       ELSE IF Latest \in {Start, Stop} THEN "reaping" ELSE "broken"
    /\ answers' = Tail(answers)
    /\ UNCHANGED <<asked, served, worker_rate, process, eof_read, cached>>

(* An answer is taken for the request that waits, whichever it belongs to. *)
Accept ==
    /\ parent = "waiting"
    /\ answers # <<>>
    /\ LET a == Head(answers)
       IN /\ taken' = Append(taken, <<Len(asked), a.to>>)
          /\ set_rate' = IF a.ok /\ Latest.op = "rate" THEN Latest.value ELSE set_rate
          /\ parent' = IF a.ok /\ Latest # Stop THEN "idle"
                       ELSE IF Latest \in {Start, Stop} THEN "reaping" ELSE "broken"
    /\ answers' = Tail(answers)
    /\ UNCHANGED <<asked, served, worker_rate, process, eof_read, cached>>

(* The 30-second deadline: no answer yet.  The request stays in the pipe.  *)
Deadline ==
    /\ parent = "waiting"
    /\ answers = <<>>
    /\ parent' = IF Latest \in {Start, Stop} THEN "reaping" ELSE "broken"
    /\ taken' = Append(taken, <<Len(asked), 0>>)
    /\ UNCHANGED <<asked, served, answers, set_rate, worker_rate, process, eof_read, cached>>

(* stop() waits five seconds for the exit of a worker that has answered.   *)
Answered == taken # <<>> /\ Latest = Stop /\ taken[Len(taken)][1] = Len(asked)
            /\ taken[Len(taken)][2] # 0

Moves(to) ==
    /\ parent' = to
    /\ UNCHANGED <<asked, served, answers, taken, set_rate, worker_rate, eof_read>>

(* The answer is kept only if the worker exits with code 0.                *)
Collect ==
    /\ parent = "reaping"
    /\ Answered /\ process = "exited"
    /\ cached' = taken[Len(taken)][2]
    /\ Moves("closing")
    /\ UNCHANGED process

(* No answer, another code or no exit in time: stop() raises, the finally  *)
(* closes the process.                                                     *)
GiveUp ==
    /\ parent = "reaping"
    /\ ~(Answered /\ process = "exited")
    /\ Moves("closing")
    /\ UNCHANGED <<process, cached>>

(* _close_process: poll, and SIGTERM for a worker that still runs.         *)
Terminate ==
    /\ parent = "closing"
    /\ Moves(IF Gone THEN "joining" ELSE "terminating")
    /\ UNCHANGED <<process, cached>>

(* Mutant: a worker that outlives the five seconds is left to its fate.    *)
KillNot ==
    /\ parent = "terminating"
    /\ ~Gone
    /\ Moves("joining")
    /\ UNCHANGED <<process, cached>>

(* The five seconds pass and it still runs: SIGKILL, after which it        *)
(* executes nothing any more.                                              *)
Kill ==
    /\ parent = "terminating"
    /\ ~Gone
    /\ process' = "killed"
    /\ Moves("killing")
    /\ UNCHANGED cached

(* A wait that returns: the process is gone, and its pipe is closed.       *)
WaitReturns ==
    /\ parent \in {"terminating", "killing"}
    /\ Gone
    /\ Moves("joining")
    /\ UNCHANGED <<process, cached>>

(* A killed process that is not gone in five seconds: the wait raises, and *)
(* neither the pipe nor the reader thread is closed.                       *)
KillWaitFails ==
    /\ parent = "killing"
    /\ ~Gone
    /\ Moves("failed")
    /\ UNCHANGED <<process, cached>>

(* The reader thread is joined for five seconds; it raises if it still     *)
(* runs.                                                                   *)
JoinReader ==
    /\ parent = "joining"
    /\ \/ eof_read /\ Moves("closed")
       \/ ~eof_read /\ Moves("failed")
    /\ UNCHANGED <<process, cached>>

-----------------------------------------------------------------------------
(* The worker.                                                             *)

Reply(ok) == answers' = Append(answers, [to |-> served + 1, ok |-> ok])

(* A request is served; the stop is answered and ends the loop.            *)
Serve ==
    /\ process = "alive"
    /\ served < Len(asked)
    /\ served' = served + 1
    /\ Reply(TRUE)
    /\ LET request == asked[served + 1]
       IN /\ worker_rate' = IF request.op = "rate" THEN request.value ELSE worker_rate
          /\ process' = IF request = Stop THEN "leaving" ELSE process
    /\ UNCHANGED <<parent, asked, taken, set_rate, eof_read, cached>>

(* The shaper did not start or did not stop: the worker reports and is on  *)
(* its way out, through the stop of its shaper once more.                  *)
ServeFails ==
    /\ process = "alive"
    /\ served < Len(asked)
    /\ asked[served + 1] \in {Start, Stop}
    /\ served' = served + 1
    /\ Reply(FALSE)
    /\ process' = "failing"
    /\ UNCHANGED <<parent, asked, taken, set_rate, worker_rate, eof_read, cached>>

(* The end of the interpreter, with code 0.                                *)
Exits ==
    /\ process = "leaving"
    /\ process' = "exited"
    /\ UNCHANGED <<parent, asked, served, answers, taken, set_rate, worker_rate, eof_read, cached>>

(* A failure of its own, or the signal: SIGTERM is not handled.            *)
Dies ==
    /\ ~Gone
    /\ process' = "dead"
    /\ UNCHANGED <<parent, asked, served, answers, taken, set_rate, worker_rate, eof_read, cached>>

(* The reader thread reaches the end of the pipe.                          *)
ReadEof ==
    /\ Gone
    /\ ~eof_read
    /\ eof_read' = TRUE
    /\ answers' = Append(answers, [to |-> 0, ok |-> FALSE])
    /\ UNCHANGED <<parent, asked, served, taken, set_rate, worker_rate, process, cached>>

(* The end of stop(), and _close_process.                                  *)
Closing == Collect \/ GiveUp \/ Terminate \/ Kill \/ WaitReturns \/ KillWaitFails \/ JoinReader

Parent ==
    \/ \E r \in Settings : Ask(Rate(r))
    \/ Ask(Snapshot)
    \/ Ask(Stop)
    \/ Accept
    \/ Deadline
    \/ Closing

Worker == Serve \/ ServeFails \/ Exits \/ Dies \/ ReadEof

ControlNext == Parent \/ Worker

ControlSpec == ControlInit /\ [][ControlNext]_controlVars

-----------------------------------------------------------------------------
(* Properties.                                                             *)

(* The rate the stand records for its measurement is one the worker has    *)
(* applied: it never believes in a limit the link does not have.           *)
RateWasApplied ==
    set_rate # 0 => \E i \in 1..served : asked[i] = Rate(set_rate)

(* However the closing went, also when it raises, no worker goes on        *)
(* shaping: it is gone or has been killed.  When it did not raise, the     *)
(* worker is gone and its last answer has been read.  And statistics are   *)
(* kept only of a worker that then exited with code 0: whatever signal the *)
(* closing sends afterwards can no longer have cut them short.             *)
NoOrphanWorker ==
    /\ parent = "failed" => Gone \/ process = "killed"
    /\ parent = "closed" => Gone /\ eof_read
    /\ cached # 0 => process = "exited"

(* An answer is never taken for another request: process_tcp_shaper.py:57  *)
(* says that old results are never accepted.                               *)
NoOldAnswer == \A i \in DOMAIN taken : taken[i][2] \in {0, taken[i][1]}
=============================================================================
