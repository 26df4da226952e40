------------------------------- MODULE Server -------------------------------
(***************************************************************************)
(* The process around the calls of EpubService: main, which serves until a *)
(* signal arrives, lets the open streams drain, prints the counters once   *)
(* more and leaves, and what leaving takes.                                *)
(*                                                                         *)
(*   serving   before SIGINT or SIGTERM                                    *)
(*   draining  signalled; serve_with_shutdown waits for the connections    *)
(*   closed    it has returned; the final line is not printed yet           *)
(*   leaving   the line is printed, the runtime is being dropped           *)
(*   exited    the process is gone                                         *)
(*                                                                         *)
(* A connection is gone when each of its streams has ended or was reset.   *)
(* Until its clients have seen the server go away they may still open      *)
(* streams.  Dropping the runtime drops its tasks where they stand, but    *)
(* waits for the blocking threads, which are what runs a parse.            *)
(***************************************************************************)
EXTENDS EpubService

VARIABLES
    phase,   \* where serve stands
    line     \* the last line of counters, as printed on the way out

serverVars == <<phase, line>>
allVars == <<vars, serverVars>>

\* What of a call keeps its connection open: a response that has not ended,
\* or a handler that is still being dropped.
Streaming(c) ==
    \/ pc[c] # "idle" /\ end[c] = "open"
    \/ pc[c] \in {"unwinding", "unshared"}

ServerInit ==
    /\ Init
    /\ phase = "serving"
    /\ line = [started |-> 0, succeeded |-> 0, failed |-> 0]

\* What the runtime polls of a call: everything as long as connections are
\* served; after that what the clients left behind, until the runtime drops
\* its tasks; the parse thread to its end.
Polled(c) ==
    /\ \/ phase \in {"serving", "draining"} /\ Handler(c)
       \/ phase \in {"serving", "draining", "closed"} /\ Supervisor(c)
       \/ phase # "exited" /\ Parser(c)
    /\ UNCHANGED serverVars

\* What its client and the connection do.
Arriving(c) ==
    /\ phase \in {"serving", "draining"}
    /\ Connect(c) \/ Cancel(c) \/ Frame(c) \/ Client(c)
    /\ UNCHANGED serverVars

\* shutdown_signal resolves.
Signal ==
    /\ phase = "serving"
    /\ phase' = "draining"
    /\ UNCHANGED <<vars, line>>

\* Mutant: the open streams are cut.
Drained_Now ==
    /\ phase = "draining"
    /\ phase' = "closed"
    /\ UNCHANGED <<vars, line>>

\* serve_with_shutdown returns.
Drained ==
    /\ phase = "draining"
    /\ \A c \in Calls : ~Streaming(c)
    /\ phase' = "closed"
    /\ UNCHANGED <<vars, line>>

\* snapshot loads the counters one by one; parses_started rests by the time of
\* the final line, so their order makes no difference to it.
Snapshot ==
    [started |-> parses_started, succeeded |-> parses_succeeded, failed |-> parses_failed]

\* The counters are printed and main returns.
Return ==
    /\ phase = "closed"
    /\ phase' = "leaving"
    /\ line' = Snapshot
    /\ UNCHANGED vars

\* Mutant: the runtime waits for its tasks as well.
Exit_AfterTasks ==
    /\ phase = "leaving"
    /\ \A c \in Calls : pc[c] \in {"idle", "done"}
    /\ phase' = "exited"
    /\ UNCHANGED <<vars, line>>

\* The runtime is gone once no blocking thread runs any more.
Exit ==
    /\ phase = "leaving"
    /\ \A c \in Calls : pc[c] \notin InParse
    /\ phase' = "exited"
    /\ UNCHANGED <<vars, line>>

Shutdown == Drained \/ Return \/ Exit

ServerNext == Signal \/ Shutdown \/ \E c \in Calls : Polled(c) \/ Arriving(c)

ServerSpec == ServerInit /\ [][ServerNext]_allVars

\* A call's tasks are polled while there is a runtime, its parse thread runs
\* on until it returns, and main goes on as soon as it can.
FairServer ==
    /\ ServerSpec
    /\ \A c \in Calls : WF_allVars(Polled(c))
    /\ WF_allVars(Shutdown)

-----------------------------------------------------------------------------
(* Properties.                                                             *)

\* With clients that read, every call comes to its end and gives its slot
\* and its share back, those that waited in the slot queue and those that a
\* signal overtook included; only the process's own end comes before it.
EveryCallEnds ==
    ClientsRead => \A c \in Calls : pc[c] # "idle" ~> pc[c] = "done" \/ phase = "exited"

\* serve_with_shutdown drains the open streams "rather than cutting them
\* mid-book", and the clocks of an upload and of a stalled client bound how
\* long that takes: after a signal the process ends, if its clients read.
ShutdownCompletes == ClientsRead => (phase = "draining" ~> phase = "exited")

\* The counters printed on the way out account for every parse but those
\* whose client hung up: no other is still running, or not counted yet, when
\* the server says it has drained, and none ended without having started.
FinalLineTells ==
    line.started - line.succeeded - line.failed
        \in 0..Cardinality({c \in Calls : end[c] = "hungup"})
=============================================================================
