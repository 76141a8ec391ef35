--------------------------- MODULE StdioTransport ----------------------------
(***************************************************************************)
(* One stdio connection: McpTransport with the child process it spawned,   *)
(* the lines it cuts out of the child's output, and the close that ends    *)
(* the child (connection/transport.ts, connection/filter.ts).              *)
(*                                                                         *)
(* The output is a sequence of units, a fixed part of MAX_LINE_BUFFER      *)
(* each: the line a unit is of, its place in it, whether it ends it.       *)
(* Every line is a JSON-RPC message; the noise that parseJsonRpcLine       *)
(* drops, the log of stderr and a failed spawn are left out.               *)
(***************************************************************************)
EXTENDS Naturals, Sequences, SequencesExt, FiniteSetsExt, Orders

CONSTANTS MaxBuffer, \* MAX_LINE_BUFFER, in units
          MaxLines,  \* bound: lines that the child writes
          MaxLength  \* bound: units of a line

ASSUME TransportAssumption == MaxBuffer \in Nat /\ MaxLines \in Nat /\ MaxLength \in Nat \ {0}

VARIABLES nextUnit,  \* the line and the place of the unit that the child writes next
          pipe,      \* written by the child and not read
          stdoutBuffer, \* the buffer of readStdout
          delivered, \* the lines that onmessage was called with
          spoiled,   \* history: the lines that an overflow may cost
          reading,   \* readStdout runs
          child,     \* running, killed (SIGKILL was sent) or exited
          closing,   \* open, eof and term (the two waits of close), closed
          reported   \* onclose was called

transportVars == <<nextUnit, pipe, stdoutBuffer, delivered, spoiled, reading, child, closing, reported>>

TransportInit ==
    /\ nextUnit = [line |-> 1, place |-> 1]
    /\ pipe = <<>> /\ stdoutBuffer = <<>> /\ delivered = <<>>
    /\ spoiled = {}
    /\ reading = TRUE
    /\ child = "running"
    /\ closing = "open"
    /\ reported = FALSE

Newlines(b) == {i \in DOMAIN b : b[i].last}
AfterLastNewline(b) == IF Newlines(b) = {} THEN b ELSE SubSeq(b, Max(Newlines(b)) + 1, Len(b))

\* Mutant: an overflow empties the buffer
KeptNone(b) == IF Len(b) > MaxBuffer THEN <<>> ELSE b

\* The guard against unbounded growth: what follows the last newline is kept, without one nothing
Kept(b) ==
    IF Len(b) <= MaxBuffer THEN b
    ELSE IF Newlines(b) = {} THEN <<>> ELSE AfterLastNewline(b)

\* The messages among the lines of b, in order: a line that lost its beginning is not JSON
Messages(b) ==
    LET whole == {i \in Newlines(b) : \E j \in 1..i : b[j].line = b[i].line /\ b[j].place = 1}
    IN  InOrder({b[i].line : i \in whole})

-------------------------------------------------------------------------------
\* The child writes one unit more of its output
WriteUnit(last) ==
    /\ child = "running"
    /\ nextUnit.line <= MaxLines
    /\ nextUnit.place = MaxLength => last
    /\ pipe' = Append(pipe, [line |-> nextUnit.line, place |-> nextUnit.place, last |-> last])
    /\ nextUnit' = IF last THEN [line |-> nextUnit.line + 1, place |-> 1]
                   ELSE [nextUnit EXCEPT !.place = @ + 1]
    /\ UNCHANGED <<stdoutBuffer, delivered, spoiled, reading, child, closing, reported>>

\* readStdout gets a chunk of any size, also what the child wrote before it exited
ReadChunk(n) ==
    LET b == stdoutBuffer \o SubSeq(pipe, 1, n)
        over == Len(b) > MaxBuffer
    IN
    /\ reading
    /\ n \in 1..Len(pipe)
    /\ pipe' = SubSeq(pipe, n + 1, Len(pipe))
    /\ delivered' = delivered \o Messages(Kept(b))
    /\ stdoutBuffer' = AfterLastNewline(Kept(b))
    /\ spoiled' = spoiled \cup
          (IF ~over THEN {} ELSE IF Newlines(b) = {} THEN {Last(b).line} ELSE {b[i].line : i \in Newlines(b)})
    /\ UNCHANGED <<nextUnit, reading, child, closing, reported>>

\* A read fails, or the output has ended: nobody but onerror is told
StopReading ==
    /\ reading
    /\ reading' = FALSE
    /\ UNCHANGED <<nextUnit, pipe, stdoutBuffer, delivered, spoiled, child, closing, reported>>

\* The child ends by itself, of end-of-file or SIGTERM, or must because it was killed
ChildExits ==
    /\ child # "exited"
    /\ child' = "exited"
    /\ UNCHANGED <<nextUnit, pipe, stdoutBuffer, delivered, spoiled, reading, closing, reported>>

\* monitorExit: an exit that no close has asked for is reported
MonitorExit ==
    /\ child = "exited" /\ closing = "open" /\ ~reported
    /\ reported' = TRUE
    /\ UNCHANGED <<nextUnit, pipe, stdoutBuffer, delivered, spoiled, reading, child, closing>>

-------------------------------------------------------------------------------
\* close: the readers are cancelled, the child's input is closed. A second caller returns at once,
\* before the first one's waits are over.
Close ==
    /\ closing = "open"
    /\ closing' = "eof"
    /\ reading' = FALSE
    /\ UNCHANGED <<nextUnit, pipe, stdoutBuffer, delivered, spoiled, child, reported>>

\* The child exits within one of the waits
CloseAnswered ==
    /\ closing \in {"eof", "term"}
    /\ child = "exited"
    /\ closing' = "closed"
    /\ reported' = TRUE
    /\ UNCHANGED <<nextUnit, pipe, stdoutBuffer, delivered, spoiled, reading, child>>

\* The first wait is over: SIGTERM, which the child may ignore
SendTerm ==
    /\ closing = "eof"
    /\ closing' = "term"
    /\ UNCHANGED <<nextUnit, pipe, stdoutBuffer, delivered, spoiled, reading, child, reported>>

\* Mutant: SIGTERM is the last resort
SendTermAgain ==
    /\ closing = "term"
    /\ closing' = "closed"
    /\ reported' = TRUE
    /\ UNCHANGED <<nextUnit, pipe, stdoutBuffer, delivered, spoiled, reading, child>>

\* The second wait is over: SIGKILL
SendKill ==
    /\ closing = "term"
    /\ child' = IF child = "exited" THEN "exited" ELSE "killed"
    /\ closing' = "closed"
    /\ reported' = TRUE
    /\ UNCHANGED <<nextUnit, pipe, stdoutBuffer, delivered, spoiled, reading>>

CloseStep == CloseAnswered \/ SendTerm \/ SendKill

TransportNext ==
    \/ \E last \in BOOLEAN : WriteUnit(last)
    \/ \E n \in 1..Len(pipe) : ReadChunk(n)
    \/ StopReading \/ ChildExits \/ MonitorExit \/ Close \/ CloseStep

\* The timers of close fire, an exit is noticed, and a killed child exits; others need not
TransportFairness ==
    /\ WF_transportVars(CloseStep) /\ WF_transportVars(MonitorExit)
    /\ WF_transportVars(child = "killed" /\ ChildExits)

TransportSpec == TransportInit /\ [][TransportNext]_transportVars /\ TransportFairness

-------------------------------------------------------------------------------
\* The lines of which the end was read
LinesRead == {k \in 1..MaxLines : k < (IF pipe = <<>> THEN nextUnit.line ELSE pipe[1].line)}

\* However the output is cut into chunks, a line that was read is delivered once and in order. What an
\* overflow may cost is the lines that end in the chunk which overflowed, and an overlong one: the
\* line under way is kept, and the ones after it come through (transport.ts 178-211).
FramesIntact == IsInOrder(delivered, LinesRead \ spoiled)

\* A child that was told to go is gone in the end, whatever it ignores, and its exit is reported, so
\* that no request waits for it (transport.ts 228-239, 275-326).
ChildEnds ==
    /\ closing = "eof" ~> child = "exited" /\ reported
    /\ child = "exited" ~> reported
==============================================================================
