--------------------------- MODULE FIFOConnection ---------------------------
(***************************************************************************)
(* Connections of several processes to one named pipe (FIFOConnection.cpp, *)
(* and the Descriptor it reads and writes through).                        *)
(*                                                                         *)
(* A connection is used in two ways.  read_message and send_message open a *)
(* descriptor of their own for one message.  open_r, open_w and open_rw    *)
(* open the descriptor of the connection, which read and send use until    *)
(* close; opened without blocking, it never waits.                         *)
(*                                                                         *)
(* The FIFO exists throughout.  A message is its length: what is in a pipe *)
(* is so many bytes, of one message or of several, which the code does not *)
(* tell apart either.  The pipe itself, and how opening, reading and       *)
(* writing wait, is the kernel's.  A process does not die of SIGPIPE: a    *)
(* write that nobody can read throws.                                      *)
(***************************************************************************)
EXTENDS Integers

CONSTANTS
    Connections,        \* FIFOConnection objects, each in its own process
    MAX_MESSAGE_LEN,    \* the size of the buffer of a read
    Lengths,            \* the lengths of the messages that are sent
    PipeSize            \* how many bytes the pipe holds

ASSUME LengthAssumption == MAX_MESSAGE_LEN \in Nat /\ MAX_MESSAGE_LEN > 1
ASSUME LengthsAssumption == Lengths \subseteq 1 .. MAX_MESSAGE_LEN
ASSUME PipeAssumption   == PipeSize \in Nat /\ PipeSize >= MAX_MESSAGE_LEN

Modes == {"r", "w", "rw"}

\* Descriptors: the one of a connection, and the one of a call.
OwnFd(c)    == <<c, "m_fifo_fd">>
CallFd(c)   == <<c, "connection_fd">>
Descriptors == Connections \X {"m_fifo_fd", "connection_fd"}

VARIABLES
    \* the connections
    m_fifo_fd,      \* m_fifo_fd[c]: how c is open, or "none"
    nonblock,       \* nonblock[c]: is its descriptor O_NONBLOCK?
    m_is_blocking,  \* m_is_blocking[c]: what c remembers of it
    pc,             \* pc[c]: where c is in a call, or "idle"
    call,           \* call[c]: the call c makes, or "none"
    message,        \* message[c]: the length of the message it sends, or 0
    answer,         \* answer[c]: what its last call did
    text,           \* text[c]: how many bytes its last call read
    \* the pipe
    pipe,           \* how many bytes are in it
    readers,        \* the descriptors it is open for reading by
    writers,        \* the descriptors it is open for writing by
    met             \* waiting openers for which the other side has come

connVars == <<m_fifo_fd, nonblock, m_is_blocking>>
callVars == <<pc, call, message, answer, text>>
pipeVars == <<pipe, readers, writers, met>>
vars == <<connVars, callVars, pipeVars>>

Calls   == {"open", "read", "send", "read_message", "send_message"}
Answers == {"none", "done", "text", "empty", "thrown"}

TypeOK ==
    /\ m_fifo_fd     \in [Connections -> Modes \cup {"none"}]
    /\ nonblock      \in [Connections -> BOOLEAN]
    /\ m_is_blocking \in [Connections -> BOOLEAN]
    /\ pc            \in [Connections ->
                            {"idle", "opening", "reading", "writing", "closing"}]
    /\ call          \in [Connections -> Calls \cup {"none"}]
    /\ message       \in [Connections -> Lengths \cup {0}]
    /\ answer        \in [Connections -> Answers]
    /\ text          \in [Connections -> 0 .. MAX_MESSAGE_LEN - 1]
    /\ pipe          \in 0 .. PipeSize
    /\ readers       \in SUBSET Descriptors
    /\ writers       \in SUBSET Descriptors
    /\ met           \in SUBSET Connections

Init ==
    /\ m_fifo_fd     = [c \in Connections |-> "none"]
    /\ nonblock      = [c \in Connections |-> FALSE]
    /\ m_is_blocking = [c \in Connections |-> TRUE]
    /\ pc            = [c \in Connections |-> "idle"]
    /\ call          = [c \in Connections |-> "none"]
    /\ message       = [c \in Connections |-> 0]
    /\ answer        = [c \in Connections |-> "none"]
    /\ text          = [c \in Connections |-> 0]
    /\ pipe          = 0
    /\ readers       = {}
    /\ writers       = {}
    /\ met           = {}

-----------------------------------------------------------------------------
(* The kernel's side. *)

\* The descriptor a call of c reads or writes, and whether it may wait.
FdOf(c)  == IF call[c] \in {"read_message", "send_message"} THEN CallFd(c)
            ELSE OwnFd(c)
Waits(c) == FdOf(c) = CallFd(c) \/ ~nonblock[c]

\* c begins to open d: it counts as a reader or writer at once, and those who
\* wait for the other side have met it.
Opens(c, d, mode) ==
    /\ readers' = IF mode = "w" THEN readers ELSE readers \cup {d}
    /\ writers' = IF mode = "r" THEN writers ELSE writers \cup {d}
    /\ met' = met \cup
              {b \in Connections : /\ pc[b] = "opening"
                                   /\ \/ FdOf(b) \in readers /\ mode # "r"
                                      \/ FdOf(b) \in writers /\ mode # "w"}
    /\ UNCHANGED pipe

\* There is no other side yet.
Alone(mode) == (mode = "r" /\ writers = {}) \/ (mode = "w" /\ readers = {})

\* d is closed: nobody will get the bytes of a pipe that nobody has open.
Closes(d) ==
    /\ readers' = readers \ {d}
    /\ writers' = writers \ {d}
    /\ pipe' = IF readers \cup writers \subseteq {d} THEN 0 ELSE pipe
    /\ UNCHANGED met

-----------------------------------------------------------------------------
(* Opening and closing a connection. *)

Goto(c, q)   == pc' = [pc EXCEPT ![c] = q]
Answer(c, a) == answer' = [answer EXCEPT ![c] = a]

\* c makes call k with a message of length l (0: none), and goes on at q.
Begin(c, k, l, q) ==
    /\ pc[c] = "idle"
    /\ Goto(c, q)
    /\ call' = [call EXCEPT ![c] = k]
    /\ message' = [message EXCEPT ![c] = l]
    /\ Answer(c, "none")
    /\ text' = [text EXCEPT ![c] = 0]

\* A call of c that does not wait for anything is over with a.
AtOnce(c, a) ==
    /\ pc[c] = "idle"
    /\ Answer(c, a)
    /\ text' = [text EXCEPT ![c] = 0]
    /\ UNCHANGED <<pc, call, message>>

\* Mutant of Return: a call that throws leaves its descriptor open.
ReturnLeaks(c, a) ==
    /\ LET closes == FdOf(c) = CallFd(c) /\ a # "thrown"
       IN  /\ Goto(c, IF closes THEN "closing" ELSE "idle")
           /\ call' = [call EXCEPT ![c] = IF closes THEN @ ELSE "none"]
    /\ message' = [message EXCEPT ![c] = 0]
    /\ Answer(c, a)

\* Mutant of Return: the descriptor of the call stays open.
ReturnKeepsOpen(c, a) ==
    /\ Goto(c, "idle")
    /\ call' = [call EXCEPT ![c] = "none"]
    /\ message' = [message EXCEPT ![c] = 0]
    /\ Answer(c, a)

\* The call of c ends with a; read_message and send_message have their
\* descriptor to close first.
Return(c, a) ==
    /\ Goto(c, IF FdOf(c) = CallFd(c) THEN "closing" ELSE "idle")
    /\ call' = [call EXCEPT ![c] = IF FdOf(c) = CallFd(c) THEN @ ELSE "none"]
    /\ message' = [message EXCEPT ![c] = 0]
    /\ Answer(c, a)

\* Mutant of SetBlocking: the connection does not remember it.
SetBlockingForgets(c, block) ==
    /\ m_fifo_fd[c] = "none"
    /\ UNCHANGED m_is_blocking

\* What open_r, open_w and open_rw do before they open the descriptor:
\* m_is_blocking is never set back to true.
SetBlocking(c, block) ==
    /\ m_fifo_fd[c] = "none"
    /\ m_is_blocking' = [m_is_blocking EXCEPT ![c] = @ /\ block]

\* The connection is open at once, when it need not wait for the other side.
Open(c, mode, block) ==
    /\ ~Alone(mode) \/ (~block /\ mode = "r")
    /\ SetBlocking(c, block)
    /\ AtOnce(c, "done")
    /\ m_fifo_fd' = [m_fifo_fd EXCEPT ![c] = mode]
    /\ nonblock' = [nonblock EXCEPT ![c] = ~block]
    /\ Opens(c, OwnFd(c), mode)

\* It waits for the other side ...
OpenWaits(c, mode) ==
    /\ Alone(mode)
    /\ SetBlocking(c, TRUE)
    /\ Begin(c, "open", 0, "opening")
    /\ Opens(c, OwnFd(c), mode)
    /\ UNCHANGED <<m_fifo_fd, nonblock>>

\* ... or is refused, OpenFileIssue: there is nobody to write to (ENXIO).
OpenRefused(c) ==
    /\ Alone("w")
    /\ SetBlocking(c, FALSE)
    /\ AtOnce(c, "thrown")
    /\ UNCHANGED <<m_fifo_fd, nonblock, pipeVars>>

\* The other side has come: the descriptor of the connection is open, or that
\* of read_message or send_message is.
OpenDone(c) ==
    /\ pc[c] = "opening" /\ call[c] = "open"
    /\ c \in met
    /\ met' = met \ {c}
    /\ m_fifo_fd' = [m_fifo_fd EXCEPT ![c] =
                        IF OwnFd(c) \in readers THEN "r" ELSE "w"]
    /\ Return(c, "done")
    /\ UNCHANGED <<nonblock, m_is_blocking, text, pipe, readers, writers>>

CallOpenDone(c) ==
    /\ pc[c] = "opening" /\ call[c] # "open"
    /\ c \in met
    /\ met' = met \ {c}
    /\ Goto(c, IF call[c] = "read_message" THEN "reading" ELSE "writing")
    /\ UNCHANGED <<connVars, call, message, answer, text, pipe, readers, writers>>

Close(c) ==
    /\ m_fifo_fd[c] # "none"
    /\ AtOnce(c, "done")
    /\ m_fifo_fd' = [m_fifo_fd EXCEPT ![c] = "none"]
    /\ nonblock' = [nonblock EXCEPT ![c] = FALSE]
    /\ Closes(OwnFd(c))
    /\ UNCHANGED m_is_blocking

-----------------------------------------------------------------------------
(* Messages. *)

\* read and send use the descriptor of the connection ...
Read(c) ==
    /\ m_fifo_fd[c] # "none"
    /\ Begin(c, "read", 0, "reading")
    /\ UNCHANGED <<connVars, pipeVars>>

Send(c, l) ==
    /\ m_fifo_fd[c] # "none"
    /\ Begin(c, "send", l, "writing")
    /\ UNCHANGED <<connVars, pipeVars>>

\* ... read_message and send_message open one that waits.
ReadMessage(c) ==
    /\ Begin(c, "read_message", 0, IF Alone("r") THEN "opening" ELSE "reading")
    /\ Opens(c, CallFd(c), "r")
    /\ UNCHANGED connVars

SendMessage(c, l) ==
    /\ Begin(c, "send_message", l, IF Alone("w") THEN "opening" ELSE "writing")
    /\ Opens(c, CallFd(c), "w")
    /\ UNCHANGED connVars

\* Mutant of ReadSome: the buffer has no room left for the final null.
ReadFull(c) ==
    /\ pc[c] = "reading"
    /\ FdOf(c) \in readers
    /\ pipe > 0
    /\ LET n == IF pipe < MAX_MESSAGE_LEN THEN pipe ELSE MAX_MESSAGE_LEN
       IN  /\ text' = [text EXCEPT ![c] = n]
           /\ pipe' = pipe - n
    /\ Return(c, "text")
    /\ UNCHANGED <<connVars, readers, writers, met>>

\* A read returns what there is, as far as it fits: several messages at once,
\* if they are there, or the beginning of one that fills the buffer.
ReadSome(c) ==
    /\ pc[c] = "reading"
    /\ FdOf(c) \in readers
    /\ pipe > 0
    /\ LET n == IF pipe < MAX_MESSAGE_LEN THEN pipe ELSE MAX_MESSAGE_LEN - 1
       IN  /\ text' = [text EXCEPT ![c] = n]
           /\ pipe' = pipe - n
    /\ Return(c, "text")
    /\ UNCHANGED <<connVars, readers, writers, met>>

\* At the end of file a connection that remembers it is not blocking returns
\* the empty string.  Every other read tries again, which changes nothing.
ReadEmpty(c) ==
    /\ pc[c] = "reading"
    /\ call[c] = "read"
    /\ OwnFd(c) \in readers
    /\ pipe = 0 /\ writers = {}
    /\ ~m_is_blocking[c]
    /\ Return(c, "empty")
    /\ UNCHANGED <<connVars, text, pipeVars>>

\* The read fails, ReadIssue: nothing is there yet (EAGAIN), or the descriptor
\* is not for reading (EBADF).
ReadFails(c) ==
    /\ pc[c] = "reading"
    /\ \/ ~Waits(c) /\ pipe = 0 /\ writers # {}
       \/ FdOf(c) \notin readers
    /\ Return(c, "thrown")
    /\ UNCHANGED <<connVars, text, pipeVars>>

Room(c) == pipe + message[c] <= PipeSize

\* A message is short enough to be written at once.
WriteAll(c) ==
    /\ pc[c] = "writing"
    /\ FdOf(c) \in writers
    /\ readers # {} /\ Room(c)
    /\ pipe' = pipe + message[c]
    /\ Return(c, "done")
    /\ UNCHANGED <<connVars, text, readers, writers, met>>

\* The write fails, WriteIssue: nobody can read it (EPIPE), it does not fit now
\* (EAGAIN), or the descriptor is not for writing (EBADF).
WriteFails(c) ==
    /\ pc[c] = "writing"
    /\ \/ readers = {}
       \/ ~Waits(c) /\ ~Room(c)
       \/ FdOf(c) \notin writers
    /\ Return(c, "thrown")
    /\ UNCHANGED <<connVars, text, pipeVars>>

\* The destructor of the descriptor of read_message or send_message.
CloseCallFd(c) ==
    /\ pc[c] = "closing"
    /\ Goto(c, "idle")
    /\ call' = [call EXCEPT ![c] = "none"]
    /\ Closes(CallFd(c))
    /\ UNCHANGED <<connVars, message, answer, text>>

-----------------------------------------------------------------------------
\* What a connection does by itself once it is called.
Step(c) ==
    \/ OpenDone(c)
    \/ CallOpenDone(c)
    \/ ReadSome(c)
    \/ ReadEmpty(c)
    \/ ReadFails(c)
    \/ WriteAll(c)
    \/ WriteFails(c)
    \/ CloseCallFd(c)

Call(c) ==
    \/ \E mode \in Modes, block \in BOOLEAN : Open(c, mode, block)
    \/ \E mode \in Modes : OpenWaits(c, mode)
    \/ OpenRefused(c)
    \/ Close(c)
    \/ Read(c)
    \/ \E l \in Lengths : Send(c, l)
    \/ ReadMessage(c)
    \/ \E l \in Lengths : SendMessage(c, l)

Next == \E c \in Connections : Step(c) \/ Call(c)

Spec == Init /\ [][Next]_vars

\* A process is scheduled while it is in a call; it need not make calls.
Fairness == \A c \in Connections : WF_vars(Step(c))

FairSpec == Spec /\ Fairness

-----------------------------------------------------------------------------
(* Properties. *)

\* However calls and failures alternate, a connection that is not in a call
\* holds exactly the descriptor m_fifo_fd names, open for what it says: none is
\* leaked by an exception, and no process is left waiting for a ghost.
DescriptorsOwned ==
    \A c \in Connections : pc[c] = "idle" =>
        /\ CallFd(c) \notin readers \cup writers
        /\ OwnFd(c) \in readers <=> m_fifo_fd[c] \in {"r", "rw"}
        /\ OwnFd(c) \in writers <=> m_fifo_fd[c] \in {"w", "rw"}

\* read and send do not block on a connection that was opened without
\* blocking, whatever the others do with the FIFO.
NonBlockingReturns ==
    \A c \in Connections :
        pc[c] \in {"reading", "writing"} /\ ~Waits(c) ~> pc[c] = "idle"

\* A send_message that has met a reader ends, with the message in the pipe or
\* an exception, even if the pipe is full or the reader leaves; only a
\* connection that stays open for reading and does not read can stop it.
SendersServed ==
    \A c \in Connections :
        call[c] = "send_message" /\ pc[c] = "writing" ~>
            pc[c] = "idle" \/ \E b \in Connections : OwnFd(b) \in readers

\* What the documentation says of read: it blocks or not "depending on the way
\* the FIFO has been opened".  A FIFO opened to block gives no empty text.
EmptyOnlyWithoutBlocking ==
    \A c \in Connections :
        answer[c] = "empty" => nonblock[c]
=============================================================================
