------------------------ MODULE FIFOConnectionProofs ------------------------
(***************************************************************************)
(* Proofs about FIFOConnection, for any number of connections, messages of *)
(* any lengths and a pipe of any size: no read overruns its buffer, and no *)
(* path through a call leaves a descriptor behind.                         *)
(*                                                                         *)
(* The invariant says which descriptor each point of each call holds, and  *)
(* when it has a message.                                                  *)
(***************************************************************************)
EXTENDS FIFOConnection, TLAPS

\* A call opens its own descriptor or uses that of the connection, holds it up
\* to its end, and has a message if it is to write one.
HoldInv ==
    \A c \in Connections :
        /\ call[c] = "none" <=> pc[c] = "idle"
        /\ pc[c] = "closing" => FdOf(c) = CallFd(c)
        /\ pc[c] = "opening" => call[c] \in {"open", "read_message", "send_message"}
        /\ CallFd(c) \in readers \cup writers => FdOf(c) = CallFd(c)
        /\ \/ pc[c] = "writing"
           \/ pc[c] = "opening" /\ call[c] = "send_message"
           => message[c] \in Lengths

Opening(c) == pc[c] = "opening" /\ call[c] = "open"

\* The descriptor of a connection is open for what m_fifo_fd says, and for one
\* side while the connection waits for the other.
OwnInv ==
    \A c \in Connections :
        /\ Opening(c) => /\ m_fifo_fd[c] = "none"
                         /\ OwnFd(c) \in readers <=> OwnFd(c) \notin writers
        /\ ~Opening(c) => /\ OwnFd(c) \in readers <=> m_fifo_fd[c] \in {"r", "rw"}
                          /\ OwnFd(c) \in writers <=> m_fifo_fd[c] \in {"w", "rw"}

FIFOInv == TypeOK /\ HoldInv /\ OwnInv

-----------------------------------------------------------------------------
\* Nobody has opened the FIFO at first.
LEMMA InitFIFO == Init => FIFOInv
<1> SUFFICES ASSUME Init PROVE FIFOInv
  OBVIOUS
<1>1. TypeOK
  BY LengthAssumption, PipeAssumption DEF Init, TypeOK, Modes, Answers
<1>2. HoldInv
  BY DEF Init, HoldInv
<1>3. OwnInv
  BY DEF Init, OwnInv, Opening
<1> QED
  BY <1>1, <1>2, <1>3 DEF FIFOInv

\* Every step keeps the types.
LEMMA TypeStep == FIFOInv /\ [Next]_vars => TypeOK'
<1> SUFFICES ASSUME FIFOInv PROVE [Next]_vars => TypeOK'
  OBVIOUS
<1> USE LengthAssumption, LengthsAssumption, PipeAssumption
        DEF FIFOInv, TypeOK, Answers, Calls, Modes, HoldInv, Descriptors, OwnFd, CallFd, FdOf
<1> USE DEF connVars, pipeVars
<1>1. ASSUME NEW c \in Connections, NEW mode \in Modes, NEW block \in BOOLEAN, Open(c, mode, block)
      PROVE  TypeOK'
  BY <1>1 DEF Open, SetBlocking, AtOnce, Answer, Opens
<1>2. ASSUME NEW c \in Connections, NEW mode \in Modes, OpenWaits(c, mode)
      PROVE  TypeOK'
  BY <1>2 DEF OpenWaits, SetBlocking, Begin, Goto, Answer, Opens, Alone
<1>3. ASSUME NEW c \in Connections, OpenRefused(c)
      PROVE  TypeOK'
  BY <1>3 DEF OpenRefused, SetBlocking, AtOnce, Answer
<1>4. ASSUME NEW c \in Connections, OpenDone(c)
      PROVE  TypeOK'
  BY <1>4 DEF OpenDone, Return, Goto, Answer
<1>5. ASSUME NEW c \in Connections, CallOpenDone(c)
      PROVE  TypeOK'
  BY <1>5 DEF CallOpenDone, Goto
<1>6. ASSUME NEW c \in Connections, Close(c)
      PROVE  TypeOK'
  BY <1>6 DEF Close, AtOnce, Answer, Closes
<1>7. ASSUME NEW c \in Connections, Read(c)
      PROVE  TypeOK'
  BY <1>7 DEF Read, Begin, Goto, Answer
<1>8. ASSUME NEW c \in Connections, NEW l \in Lengths, Send(c, l)
      PROVE  TypeOK'
  BY <1>8 DEF Send, Begin, Goto, Answer
<1>9. ASSUME NEW c \in Connections, ReadMessage(c)
      PROVE  TypeOK'
  BY <1>9 DEF ReadMessage, Begin, Goto, Answer, Opens
<1>10. ASSUME NEW c \in Connections, NEW l \in Lengths, SendMessage(c, l)
      PROVE  TypeOK'
  BY <1>10 DEF SendMessage, Begin, Goto, Answer, Opens
<1>11. ASSUME NEW c \in Connections, ReadSome(c)
      PROVE  TypeOK'
  <2> DEFINE n == IF pipe < MAX_MESSAGE_LEN THEN pipe ELSE MAX_MESSAGE_LEN - 1
  <2>1. /\ pipe > 0
        /\ text' = [text EXCEPT ![c] = n]
        /\ pipe' = pipe - n
    BY <1>11 DEF ReadSome
  <2>2. n \in 1 .. pipe /\ n < MAX_MESSAGE_LEN
    BY <2>1
  <2>3. pipe' \in 0 .. PipeSize /\ n \in 0 .. MAX_MESSAGE_LEN - 1
    BY <2>1, <2>2
  <2> HIDE DEF n
  <2> QED
    BY <1>11, <2>1, <2>3 DEF ReadSome, Return, Goto, Answer
<1>12. ASSUME NEW c \in Connections, ReadEmpty(c)
      PROVE  TypeOK'
  BY <1>12 DEF ReadEmpty, Return, Goto, Answer
<1>13. ASSUME NEW c \in Connections, ReadFails(c)
      PROVE  TypeOK'
  BY <1>13 DEF ReadFails, Return, Goto, Answer
<1>14. ASSUME NEW c \in Connections, WriteAll(c)
      PROVE  TypeOK'
  <2>1. message[c] \in Nat
    <3>1. message[c] \in Lengths
      BY <1>14 DEF WriteAll
    <3>2. ASSUME NEW l \in Lengths PROVE l \in Nat
      BY LengthAssumption, LengthsAssumption
    <3> QED
      BY <3>1, <3>2
  <2>2. pipe + message[c] \in 0 .. PipeSize
    BY <1>14, <2>1 DEF WriteAll, Room
  <2> QED
    BY <1>14, <2>2 DEF WriteAll, Return, Goto, Answer
<1>15. ASSUME NEW c \in Connections, WriteFails(c)
      PROVE  TypeOK'
  BY <1>15 DEF WriteFails, Return, Goto, Answer
<1>16. ASSUME NEW c \in Connections, CloseCallFd(c)
      PROVE  TypeOK'
  BY <1>16 DEF CloseCallFd, Goto, Closes
<1>17. ASSUME UNCHANGED vars PROVE TypeOK'
  BY <1>17 DEF vars, callVars
<1> HIDE DEF TypeOK, Answers, Calls, Modes, HoldInv, Descriptors, OwnFd, CallFd, FdOf
<1> QED
  BY <1>1, <1>2, <1>3, <1>4, <1>5, <1>6, <1>7, <1>8, <1>9, <1>10,
     <1>11, <1>12, <1>13, <1>14, <1>15, <1>16, <1>17
     DEF Next, Step, Call

\* Every step keeps what a call holds.
LEMMA HoldStep == FIFOInv /\ [Next]_vars => HoldInv'
<1> SUFFICES ASSUME FIFOInv PROVE [Next]_vars => HoldInv'
  OBVIOUS
<1> USE LengthAssumption, LengthsAssumption, PipeAssumption
        DEF FIFOInv, TypeOK, Answers, Calls, Modes, HoldInv, FdOf, OwnFd, CallFd
<1> USE DEF connVars, pipeVars
<1>1. ASSUME NEW c \in Connections, NEW mode \in Modes, NEW block \in BOOLEAN, Open(c, mode, block)
      PROVE  HoldInv'
  BY <1>1 DEF Open, SetBlocking, AtOnce, Answer, Opens
<1>2. ASSUME NEW c \in Connections, NEW mode \in Modes, OpenWaits(c, mode)
      PROVE  HoldInv'
  BY <1>2 DEF OpenWaits, SetBlocking, Begin, Goto, Answer, Opens, Alone
<1>3. ASSUME NEW c \in Connections, OpenRefused(c)
      PROVE  HoldInv'
  BY <1>3 DEF OpenRefused, SetBlocking, AtOnce, Answer
<1>4. ASSUME NEW c \in Connections, OpenDone(c)
      PROVE  HoldInv'
  BY <1>4 DEF OpenDone, Return, Goto, Answer
<1>5. ASSUME NEW c \in Connections, CallOpenDone(c)
      PROVE  HoldInv'
  BY <1>5 DEF CallOpenDone, Goto
<1>6. ASSUME NEW c \in Connections, Close(c)
      PROVE  HoldInv'
  BY <1>6 DEF Close, AtOnce, Answer, Closes
<1>7. ASSUME NEW c \in Connections, Read(c)
      PROVE  HoldInv'
  BY <1>7 DEF Read, Begin, Goto, Answer
<1>8. ASSUME NEW c \in Connections, NEW l \in Lengths, Send(c, l)
      PROVE  HoldInv'
  BY <1>8 DEF Send, Begin, Goto, Answer
<1>9. ASSUME NEW c \in Connections, ReadMessage(c)
      PROVE  HoldInv'
  BY <1>9 DEF ReadMessage, Begin, Goto, Answer, Opens
<1>10. ASSUME NEW c \in Connections, NEW l \in Lengths, SendMessage(c, l)
      PROVE  HoldInv'
  BY <1>10 DEF SendMessage, Begin, Goto, Answer, Opens
<1>11. ASSUME NEW c \in Connections, ReadSome(c)
      PROVE  HoldInv'
  BY <1>11 DEF ReadSome, Return, Goto, Answer
<1>12. ASSUME NEW c \in Connections, ReadEmpty(c)
      PROVE  HoldInv'
  BY <1>12 DEF ReadEmpty, Return, Goto, Answer
<1>13. ASSUME NEW c \in Connections, ReadFails(c)
      PROVE  HoldInv'
  BY <1>13 DEF ReadFails, Return, Goto, Answer
<1>14. ASSUME NEW c \in Connections, WriteAll(c)
      PROVE  HoldInv'
  BY <1>14 DEF WriteAll, Return, Goto, Answer
<1>15. ASSUME NEW c \in Connections, WriteFails(c)
      PROVE  HoldInv'
  BY <1>15 DEF WriteFails, Return, Goto, Answer
<1>16. ASSUME NEW c \in Connections, CloseCallFd(c)
      PROVE  HoldInv'
  BY <1>16 DEF CloseCallFd, Goto, Closes
<1>17. ASSUME UNCHANGED vars PROVE HoldInv'
  BY <1>17 DEF vars, callVars
<1> HIDE DEF TypeOK, Answers, Calls, Modes, HoldInv, FdOf, OwnFd, CallFd
<1> QED
  BY <1>1, <1>2, <1>3, <1>4, <1>5, <1>6, <1>7, <1>8, <1>9, <1>10,
     <1>11, <1>12, <1>13, <1>14, <1>15, <1>16, <1>17
     DEF Next, Step, Call

\* Every step keeps what a connection holds.
LEMMA OwnStep == FIFOInv /\ [Next]_vars => OwnInv'
<1> SUFFICES ASSUME FIFOInv PROVE [Next]_vars => OwnInv'
  OBVIOUS
<1> USE LengthAssumption, LengthsAssumption, PipeAssumption
        DEF FIFOInv, TypeOK, Answers, Calls, Modes, HoldInv, OwnInv, Opening, FdOf, OwnFd, CallFd
<1> USE DEF connVars, pipeVars
<1>1. ASSUME NEW c \in Connections, NEW mode \in Modes, NEW block \in BOOLEAN, Open(c, mode, block)
      PROVE  OwnInv'
  BY <1>1 DEF Open, SetBlocking, AtOnce, Answer, Opens
<1>2. ASSUME NEW c \in Connections, NEW mode \in Modes, OpenWaits(c, mode)
      PROVE  OwnInv'
  BY <1>2 DEF OpenWaits, SetBlocking, Begin, Goto, Answer, Opens, Alone
<1>3. ASSUME NEW c \in Connections, OpenRefused(c)
      PROVE  OwnInv'
  BY <1>3 DEF OpenRefused, SetBlocking, AtOnce, Answer
<1>4. ASSUME NEW c \in Connections, OpenDone(c)
      PROVE  OwnInv'
  BY <1>4 DEF OpenDone, Return, Goto, Answer
<1>5. ASSUME NEW c \in Connections, CallOpenDone(c)
      PROVE  OwnInv'
  BY <1>5 DEF CallOpenDone, Goto
<1>6. ASSUME NEW c \in Connections, Close(c)
      PROVE  OwnInv'
  BY <1>6 DEF Close, AtOnce, Answer, Closes
<1>7. ASSUME NEW c \in Connections, Read(c)
      PROVE  OwnInv'
  BY <1>7 DEF Read, Begin, Goto, Answer
<1>8. ASSUME NEW c \in Connections, NEW l \in Lengths, Send(c, l)
      PROVE  OwnInv'
  BY <1>8 DEF Send, Begin, Goto, Answer
<1>9. ASSUME NEW c \in Connections, ReadMessage(c)
      PROVE  OwnInv'
  BY <1>9 DEF ReadMessage, Begin, Goto, Answer, Opens
<1>10. ASSUME NEW c \in Connections, NEW l \in Lengths, SendMessage(c, l)
      PROVE  OwnInv'
  BY <1>10 DEF SendMessage, Begin, Goto, Answer, Opens
<1>11. ASSUME NEW c \in Connections, ReadSome(c)
      PROVE  OwnInv'
  BY <1>11 DEF ReadSome, Return, Goto, Answer
<1>12. ASSUME NEW c \in Connections, ReadEmpty(c)
      PROVE  OwnInv'
  BY <1>12 DEF ReadEmpty, Return, Goto, Answer
<1>13. ASSUME NEW c \in Connections, ReadFails(c)
      PROVE  OwnInv'
  BY <1>13 DEF ReadFails, Return, Goto, Answer
<1>14. ASSUME NEW c \in Connections, WriteAll(c)
      PROVE  OwnInv'
  BY <1>14 DEF WriteAll, Return, Goto, Answer
<1>15. ASSUME NEW c \in Connections, WriteFails(c)
      PROVE  OwnInv'
  BY <1>15 DEF WriteFails, Return, Goto, Answer
<1>16. ASSUME NEW c \in Connections, CloseCallFd(c)
      PROVE  OwnInv'
  BY <1>16 DEF CloseCallFd, Goto, Closes
<1>17. ASSUME UNCHANGED vars PROVE OwnInv'
  BY <1>17 DEF vars, callVars
<1> HIDE DEF TypeOK, Answers, Calls, Modes, HoldInv, OwnInv, Opening, FdOf, OwnFd, CallFd
<1> QED
  BY <1>1, <1>2, <1>3, <1>4, <1>5, <1>6, <1>7, <1>8, <1>9, <1>10,
     <1>11, <1>12, <1>13, <1>14, <1>15, <1>16, <1>17
     DEF Next, Step, Call

\* The invariant holds of every behaviour.
THEOREM FIFOInvariance == Spec => []FIFOInv
<1>1. FIFOInv /\ [Next]_vars => FIFOInv'
  BY TypeStep, HoldStep, OwnStep DEF FIFOInv
<1> QED
  BY InitFIFO, <1>1, PTL DEF Spec

-----------------------------------------------------------------------------
\* The variables have their types; no text overflows the buffer of a read.
THEOREM FIFOTypeCorrect == Spec => []TypeOK
<1>1. FIFOInv => TypeOK
  BY DEF FIFOInv
<1> QED
  BY <1>1, FIFOInvariance, PTL

\* Between calls a connection holds the descriptor m_fifo_fd names and no other.
THEOREM NoDescriptorLeaks == Spec => []DescriptorsOwned
<1>1. FIFOInv => DescriptorsOwned
  BY DEF FIFOInv, HoldInv, OwnInv, Opening, DescriptorsOwned, FdOf, CallFd, OwnFd
<1> QED
  BY <1>1, FIFOInvariance, PTL
=============================================================================
