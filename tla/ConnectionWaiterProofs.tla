------------------------ MODULE ConnectionWaiterProofs ------------------------
(***************************************************************************)
(* For any number of attempts, addresses and descriptors, a ConnectionWaiter *)
(* keeps its promise (see Attempts), and closes only descriptors of its own. *)
(***************************************************************************)
EXTENDS ConnectionWaiter, TLAPS

\* A thread has sent its one message when it is done, the message leads to one
\* answer or one sheet, and the sheet to one answer; the controller knows only
\* attempts that were neither cancelled nor answered.
OneAnswer(w) ==
    /\ inbox[w] # "empty" => pc[w] = "done" /\ ~sheet[w] /\ told[w] = "nothing"
    /\ sheet[w] => pc[w] = "done" /\ told[w] = "nothing"
    /\ told[w] # "nothing" => pc[w] = "done"
    /\ waiter = w => delegate[w] /\ told[w] = "nothing" /\ pc[w] # "idle"

IInv == TypeOK /\ \A w \in Waiters : OneAnswer(w)

\* It holds at first.
LEMMA InitIInv == Init => IInv
  BY WaiterAssumption, NameAssumption
  DEF Init, IInv, TypeOK, OneAnswer, Fds, NoSock, NoWaiter, Nobody, Elsewhere

\* Opening and closing keep the types of the tables of descriptors.
LEMMA DescriptorTypes ==
  ASSUME TypeOK, NEW fd \in Fds \cup {NoSock}, NEW w \in Waiters \cup {Elsewhere},
         Close(fd) \/ (fd \in Fds /\ Open(fd, w)) \/ UNCHANGED <<owner, connected>>
  PROVE  /\ owner' \in [Fds -> Waiters \cup {Nobody, Elsewhere}]
         /\ connected' \in [Fds -> BOOLEAN]
  BY DEF TypeOK, Close, Open

\* The steps of a thread.
LEMMA ThreadTypes ==
  ASSUME IInv, NEW w \in Waiters, Thread(w)
  PROVE  TypeOK'
  <1>0. TypeOK BY DEF IInv
  <1>1. CASE Lookup(w)
    BY <1>0, <1>1, WaiterAssumption DEF TypeOK, Lookup, Report, Goto, main
  <1>2. CASE OpenSocket(w)
    <2>1. owner' \in [Fds -> Waiters \cup {Nobody, Elsewhere}]
          /\ connected' \in [Fds -> BOOLEAN]
      <3>1. CASE UNCHANGED <<pc, sock, owner, connected>>
        BY <1>0, <3>1 DEF TypeOK
      <3>2. CASE \E fd \in Fds : Open(fd, w)
        <4> PICK fd \in Fds : Open(fd, w) BY <3>2
        <4> QED BY <1>0, DescriptorTypes
      <3> QED BY <1>2, <3>1, <3>2 DEF OpenSocket
    <2>2. left' \in [Waiters -> 0..MaxAddresses]
      BY <1>0, <1>2, WaiterAssumption DEF OpenSocket, TypeOK
    <2>3. pc' \in [Waiters -> {"idle", "lookup", "next", "register", "connect",
                              "failed", "poll", "done"}]
          /\ sock' \in [Waiters -> Fds \cup {NoSock}]
      BY <1>0, <1>2 DEF OpenSocket, TypeOK, Goto
    <2> QED BY <1>0, <1>2, <2>1, <2>2, <2>3 DEF OpenSocket, TypeOK, main
  <1>3. CASE Exhausted(w)
    BY <1>0, <1>3 DEF TypeOK, Exhausted, Report, Goto, main
  <1>4. CASE Register(w)
    BY <1>0, <1>4 DEF TypeOK, Register, Report, Goto, main, Close
  <1>5. CASE Connect(w)
    BY <1>0, <1>5 DEF TypeOK, Connect, Goto, main
  <1>6. CASE ConnectFailed(w)
    BY <1>0, <1>6 DEF TypeOK, ConnectFailed, Report, Goto, main, Close
  <1>7. CASE WaitForDataOn(w)
    BY <1>0, <1>7 DEF TypeOK, WaitForDataOn, Report, Goto, main
  <1> QED BY <1>1, <1>2, <1>3, <1>4, <1>5, <1>6, <1>7 DEF Thread

\* What the steps of a thread change of what its delegate gets to know: the
\* message, with the last of them.
LEMMA ThreadChanges ==
  ASSUME IInv, NEW w \in Waiters, Thread(w)
  PROVE  /\ pc[w] \notin {"idle", "done"} /\ pc'[w] # "idle"
         /\ \A v \in Waiters \ {w} : pc'[v] = pc[v] /\ inbox'[v] = inbox[v]
         /\ inbox'[w] # inbox[w] => pc'[w] = "done"
         /\ UNCHANGED main
  <1> USE DEF IInv, TypeOK, Report, Goto, main
  <1>1. CASE Lookup(w) BY <1>1 DEF Lookup
  <1>2. CASE OpenSocket(w) BY <1>2 DEF OpenSocket
  <1>3. CASE Exhausted(w) BY <1>3 DEF Exhausted
  <1>4. CASE Register(w) BY <1>4 DEF Register
  <1>5. CASE Connect(w) BY <1>5 DEF Connect
  <1>6. CASE ConnectFailed(w) BY <1>6 DEF ConnectFailed
  <1>7. CASE WaitForDataOn(w) BY <1>7 DEF WaitForDataOn
  <1> QED BY <1>1, <1>2, <1>3, <1>4, <1>5, <1>6, <1>7 DEF Thread

\* The steps of a thread keep the invariant.
LEMMA ThreadStep ==
  ASSUME IInv, NEW w \in Waiters, Thread(w)
  PROVE  IInv'
  <1>1. TypeOK' BY ThreadTypes
  <1>2. ASSUME NEW v \in Waiters PROVE OneAnswer(v)'
    BY ThreadChanges DEF IInv, OneAnswer, main
  <1> QED BY <1>1, <1>2 DEF IInv

\* The controller starts and cancels attempts one after the other.
LEMMA UserStep ==
  ASSUME IInv, NEW w \in Waiters, User(w)
  PROVE  IInv'
  <1>0. TypeOK /\ \A v \in Waiters : OneAnswer(v) /\ v # NoWaiter
    BY NameAssumption DEF IInv
  <1>1. CASE ConnectToServer(w)
    <2>1. TypeOK' BY <1>0, <1>1 DEF TypeOK, ConnectToServer, Goto
    <2>2. ASSUME NEW v \in Waiters PROVE OneAnswer(v)'
      BY <1>0, <1>1 DEF TypeOK, ConnectToServer, Goto, OneAnswer
    <2> QED BY <2>1, <2>2 DEF IInv
  <1>2. CASE CancelConnect(w)
    <2>1. TypeOK' BY <1>0, <1>2 DEF TypeOK, CancelConnect, Close, thread
    <2>2. ASSUME NEW v \in Waiters PROVE OneAnswer(v)'
      BY <1>0, <1>2 DEF TypeOK, CancelConnect, thread, OneAnswer
    <2> QED BY <2>1, <2>2 DEF IInv
  <1>3. CASE ErrorDidEnd(w)
    <2>1. TypeOK' BY <1>0, <1>3 DEF TypeOK, ErrorDidEnd, Tell, thread
    <2>2. ASSUME NEW v \in Waiters PROVE OneAnswer(v)'
      BY <1>0, <1>3 DEF TypeOK, ErrorDidEnd, Tell, thread, OneAnswer
    <2> QED BY <2>1, <2>2 DEF IInv
  <1> QED BY <1>1, <1>2, <1>3 DEF User

\* A message from the thread leads to a sheet or an answer.
LEMMA MainStep ==
  ASSUME IInv, NEW w \in Waiters, Main(w)
  PROVE  IInv'
  <1>0. TypeOK /\ \A v \in Waiters : OneAnswer(v) /\ v # NoWaiter
    BY NameAssumption DEF IInv
  <1>1. CASE FinishConnection(w)
    <2>1. TypeOK' BY <1>0, <1>1 DEF TypeOK, FinishConnection, Tell, thread
    <2>2. ASSUME NEW v \in Waiters PROVE OneAnswer(v)'
      BY <1>0, <1>1 DEF TypeOK, FinishConnection, Tell, thread, OneAnswer
    <2> QED BY <2>1, <2>2 DEF IInv
  <1>2. CASE ShowError(w)
    <2>1. TypeOK' BY <1>0, <1>2 DEF TypeOK, ShowError, thread
    <2>2. ASSUME NEW v \in Waiters PROVE OneAnswer(v)'
      BY <1>0, <1>2 DEF TypeOK, ShowError, thread, OneAnswer
    <2> QED BY <2>1, <2>2 DEF IInv
  <1> QED BY <1>1, <1>2 DEF Main

\* What the rest of the program does with descriptors.
LEMMA ElsewhereStep ==
  ASSUME IInv, OpenElsewhere \/ CloseElsewhere
  PROVE  IInv'
  <1>1. TypeOK'
    <2>0. TypeOK BY DEF IInv
    <2>1. CASE OpenElsewhere
      <3> PICK fd \in Fds : Open(fd, Elsewhere) BY <2>1 DEF OpenElsewhere
      <3>1. owner' \in [Fds -> Waiters \cup {Nobody, Elsewhere}]
            /\ connected' \in [Fds -> BOOLEAN]
        BY <2>0, DescriptorTypes
      <3> QED BY <2>0, <2>1, <3>1 DEF TypeOK, OpenElsewhere, thread
    <2>2. CASE CloseElsewhere
      <3> PICK fd \in Fds : Close(fd) BY <2>2 DEF CloseElsewhere
      <3>1. owner' \in [Fds -> Waiters \cup {Nobody, Elsewhere}]
            /\ connected' \in [Fds -> BOOLEAN]
        BY <2>0, DescriptorTypes
      <3> QED BY <2>0, <2>2, <3>1 DEF TypeOK, CloseElsewhere, thread
    <2> QED BY <2>1, <2>2
  <1>2. ASSUME NEW v \in Waiters PROVE OneAnswer(v)'
    BY DEF IInv, OneAnswer, OpenElsewhere, CloseElsewhere, thread
  <1> QED BY <1>1, <1>2 DEF IInv

\* The invariant is inductive.
LEMMA NextIInv == IInv /\ [Next]_vars => IInv'
  <1> SUFFICES ASSUME IInv, [Next]_vars PROVE IInv' OBVIOUS
  <1>1. CASE \E w \in Waiters : Thread(w) BY <1>1, ThreadStep
  <1>2. CASE \E w \in Waiters : Main(w) BY <1>2, MainStep
  <1>3. CASE \E w \in Waiters : User(w) BY <1>3, UserStep
  <1>4. CASE OpenElsewhere \/ CloseElsewhere BY <1>4, ElsewhereStep
  <1>5. CASE UNCHANGED vars
    BY <1>5 DEF vars, thread, IInv, TypeOK, OneAnswer
  <1> QED BY <1>1, <1>2, <1>3, <1>4, <1>5 DEF Next

\* And so it always holds.
LEMMA Invariance == Spec => []IInv
  BY InitIInv, NextIInv, PTL DEF Spec

\* The variables keep their types, for any number of attempts.
THEOREM TypeCorrect == Spec => []TypeOK
  <1>1. IInv => TypeOK BY DEF IInv
  <1> QED BY Invariance, <1>1, PTL

-----------------------------------------------------------------------------
(* The refinement. *)

\* The step of one attempt, in terms of Attempts.
Advances(w, from, to) ==
    /\ AttemptState[w] = from /\ AttemptState'[w] = to
    /\ \A v \in Waiters \ {w} : AttemptState'[v] = AttemptState[v]

\* If the step is one of Attempts, so is that of the whole.
LEMMA AdvancesIsStep ==
  ASSUME NEW w \in Waiters, NEW from, NEW to \in Delegates!States,
         Advances(w, from, to), <<from, to>> \in Delegates!Steps
  PROVE  Delegates!Next
  <1>1. AttemptState' = [AttemptState EXCEPT ![w] = to]
    BY DEF Advances, AttemptState
  <1>2. Delegates!Step(w, to)
    BY <1>1 DEF Advances, Delegates!Step
  <1> QED BY <1>2 DEF Delegates!Next

\* What changes neither what the delegate was told nor the rest of what the
\* state of an attempt depends upon is a stutter.
LEMMA SameAttempts ==
  ASSUME \A w \in Waiters : AttemptState'[w] = AttemptState[w]
  PROVE  AttemptState' = AttemptState
  BY DEF AttemptState

\* A thread says nothing to the delegate by itself.
LEMMA ThreadRefines ==
  ASSUME IInv, NEW w \in Waiters, Thread(w)
  PROVE  AttemptState' = AttemptState
  <1>1. ASSUME NEW v \in Waiters PROVE AttemptState'[v] = AttemptState[v]
    BY ThreadChanges DEF AttemptState, main
  <1> QED BY <1>1, SameAttempts

\* The main thread shows an error or gives the answer.
LEMMA MainRefines ==
  ASSUME IInv, NEW w \in Waiters, Main(w)
  PROVE  [Delegates!Next]_AttemptState
  <1>0. TypeOK /\ \A v \in Waiters : OneAnswer(v) /\ v # NoWaiter
    BY NameAssumption DEF IInv
  <1> USE DEF OneAnswer, TypeOK, thread
  <1>1. CASE FinishConnection(w) /\ delegate[w]
    <2>1. Advances(w, "trying", "succeeded")
      BY <1>0, <1>1 DEF FinishConnection, Tell, AttemptState, Advances
    <2> QED BY <2>1, AdvancesIsStep DEF Delegates!Steps, Delegates!States
  <1>2. CASE FinishConnection(w) /\ ~delegate[w]
    <2>1. UNCHANGED <<told, delegate, pc, sheet>>
      BY <1>2 DEF FinishConnection
    <2> QED BY <2>1 DEF AttemptState
  <1>3. CASE ShowError(w) /\ delegate[w]
    <2>1. Advances(w, "trying", "error")
      BY <1>0, <1>3 DEF ShowError, AttemptState, Advances
    <2> QED BY <2>1, AdvancesIsStep DEF Delegates!Steps, Delegates!States
  <1>4. CASE ShowError(w) /\ ~delegate[w]
    <2>1. \A v \in Waiters : AttemptState'[v] = AttemptState[v]
      BY <1>0, <1>4 DEF ShowError, AttemptState
    <2> QED BY <2>1, SameAttempts
  <1> QED BY <1>1, <1>2, <1>3, <1>4 DEF Main

\* The user starts an attempt, cancels it or reads its error.
LEMMA UserRefines ==
  ASSUME IInv, NEW w \in Waiters, User(w)
  PROVE  [Delegates!Next]_AttemptState
  <1>0. TypeOK /\ \A v \in Waiters : OneAnswer(v) /\ v # NoWaiter
    BY NameAssumption DEF IInv
  <1> USE DEF OneAnswer, TypeOK, thread
  <1>1. CASE ConnectToServer(w)
    <2>1. Advances(w, "none", "trying")
      BY <1>0, <1>1 DEF ConnectToServer, Goto, AttemptState, Advances
    <2> QED BY <2>1, AdvancesIsStep DEF Delegates!Steps, Delegates!States
  <1>2. CASE CancelConnect(w)
    <2>1. \/ Advances(w, "trying", "cancelled")
          \/ Advances(w, "error", "cancelled")
      BY <1>0, <1>2 DEF CancelConnect, AttemptState, Advances
    <2> QED BY <2>1, AdvancesIsStep DEF Delegates!Steps, Delegates!States
  <1>3. CASE ErrorDidEnd(w) /\ delegate[w]
    <2>1. Advances(w, "error", "failed")
      BY <1>0, <1>3 DEF ErrorDidEnd, Tell, AttemptState, Advances
    <2> QED BY <2>1, AdvancesIsStep DEF Delegates!Steps, Delegates!States
  <1>4. CASE ErrorDidEnd(w) /\ ~delegate[w]
    <2>1. \A v \in Waiters : AttemptState'[v] = AttemptState[v]
      BY <1>0, <1>4 DEF ErrorDidEnd, AttemptState
    <2> QED BY <2>1, SameAttempts
  <1> QED BY <1>1, <1>2, <1>3, <1>4 DEF User

\* Every step of the waiters is one of Attempts, or none.
LEMMA NextRefines ==
  IInv /\ [Next]_vars => [Delegates!Next]_AttemptState
  <1> SUFFICES ASSUME IInv, [Next]_vars
               PROVE  [Delegates!Next]_AttemptState
    OBVIOUS
  <1>1. CASE \E w \in Waiters : Thread(w) BY <1>1, ThreadRefines
  <1>2. CASE \E w \in Waiters : Main(w) BY <1>2, MainRefines
  <1>3. CASE \E w \in Waiters : User(w) BY <1>3, UserRefines
  <1>4. CASE OpenElsewhere \/ CloseElsewhere
    BY <1>4 DEF OpenElsewhere, CloseElsewhere, thread, AttemptState
  <1>5. CASE UNCHANGED vars BY <1>5 DEF vars, thread, AttemptState
  <1> QED BY <1>1, <1>2, <1>3, <1>4, <1>5 DEF Next

\* For any number of attempts: the delegate gets at most one answer to each,
\* after its error was shown if it is a failure, and none after cancel.
THEOREM AnswersAtMostOnce == Spec => AnswersOnce
  <1>1. Init => Delegates!Init
    BY DEF Init, Delegates!Init, AttemptState
  <1> QED BY <1>1, Invariance, NextRefines, PTL
          DEF Spec, AnswersOnce, Delegates!Spec

-----------------------------------------------------------------------------
(* The descriptors. *)

\* currentSock is what cancel and the thread may close: a socket that the
\* thread has opened, and none while its socket is not registered.
Owning(w) ==
    /\ currentSock[w] # NoSock => owner[currentSock[w]] = w
    /\ pc[w] \in {"idle", "lookup", "next", "register"} => currentSock[w] = NoSock
    /\ pc[w] = "register" => sock[w] # NoSock /\ owner[sock[w]] = w
    /\ pc[w] \in {"connect", "failed"} /\ delegate[w] => currentSock[w] = sock[w]

OInv == IInv /\ \A w \in Waiters : Owning(w)

\* Who closes a descriptor, in one step.
Closed(fd) == owner[fd] # Nobody /\ owner'[fd] = Nobody
ClosesOwnStep ==
    \A fd \in Fds : Closed(fd) =>
        IF owner[fd] = Elsewhere THEN UNCHANGED <<thread, delegate>>
        ELSE \/ pc'[owner[fd]] # pc[owner[fd]]
             \/ delegate'[owner[fd]] # delegate[owner[fd]]

\* A step of w that touches no descriptor of others.
Leaves(w) ==
    /\ \A v \in Waiters \ {w} : /\ pc'[v] = pc[v] /\ sock'[v] = sock[v]
                                /\ currentSock'[v] = currentSock[v]
                                /\ delegate'[v] = delegate[v]
    /\ \A fd \in Fds : owner[fd] # w /\ owner[fd] # Nobody => owner'[fd] = owner[fd]
    /\ \A fd \in Fds : Closed(fd) => pc'[w] # pc[w] \/ delegate'[w] # delegate[w]

LEMMA LeavesOwn ==
  ASSUME OInv, NEW w \in Waiters, Leaves(w), Owning(w)'
  PROVE  (\A v \in Waiters : Owning(v)') /\ ClosesOwnStep
  <1>0. TypeOK /\ Nobody \notin Waiters /\ Elsewhere \notin Waiters
    BY NameAssumption DEF OInv, IInv, Nobody, Elsewhere
  <1>1. ASSUME NEW v \in Waiters \ {w} PROVE Owning(v)'
    <2>1. Owning(v) BY DEF OInv
    <2> QED BY <1>0, <2>1 DEF Leaves, Owning, TypeOK, NoSock
  <1>2. ClosesOwnStep
    BY <1>0 DEF Leaves, Closed, ClosesOwnStep, TypeOK
  <1> QED BY <1>1, <1>2

\* The steps of a thread.
LEMMA ThreadOwns ==
  ASSUME OInv, NEW w \in Waiters, Thread(w)
  PROVE  Leaves(w) /\ Owning(w)'
  <1>0. TypeOK /\ Owning(w) /\ Nobody \notin Waiters /\ Elsewhere \notin Waiters
        /\ Nobody # Elsewhere
    BY NameAssumption DEF OInv, IInv, Nobody, Elsewhere
  <1> USE DEF TypeOK, Report, Goto, main, Leaves, Closed, Owning
  <1>1. CASE Lookup(w) BY <1>0, <1>1 DEF Lookup
  <1>2. CASE OpenSocket(w)
    <2>1. CASE UNCHANGED <<pc, sock, owner, connected>>
      BY <1>0, <1>2, <2>1 DEF OpenSocket
    <2>2. CASE ~UNCHANGED <<pc, sock, owner, connected>>
      <3>1. PICK fd \in Fds : Open(fd, w) /\ sock' = [sock EXCEPT ![w] = fd]
        BY <1>2, <2>2 DEF OpenSocket
      <3>2. fd # NoSock
        BY DEF Fds, NoSock
      <3> QED BY <1>0, <1>2, <2>2, <3>1, <3>2 DEF OpenSocket, Open
    <2> QED BY <2>1, <2>2
  <1>3. CASE Exhausted(w) BY <1>0, <1>3 DEF Exhausted
  <1>4. CASE Register(w) BY <1>0, <1>4 DEF Register, Close
  <1>5. CASE Connect(w) BY <1>0, <1>5 DEF Connect
  <1>6. CASE ConnectFailed(w) BY <1>0, <1>6 DEF ConnectFailed, Close
  <1>7. CASE WaitForDataOn(w) BY <1>0, <1>7 DEF WaitForDataOn
  <1> QED BY <1>1, <1>2, <1>3, <1>4, <1>5, <1>6, <1>7 DEF Thread

\* Those of the main thread and of the user.
LEMMA MainOwns ==
  ASSUME OInv, NEW w \in Waiters, Main(w) \/ User(w)
  PROVE  Leaves(w) /\ Owning(w)'
  <1>0. TypeOK /\ Owning(w) /\ OneAnswer(w) /\ Nobody \notin Waiters
        /\ Elsewhere \notin Waiters /\ Nobody # Elsewhere
    BY NameAssumption DEF OInv, IInv, Nobody, Elsewhere
  <1> USE DEF TypeOK, thread, Tell, Leaves, Closed, Owning, OneAnswer
  <1>1. CASE FinishConnection(w)
    <2>1. NoSock \notin Fds
      BY DEF NoSock, Fds
    <2> QED BY <1>0, <1>1, <2>1 DEF FinishConnection
  <1>2. CASE ShowError(w) BY <1>0, <1>2 DEF ShowError
  <1>3. CASE ConnectToServer(w) BY <1>0, <1>3 DEF ConnectToServer, Goto
  <1>4. CASE CancelConnect(w) BY <1>0, <1>4 DEF CancelConnect, Close
  <1>5. CASE ErrorDidEnd(w) BY <1>0, <1>5 DEF ErrorDidEnd
  <1> QED BY <1>1, <1>2, <1>3, <1>4, <1>5 DEF Main, User

\* The rest of the program only closes what is its own.
LEMMA ElsewhereOwns ==
  ASSUME OInv, OpenElsewhere \/ CloseElsewhere
  PROVE  (\A v \in Waiters : Owning(v)') /\ ClosesOwnStep
  <1>0. TypeOK /\ Nobody \notin Waiters /\ Elsewhere \notin Waiters /\ Nobody # Elsewhere
    BY NameAssumption DEF OInv, IInv, Nobody, Elsewhere
  <1>1. /\ UNCHANGED <<thread, delegate, currentSock>>
        /\ \A fd \in Fds : owner[fd] \in Waiters => owner'[fd] = owner[fd]
        /\ \A fd \in Fds : Closed(fd) => owner[fd] = Elsewhere
    BY <1>0 DEF OpenElsewhere, CloseElsewhere, Open, Close, Closed, TypeOK
  <1>2. ASSUME NEW v \in Waiters PROVE Owning(v)'
    <2>1. Owning(v) BY DEF OInv
    <2> QED BY <1>0, <1>1, <2>1 DEF Owning, TypeOK, thread, NoSock
  <1>3. ClosesOwnStep
    BY <1>1 DEF ClosesOwnStep
  <1> QED BY <1>2, <1>3

LEMMA NextOwns == OInv /\ [Next]_vars => OInv' /\ [ClosesOwnStep]_vars
  <1> SUFFICES ASSUME OInv, [Next]_vars PROVE OInv' /\ [ClosesOwnStep]_vars
    OBVIOUS
  <1>1. IInv'
    BY NextIInv DEF OInv
  <1>2. CASE UNCHANGED vars
    BY <1>1, <1>2 DEF OInv, Owning, vars, thread
  <1>3. CASE Next
    <2>1. ASSUME NEW w \in Waiters, Thread(w) \/ Main(w) \/ User(w)
          PROVE  (\A v \in Waiters : Owning(v)') /\ ClosesOwnStep
      <3>1. Leaves(w) /\ Owning(w)'
        BY <2>1, ThreadOwns, MainOwns
      <3> QED BY <3>1, LeavesOwn
    <2>2. ASSUME OpenElsewhere \/ CloseElsewhere
          PROVE  (\A v \in Waiters : Owning(v)') /\ ClosesOwnStep
      BY <2>2, ElsewhereOwns
    <2>3. (\A v \in Waiters : Owning(v)') /\ ClosesOwnStep
      BY <1>3, <2>1, <2>2 DEF Next
    <2> QED BY <1>1, <2>3 DEF OInv
  <1> QED BY <1>2, <1>3

\* For any number of attempts and descriptors: whoever closes a descriptor has
\* opened it, whatever cancel meets the thread at and whatever the number has
\* become since (cancel, connect:).
THEOREM ClosesItsOwn == Spec => ClosesOwn
  <1>1. Init => OInv
    BY InitIInv DEF Init, OInv, Owning, NoSock
  <1> QED BY <1>1, NextOwns, PTL DEF Spec, ClosesOwn, ClosesOwnStep, Closed

=============================================================================
