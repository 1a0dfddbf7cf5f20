--------------------------- MODULE ConnectionWaiter ---------------------------
(***************************************************************************)
(* Attempts to connect without an SSH tunnel.  Each ConnectionWaiter has a   *)
(* thread that looks the host up, tries its addresses one after the other   *)
(* and waits for the first data; it sends the outcome to the main thread.   *)
(* There the user may cancel the attempt, which closes the socket under the *)
(* thread's hands, and start another one.                                   *)
(*                                                                         *)
(* The steps of a thread are its system calls and the sections in which it  *)
(* holds the lock; those of the main thread are whole handlers.  Socket     *)
(* descriptors are the process's: a new one is the smallest free number,    *)
(* and a number that was closed is soon someone else's.                     *)
(***************************************************************************)
EXTENDS Integers

CONSTANTS Waiters,          \* the attempts, one after the other
          MaxFd,            \* bound on the descriptors
          MaxAddresses      \* bound on the addresses of a host

ASSUME WaiterAssumption == MaxFd \in Nat /\ MaxAddresses \in Nat \ {0}

NoSock == -1
Fds == 0..MaxFd
Nobody == "nobody"
Elsewhere == "elsewhere"    \* a connection that was made, another window...
NoWaiter == "nil"

ASSUME NameAssumption == {Nobody, Elsewhere, NoWaiter} \cap Waiters = {}

VARIABLES
    pc,             \* where the thread of connect: is
    sock,           \* its local variable
    left,           \* addresses not tried yet
    delegate,       \* delegate # nil
    currentSock,
    inbox,          \* what the thread has sent to the main thread
    sheet,          \* the error sheet is up
    told,           \* the answer the delegate got
    waiter,         \* connectionWaiter of the ServerDataViewController
    owner,          \* who has opened the descriptor
    connected       \* connect() has succeeded on it

thread == <<pc, sock, left>>
vars == <<thread, delegate, currentSock, inbox, sheet, told, waiter, owner,
          connected>>

TypeOK ==
    /\ pc \in [Waiters -> {"idle", "lookup", "next", "register", "connect",
                           "failed", "poll", "done"}]
    /\ sock \in [Waiters -> Fds \cup {NoSock}]
    /\ left \in [Waiters -> 0..MaxAddresses]
    /\ delegate \in [Waiters -> BOOLEAN]
    /\ currentSock \in [Waiters -> Fds \cup {NoSock}]
    /\ inbox \in [Waiters -> {"empty", "error", "finish"}]
    /\ sheet \in [Waiters -> BOOLEAN]
    /\ told \in [Waiters -> {"nothing", "succeeded", "failed"}]
    /\ waiter \in Waiters \cup {NoWaiter}
    /\ owner \in [Fds -> Waiters \cup {Nobody, Elsewhere}]
    /\ connected \in [Fds -> BOOLEAN]

Init ==
    /\ pc = [w \in Waiters |-> "idle"] /\ sock = [w \in Waiters |-> NoSock]
    /\ left = [w \in Waiters |-> 0]
    /\ delegate = [w \in Waiters |-> FALSE]
    /\ currentSock = [w \in Waiters |-> NoSock]
    /\ inbox = [w \in Waiters |-> "empty"]
    /\ sheet = [w \in Waiters |-> FALSE]
    /\ told = [w \in Waiters |-> "nothing"]
    /\ waiter = NoWaiter
    /\ owner = [fd \in Fds |-> Nobody] /\ connected = [fd \in Fds |-> FALSE]

-----------------------------------------------------------------------------
(* Descriptors. *)

\* socket() or accept() returns fd to who.
Open(fd, who) ==
    /\ owner[fd] = Nobody /\ \A low \in 0..fd - 1 : owner[low] # Nobody
    /\ owner' = [owner EXCEPT ![fd] = who]
    /\ connected' = [connected EXCEPT ![fd] = FALSE]

Close(fd) ==
    /\ owner' = IF fd = NoSock THEN owner ELSE [owner EXCEPT ![fd] = Nobody]
    /\ UNCHANGED connected

\* The rest of the program.
OpenElsewhere == /\ \E fd \in Fds : Open(fd, Elsewhere)
                 /\ UNCHANGED <<thread, delegate, currentSock, inbox, sheet,
                                told, waiter>>
CloseElsewhere == /\ \E fd \in Fds : owner[fd] = Elsewhere /\ Close(fd)
                  /\ UNCHANGED <<thread, delegate, currentSock, inbox, sheet,
                                 told, waiter>>

-----------------------------------------------------------------------------
(* The thread. *)

Goto(w, label) == pc' = [pc EXCEPT ![w] = label]

\* performSelectorOnMainThread: is the last thing a thread does.
Report(w, message) == Goto(w, "done") /\ inbox' = [inbox EXCEPT ![w] = message]

main == <<delegate, sheet, told, waiter>>

\* getaddrinfo()
Lookup(w) ==
    /\ pc[w] = "lookup"
    /\ \/ Report(w, "error") /\ UNCHANGED left
       \/ /\ Goto(w, "next") /\ UNCHANGED inbox
          /\ \E n \in 1..MaxAddresses : left' = [left EXCEPT ![w] = n]
    /\ UNCHANGED <<sock, currentSock, main, owner, connected>>

\* Mutant: tries one address more than there are.
OpenSocketMutant(w) ==
    /\ pc[w] = "next" /\ left[w] >= 0
    /\ left' = [left EXCEPT ![w] = @ - 1]
    /\ \/ UNCHANGED <<pc, sock, owner, connected>>
       \/ /\ Goto(w, "register")
          /\ \E fd \in Fds : Open(fd, w) /\ sock' = [sock EXCEPT ![w] = fd]
    /\ UNCHANGED <<currentSock, inbox, main>>

\* socket() for the next address, which may fail.
OpenSocket(w) ==
    /\ pc[w] = "next" /\ left[w] > 0
    /\ left' = [left EXCEPT ![w] = @ - 1]
    /\ \/ UNCHANGED <<pc, sock, owner, connected>>
       \/ /\ Goto(w, "register")
          /\ \E fd \in Fds : Open(fd, w) /\ sock' = [sock EXCEPT ![w] = fd]
    /\ UNCHANGED <<currentSock, inbox, main>>

\* All addresses were tried.
Exhausted(w) ==
    /\ pc[w] = "next" /\ left[w] = 0
    /\ Report(w, "error")
    /\ UNCHANGED <<sock, left, currentSock, main, owner, connected>>

\* With the lock: makes the socket known to cancel, unless it has been called.
Register(w) ==
    /\ pc[w] = "register"
    /\ IF delegate[w]
       THEN /\ currentSock' = [currentSock EXCEPT ![w] = sock[w]]
            /\ Goto(w, "connect")
            /\ UNCHANGED <<inbox, owner, connected>>
       ELSE /\ Close(sock[w])
            /\ Report(w, "error")
            /\ UNCHANGED currentSock
    /\ UNCHANGED <<sock, left, main>>

\* connect() cannot succeed on what is closed or connected already.
Connect(w) ==
    /\ pc[w] = "connect"
    /\ \/ /\ owner[sock[w]] # Nobody /\ ~connected[sock[w]]
          /\ connected' = [connected EXCEPT ![sock[w]] = TRUE]
          /\ Goto(w, "poll")
       \/ Goto(w, "failed") /\ UNCHANGED connected
    /\ UNCHANGED <<sock, left, currentSock, inbox, main, owner>>

\* Mutant: cancel would still find the socket that was closed.
ConnectFailedMutant(w) ==
    /\ pc[w] = "failed"
    /\ IF delegate[w]
       THEN /\ Close(sock[w])
            /\ Goto(w, "next")
            /\ UNCHANGED <<currentSock, inbox>>
       ELSE /\ Report(w, "error")
            /\ UNCHANGED <<currentSock, owner, connected>>
    /\ UNCHANGED <<sock, left, main>>

\* With the lock: closes the socket, unless cancel has.
ConnectFailed(w) ==
    /\ pc[w] = "failed"
    /\ IF delegate[w]
       THEN /\ Close(sock[w])
            /\ currentSock' = [currentSock EXCEPT ![w] = NoSock]
            /\ Goto(w, "next")
            /\ UNCHANGED inbox
       ELSE /\ Report(w, "error")
            /\ UNCHANGED <<currentSock, owner, connected>>
    /\ UNCHANGED <<sock, left, main>>

\* waitForDataOn: poll() returns with data or on a closed descriptor, or
\* because the server hung up.
WaitForDataOn(w) ==
    /\ pc[w] = "poll"
    /\ \/ Report(w, "finish")
       \/ owner[sock[w]] # Nobody /\ Report(w, "error")
    /\ UNCHANGED <<sock, left, currentSock, main, owner, connected>>

-----------------------------------------------------------------------------
(* The main thread. *)

\* connectToServer: makes a waiter, whose init detaches the thread.
ConnectToServer(w) ==
    /\ waiter = NoWaiter /\ pc[w] = "idle"
    /\ waiter' = w
    /\ delegate' = [delegate EXCEPT ![w] = TRUE]
    /\ Goto(w, "lookup")
    /\ UNCHANGED <<sock, left, currentSock, inbox, sheet, told, owner,
                   connected>>

\* cancelConnect: and cancel, which has the lock.
CancelConnect(w) ==
    /\ waiter = w /\ waiter' = NoWaiter
    /\ delegate' = [delegate EXCEPT ![w] = FALSE]
    /\ Close(currentSock[w])
    /\ currentSock' = [currentSock EXCEPT ![w] = NoSock]
    /\ UNCHANGED <<thread, inbox, sheet, told>>

\* The delegate is told, and connectionAttemptEnded forgets the waiter.
Tell(w, answer) == /\ told' = [told EXCEPT ![w] = answer]
                   /\ waiter' = IF waiter = w THEN NoWaiter ELSE waiter

\* Mutant: does not ask whether the attempt was cancelled.
FinishConnectionMutant(w) ==
    /\ inbox[w] = "finish" /\ inbox' = [inbox EXCEPT ![w] = "empty"]
    /\ Tell(w, "succeeded")
    /\ owner' = IF currentSock[w] = NoSock THEN owner
                ELSE [owner EXCEPT ![currentSock[w]] = Elsewhere]
    /\ currentSock' = [currentSock EXCEPT ![w] = NoSock]
    /\ UNCHANGED <<thread, delegate, sheet, connected>>

\* The socket becomes the connection's.
FinishConnection(w) ==
    /\ inbox[w] = "finish" /\ inbox' = [inbox EXCEPT ![w] = "empty"]
    /\ IF delegate[w]
       THEN /\ Tell(w, "succeeded")
            /\ owner' = [owner EXCEPT ![currentSock[w]] = Elsewhere]
            /\ currentSock' = [currentSock EXCEPT ![w] = NoSock]
       ELSE UNCHANGED <<told, waiter, owner, currentSock>>
    /\ UNCHANGED <<thread, delegate, sheet, connected>>

\* Mutant: an error in looking the host up is kept from the user.
ShowErrorMutant(w) ==
    /\ inbox[w] = "error" /\ inbox' = [inbox EXCEPT ![w] = "empty"]
    /\ sheet' = [sheet EXCEPT ![w] = delegate[w] /\ sock[w] # NoSock]
    /\ UNCHANGED <<thread, delegate, currentSock, told, waiter, owner,
                   connected>>

\* lookupFailed:, connectionFailed:, serverClosed: all show an error.
ShowError(w) ==
    /\ inbox[w] = "error" /\ inbox' = [inbox EXCEPT ![w] = "empty"]
    /\ sheet' = [sheet EXCEPT ![w] = delegate[w]]
    /\ UNCHANGED <<thread, delegate, currentSock, told, waiter, owner,
                   connected>>

\* The user has read it.
ErrorDidEnd(w) ==
    /\ sheet[w] /\ sheet' = [sheet EXCEPT ![w] = FALSE]
    /\ IF delegate[w] THEN Tell(w, "failed") ELSE UNCHANGED <<told, waiter>>
    /\ UNCHANGED <<thread, delegate, currentSock, inbox, owner, connected>>

Thread(w) == \/ Lookup(w) \/ OpenSocket(w) \/ Exhausted(w) \/ Register(w)
             \/ Connect(w) \/ ConnectFailed(w) \/ WaitForDataOn(w)
Main(w) == FinishConnection(w) \/ ShowError(w)
User(w) == ConnectToServer(w) \/ CancelConnect(w) \/ ErrorDidEnd(w)

Next == \/ \E w \in Waiters : Thread(w) \/ Main(w) \/ User(w)
        \/ OpenElsewhere \/ CloseElsewhere

Spec == Init /\ [][Next]_vars

\* Threads run, but a host may be looked up, connected to or waited for as long
\* as it takes; the main thread gets to its messages.
Fairness ==
    \A w \in Waiters :
        /\ WF_vars(Register(w)) /\ WF_vars(OpenSocket(w) \/ Exhausted(w))
        /\ WF_vars(ConnectFailed(w)) /\ WF_vars(Main(w))

FairSpec == Spec /\ Fairness

-----------------------------------------------------------------------------
(* What must hold. *)

AttemptState ==
    [w \in Waiters |->
        IF told[w] # "nothing" THEN told[w]
        ELSE IF pc[w] = "idle" THEN "none"
        ELSE IF ~delegate[w] THEN "cancelled"
        ELSE IF sheet[w] THEN "error" ELSE "trying"]

Delegates == INSTANCE Attempts WITH attempt <- AttemptState

\* The delegate gets at most one answer, and none after cancel, which "prevents
\* any future messages to the delegate" (cancel, finishConnection,
\* error:message:).
AnswersOnce == Delegates!Spec

\* A descriptor is closed by those who opened it: neither cancel nor a thread
\* ever closes a number that has become someone else's (cancel, connect:).
ClosesOwn ==
    [][ \A fd \in Fds : owner[fd] # Nobody /\ owner'[fd] = Nobody =>
            IF owner[fd] = Elsewhere THEN UNCHANGED <<thread, delegate>>
            ELSE \/ pc'[owner[fd]] # pc[owner[fd]]
                 \/ delegate'[owner[fd]] # delegate[owner[fd]] ]_vars

\* Once it is cancelled, an attempt gives back its socket, wherever its thread
\* was (cancel, connect:).
CancelFreesSocket ==
    \A w \in Waiters : AttemptState[w] = "cancelled" ~>
        \A fd \in Fds : owner[fd] # w

\* When the thread ends, the user is told or shown something, unless he has
\* cancelled (connect:, waitForDataOn:), and then the socket is given back.
EndIsSeen ==
    /\ \A w \in Waiters :
          pc[w] = "done" ~> AttemptState[w] \notin {"none", "trying"}
    /\ CancelFreesSocket

\* currentSock is the "socket for current connect() attempt" (ConnectionWaiter.h):
\* a thread calls connect() on its own socket, or on none.
ConnectsOwnSocket ==
    \A w \in Waiters :
        pc[w] = "connect" => owner[sock[w]] \in {w, Nobody}

=============================================================================
