------------------------------- MODULE Handshake -------------------------------
(***************************************************************************)
(* The handshake of a connection: RFBConnection reads the version of the     *)
(* server and RFBHandshaker what comes before the first update, in one of    *)
(* three dialects of the protocol.                                          *)
(*                                                                         *)
(* Each action of the client is the handler of one message, whole; the       *)
(* server is one that speaks the version the client asks for, and that may   *)
(* close the connection at any time.                                        *)
(***************************************************************************)
EXTENDS Integers, Sequences

CONSTANTS Versions,     \* <<major, minor>> that servers announce
          Offers        \* the lists of authentication types they offer

ASSUME HandshakeAssumption ==
    /\ Versions \subseteq Nat \X Nat
    /\ \A v \in Versions : v[1] >= 3 /\ v[2] > 0
    /\ Offers \subseteq Seq({"none", "vnc", "ard", "other"}) \ {<<>>}

MinorVersion == 8           \* rfbProtocolMinorVersion
Apple == 889                \* what ARD announces: it speaks 3.7

NotVnc == <<0, 0>>          \* stands for what is no version

VARIABLES
    announced,      \* the server's version
    minor,          \* protocolMinorVersion, once the client has replied
    reader,         \* currentReader: the message the client reads next
    password,       \* password # nil
    challenged,     \* vncAuthChallenge # nil: the user is asked for it
    triedPassword,
    outcome,        \* of the handshake
    toClient, toServer,
    expects         \* what the server reads next

client == <<minor, reader, password, challenged, triedPassword, outcome>>
vars == <<announced, client, toClient, toServer, expects>>

Readers == {"version", "count", "types", "type", "challenge", "result",
            "reason", "init"}
Outcomes == {"none", "started", "refused", "terminated"}

\* A message and what it says.
Msg(type, value) == [type |-> type, value |-> value]

TypeOK ==
    /\ announced \in Versions \cup {NotVnc}
    /\ minor \in 0..MinorVersion
    /\ reader \in Readers /\ outcome \in Outcomes
    /\ password \in BOOLEAN /\ challenged \in BOOLEAN
    /\ triedPassword \in BOOLEAN
    /\ expects \in {"version", "choice", "response", "init", "nothing"}

Init ==
    /\ announced \in Versions \cup {NotVnc}
    /\ minor = 0 /\ reader = "version"
    /\ password \in BOOLEAN /\ challenged = FALSE
    /\ triedPassword = FALSE /\ outcome = "none"
    /\ toClient = <<Msg("version", announced)>> /\ toServer = <<>>
    /\ expects = "version"

-----------------------------------------------------------------------------
(* The server. *)

Closing == Msg("end", "")

ServerReads(type) ==
    /\ toServer # <<>> /\ Head(toServer).type = type /\ expects = type
    /\ toServer' = Tail(toServer)
    /\ UNCHANGED <<announced, client>>

Sends(messages, next) == /\ toClient' = toClient \o messages
                         /\ expects' = next

\* Before 3.7 the server decides upon the type.
ServerVersion ==
    /\ ServerReads("version")
    /\ IF Head(toServer).value >= 7
       THEN \/ Sends(<<Msg("count", 0), Msg("reason", ""), Closing>>, "nothing")
            \/ \E types \in Offers :
                  Sends(<<Msg("count", Len(types)), Msg("types", types)>>,
                        "choice")
       ELSE \/ Sends(<<Msg("type", "failed"), Msg("reason", ""), Closing>>,
                     "nothing")
            \/ Sends(<<Msg("type", "none")>>, "init")
            \/ Sends(<<Msg("type", "vnc"), Msg("challenge", "")>>, "response")
            \/ Sends(<<Msg("type", "other")>>, "nothing")

\* From 3.8 on a failure comes with a reason.
Verdict ==
    \/ Sends(<<Msg("result", "ok")>>, "init")
    \/ Sends(IF minor >= 8
             THEN <<Msg("result", "failed"), Msg("reason", ""), Closing>>
             ELSE <<Msg("result", "failed"), Closing>>, "nothing")

ServerChoice ==
    /\ ServerReads("choice")
    /\ LET choice == Head(toServer).value IN
       IF choice = "none"
       THEN IF minor >= 8 THEN Verdict ELSE Sends(<<>>, "init")
       ELSE IF choice = "vnc"
       THEN Sends(<<Msg("challenge", "")>>, "response")
       ELSE Sends(<<Closing>>, "nothing")

ServerResponse ==
    /\ ServerReads("response")
    /\ \/ Verdict
       \/ \E result \in {"tooMany", "other"} :
             Sends(<<Msg("result", result), Closing>>, "nothing")

ServerInit ==
    /\ ServerReads("init")
    /\ Sends(<<Msg("init", "")>>, "nothing")

ServerCloses ==
    /\ expects # "nothing"
    /\ Sends(<<Closing>>, "nothing")
    /\ UNCHANGED <<announced, client, toServer>>

-----------------------------------------------------------------------------
(* The client. *)

\* readData: hands the next message to the reader.
Reads(type) ==
    /\ outcome = "none" /\ reader = type
    /\ toClient # <<>> /\ Head(toClient).type = type
    /\ toClient' = Tail(toClient)
    /\ UNCHANGED <<announced, expects>>

Value == Head(toClient).value

ReadNext(type) == reader' = type /\ UNCHANGED outcome
EndAs(result) == outcome' = result /\ UNCHANGED reader
Terminate == EndAs("terminated")

Write(m) == toServer' = Append(toServer, m)
Silent == UNCHANGED toServer

\* authenticationFailed: asks for another password, terminateConnection: for
\* no more.
Refuse == IF triedPassword THEN EndAs("refused") ELSE Terminate

\* Mutant: takes the server's minor version, whatever its major one.
NegotiatedMutant(version) ==
    LET said == IF version[2] = Apple THEN 7 ELSE version[2] IN said

\* protocolMinorVersion, after setServerVersion: has corrected Apple's.
Negotiated(version) ==
    LET said == IF version[2] = Apple THEN 7 ELSE version[2]
    IN  IF version[1] > 3 \/ said > MinorVersion THEN MinorVersion ELSE said

\* setServerVersion: and handshake
SetServerVersion ==
    /\ Reads("version")
    /\ IF Value = NotVnc
       THEN Terminate /\ Silent /\ UNCHANGED minor
       ELSE /\ minor' = Negotiated(Value)
            /\ Write(Msg("version", minor'))
            /\ ReadNext(IF minor' >= 7 THEN "count" ELSE "type")
    /\ UNCHANGED <<password, challenged, triedPassword>>

SendClientInit == Write(Msg("init", "")) /\ ReadNext("init")

\* Mutant: a count of none is like any other.
SetAuthCountMutant ==
    /\ Reads("count") /\ ReadNext("types") /\ Silent
    /\ UNCHANGED <<minor, password, challenged, triedPassword>>

SetAuthCount ==
    /\ Reads("count")
    /\ ReadNext(IF Value = 0 THEN "reason" ELSE "types")
    /\ Silent
    /\ UNCHANGED <<minor, password, challenged, triedPassword>>

\* The first type it can handle, and the place of it among those offered.
Known(types) == {i \in DOMAIN types : types[i] \in {"none", "vnc"}}
FirstKnown(types) == CHOOSE i \in Known(types) :
                        \A j \in Known(types) : i <= j

\* Mutant: does not wait for the result, as if it spoke 3.7.
NoAuthNeededMutant(choice) ==
    /\ toServer' = toServer \o <<choice, Msg("init", "")>>
    /\ ReadNext("init")

\* No authentication: from 3.8 on its result comes before the client's init.
NoAuthNeeded(choice) ==
    IF minor >= 8
    THEN Write(choice) /\ ReadNext("result")
    ELSE /\ toServer' = toServer \o <<choice, Msg("init", "")>>
         /\ ReadNext("init")

SetAuthArray ==
    /\ Reads("types")
    /\ IF Known(Value) = {}
       THEN Write(Msg("choice", "invalid")) /\ Terminate
       ELSE LET type == Value[FirstKnown(Value)] IN
            IF type = "none" THEN NoAuthNeeded(Msg("choice", "none"))
            ELSE Write(Msg("choice", "vnc")) /\ ReadNext("challenge")
    /\ UNCHANGED <<minor, password, challenged, triedPassword>>

SetAuthType ==
    /\ Reads("type")
    /\ \/ Value = "failed" /\ ReadNext("reason") /\ Silent
       \/ Value = "none" /\ SendClientInit
       \/ Value = "vnc" /\ ReadNext("challenge") /\ Silent
       \/ Value = "other" /\ Terminate /\ Silent
    /\ UNCHANGED <<minor, password, challenged, triedPassword>>

Respond == /\ Write(Msg("response", "")) /\ ReadNext("result")
           /\ triedPassword' = TRUE

\* Without a password it keeps the challenge, and its reader.
Challenge ==
    /\ Reads("challenge")
    /\ IF password
       THEN Respond /\ UNCHANGED challenged
       ELSE /\ challenged' = TRUE
            /\ Silent /\ UNCHANGED <<reader, outcome, triedPassword>>
    /\ UNCHANGED <<minor, password>>

\* setPassword: from the session, and gotPassword
SetPassword ==
    /\ outcome = "none" /\ challenged
    /\ password' = TRUE /\ challenged' = FALSE
    /\ Respond
    /\ UNCHANGED <<announced, minor, toClient, expects>>

SetAuthResult ==
    /\ Reads("result")
    /\ \/ Value = "ok" /\ SendClientInit
       \/ /\ Value = "failed" /\ Silent
          /\ IF minor >= 8 THEN ReadNext("reason") ELSE Refuse
       \/ Value = "tooMany" /\ Silent /\ Terminate
       \/ Value = "other" /\ Silent /\ Refuse
    /\ UNCHANGED <<minor, password, challenged, triedPassword>>

ConnFailed ==
    /\ Reads("reason") /\ Refuse /\ Silent
    /\ UNCHANGED <<minor, password, challenged, triedPassword>>

\* setServerInit: starts the connection.
SetServerInit ==
    /\ Reads("init") /\ EndAs("started") /\ Silent
    /\ UNCHANGED <<minor, password, challenged, triedPassword>>

\* The server has closed: readData: terminates.
ServerClosed ==
    /\ outcome = "none"
    /\ toClient # <<>> /\ Head(toClient).type = "end"
    /\ toClient' = Tail(toClient)
    /\ Terminate /\ Silent
    /\ UNCHANGED <<announced, expects, minor, password, challenged,
                   triedPassword>>

Client == \/ SetServerVersion \/ SetAuthCount \/ SetAuthArray \/ SetAuthType
          \/ Challenge \/ SetAuthResult \/ ConnFailed \/ SetServerInit
          \/ ServerClosed
Server == \/ ServerVersion \/ ServerChoice \/ ServerResponse \/ ServerInit

Next == Client \/ Server \/ ServerCloses \/ SetPassword

Spec == Init /\ [][Next]_vars

\* What has arrived is read; a server that hears its client answers.
FairSpec == Spec /\ WF_vars(Client) /\ WF_vars(Server)

-----------------------------------------------------------------------------
(* What must hold. *)

\* The client reads every message as what it is, in each dialect
\* (handshake, setAuthArray:, setAuthResult:).
ClientInStep ==
    outcome = "none" /\ toClient # <<>> =>
        Head(toClient).type \in {reader, "end"}

\* So does the server, which never gets a response it has not asked for.
ServerInStep ==
    toServer # <<>> => expects \in {Head(toServer).type, "nothing"}

\* The user is asked for another password exactly when the server has refused
\* one: not when it refuses the client itself (triedPassword).
RefusedIsTried == outcome = "refused" => password /\ triedPassword

\* Neither side takes one message for another, nor the client a refusal of
\* itself for one of its password (readData:, connFailed:).
InStep == ClientInStep /\ ServerInStep /\ RefusedIsTried

\* The handshake comes to an end, unless it waits for the user.
HandshakeEnds == outcome = "none" ~> outcome # "none" \/ challenged

=============================================================================
