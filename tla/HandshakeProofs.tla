---------------------------- MODULE HandshakeProofs ----------------------------
(***************************************************************************)
(* That client and server never take one message of the handshake for        *)
(* another, for any versions that servers announce and any lists of          *)
(* authentication types they offer.                                         *)
(*                                                                         *)
(* The invariant says which messages may follow which, and that only one     *)
(* side talks at a time, until the server has nothing more to hear.          *)
(***************************************************************************)
EXTENDS Handshake, SequenceTheorems, TLAPS

ServerMsg ==
    [type : {"version"}, value : Versions \cup {NotVnc}] \cup
    [type : {"count"}, value : Nat] \cup
    [type : {"types"}, value : Offers] \cup
    [type : {"type"}, value : {"failed", "none", "vnc", "other"}] \cup
    [type : {"result"}, value : {"ok", "failed", "tooMany", "other"}] \cup
    [type : {"challenge", "reason", "init", "end"}, value : {""}]

ClientMsg ==
    [type : {"version"}, value : 0..MinorVersion] \cup
    [type : {"choice"}, value : {"none", "vnc", "invalid"}] \cup
    [type : {"response", "init"}, value : {""}]

MessagesOK == toClient \in Seq(ServerMsg) /\ toServer \in Seq(ClientMsg)

\* n may come after m in what the server sends.
Follows(m, n) ==
    \/ m.type # "end" /\ n.type = "end"
    \/ m.type = "count" /\ n.type = IF m.value = 0 THEN "reason" ELSE "types"
    \/ m.type = "type" /\ m.value = "failed" /\ n.type = "reason"
    \/ m.type = "type" /\ m.value = "vnc" /\ n.type = "challenge"
    \/ m.type = "result" /\ m.value = "failed" /\ n.type = "reason" /\ minor >= 8

\* After m the server waits for the client to say what "next" names.
Asks(m, next) ==
    \/ m.type = "version" /\ next = "version"
    \/ m.type = "types" /\ next = "choice"
    \/ m.type = "challenge" /\ next = "response"
    \/ m.type = "type" /\ m.value = "none" /\ next = "init"
    \/ m.type = "result" /\ m.value = "ok" /\ next = "init"

\* What the client has said when the server still waits for it, and what the
\* client reads next.
Due ==
    \/ /\ toServer = <<Msg("version", minor)>> /\ expects = "version"
       /\ reader = IF minor >= 7 THEN "count" ELSE "type"
    \/ /\ toServer = <<Msg("choice", "none")>> /\ expects = "choice"
       /\ minor >= 8 /\ reader = "result"
    \/ /\ toServer = <<Msg("choice", "none"), Msg("init", "")>>
       /\ expects = "choice" /\ ~(minor >= 8) /\ reader = "init"
    \/ /\ toServer = <<Msg("choice", "vnc")>> /\ expects = "choice"
       /\ reader = "challenge"
    \/ /\ toServer = <<Msg("choice", "invalid")>> /\ expects = "choice"
       /\ outcome = "terminated"
    \/ /\ toServer = <<Msg("response", "")>> /\ expects = "response"
       /\ reader = "result"
    \/ /\ toServer = <<Msg("init", "")>> /\ expects = "init" /\ reader = "init"

Chain == \A i \in 1..Len(toClient) - 1 : Follows(toClient[i], toClient[i + 1])

\* Only one side talks, as long as the server will hear what the client says.
Conversing ==
    expects # "nothing" =>
        /\ \A i \in 1..Len(toClient) : toClient[i].type # "end"
        /\ toClient # <<>> =>
              toServer = <<>> /\ Asks(toClient[Len(toClient)], expects)
        /\ toServer # <<>> => Due

\* While the user is asked for a password, the server can only hang up.
Waiting ==
    outcome = "none" /\ challenged =>
        /\ reader = "challenge"
        /\ \A i \in 1..Len(toClient) : toClient[i].type = "end"
        /\ expects \in {"response", "nothing"}
        /\ expects = "response" => toServer = <<>>

Tried == triedPassword => password

IInv == /\ TypeOK /\ MessagesOK /\ ClientInStep /\ Chain /\ Conversing
        /\ Waiting /\ Tried /\ RefusedIsTried

-----------------------------------------------------------------------------
(* Messages. *)

LEMMA TailProperties ==
    ASSUME NEW S, NEW q \in Seq(S), q # <<>>
    PROVE  /\ Head(q) \in S /\ Head(q) = q[1] /\ Tail(q) \in Seq(S)
           /\ Len(q) \in Nat /\ Len(Tail(q)) \in Nat
           /\ Len(q) = Len(Tail(q)) + 1
           /\ \A i \in 1..Len(Tail(q)) : Tail(q)[i] = q[i + 1]
           /\ Tail(q) = <<>> => Len(q) = 1
           /\ Tail(q) # <<>> => Len(Tail(q)) > 0 /\ Head(Tail(q)) = q[2]
<1>1. /\ Head(q) \in S /\ Head(q) = q[1] /\ Tail(q) \in Seq(S)
      /\ Len(q) \in Nat /\ Len(Tail(q)) = Len(q) - 1 /\ Len(q) # 0
      /\ \A i \in 1..Len(Tail(q)) : Tail(q)[i] = q[i + 1]
  BY HeadTailProperties, EmptySeq, LenProperties
<1>2. Len(Tail(q)) \in Nat /\ (Tail(q) # <<>> => Len(Tail(q)) > 0)
  BY <1>1, LenProperties, EmptySeq
<1>3. Tail(q) # <<>> => Head(Tail(q)) = Tail(q)[1]
  BY <1>1, HeadTailProperties
<1>4. Tail(q) # <<>> => Head(Tail(q)) = q[2]
  <2>1. Tail(q) # <<>> => 1 \in 1..Len(Tail(q)) /\ 1 + 1 = 2
    BY <1>2
  <2> QED BY <1>1, <1>3, <2>1
<1>5. Len(q) = Len(Tail(q)) + 1
  BY <1>1
<1>6. Tail(q) = <<>> => Len(q) = 1
  <2>1. Len(<<>>) = 0 /\ 0 + 1 = 1
    OBVIOUS
  <2> QED BY <1>5, <2>1, Zenon
<1> QED BY <1>1, <1>2, <1>4, <1>5, <1>6

LEMMA PairIsSeq ==
    ASSUME NEW S, NEW a \in S, NEW b \in S
    PROVE  <<a, b>> \in Seq(S)
OBVIOUS

LEMMA ServerMsgType ==
    ASSUME NEW m \in ServerMsg
    PROVE  /\ m.type \in {"version", "count", "types", "type", "result",
                          "challenge", "reason", "init", "end"}
           /\ m.type = "version" => m.value \in Versions \cup {NotVnc}
           /\ m.type = "count" => m.value \in Nat
           /\ m.type = "types" => m.value \in Offers
           /\ m.type = "type" => m.value \in {"failed", "none", "vnc", "other"}
           /\ m.type = "result" => m.value \in {"ok", "failed", "tooMany", "other"}
BY DEF ServerMsg

LEMMA ClientMsgs ==
    /\ \A n \in 0..MinorVersion : Msg("version", n) \in ClientMsg
    /\ \A x \in {"none", "vnc", "invalid"} : Msg("choice", x) \in ClientMsg
    /\ \A x \in {"response", "init"} : Msg(x, "") \in ClientMsg
BY DEF ClientMsg, Msg

\* The client reads the first message.
Took == /\ outcome = "none" /\ toClient # <<>> /\ toClient' = Tail(toClient)
        /\ UNCHANGED <<announced, expects>>

\* Nothing follows m, unless the server hangs up.
Final(m) == \A n : Follows(m, n) => n.type = "end"

LEMMA TookRest ==
    ASSUME IInv, Took
    PROVE  LET m == Head(toClient) IN
           /\ m \in ServerMsg /\ toClient' \in Seq(ServerMsg)
           /\ m.type \in {reader, "end"}
           /\ \A i \in 1..Len(toClient') - 1 :
                 Follows(toClient'[i], toClient'[i + 1])
           /\ toClient' # <<>> => Follows(m, Head(toClient'))
           /\ expects # "nothing" =>
                 /\ toServer = <<>> /\ m.type # "end"
                 /\ \A i \in 1..Len(toClient') : toClient'[i].type # "end"
                 /\ IF toClient' = <<>> THEN Asks(m, expects)
                    ELSE Asks(toClient'[Len(toClient')], expects)
           /\ Final(m) =>
                 /\ \A i \in 1..Len(toClient') : toClient'[i].type = "end"
                 /\ Len(toClient') <= 1
                 /\ expects # "nothing" => toClient' = <<>>
<1> DEFINE m == Head(toClient)
           q == Tail(toClient)
<1>1. toClient \in Seq(ServerMsg) /\ toClient # <<>> /\ toClient' = q
  BY DEF IInv, MessagesOK, Took
<1>2. /\ m \in ServerMsg /\ m = toClient[1] /\ q \in Seq(ServerMsg)
      /\ Len(toClient) \in Nat /\ Len(q) \in Nat /\ Len(toClient) = Len(q) + 1
      /\ \A i \in 1..Len(q) : q[i] = toClient[i + 1]
      /\ q = <<>> => Len(toClient) = 1
      /\ q # <<>> => Len(q) > 0 /\ Head(q) = toClient[2]
  BY <1>1, TailProperties
<1>3. m.type \in {reader, "end"}
  BY <1>1 DEF IInv, ClientInStep, Took
<1> HIDE DEF m, q
<1>4. \A i \in 1..Len(q) - 1 : Follows(q[i], q[i + 1])
  <2>1. ASSUME NEW i \in 1..Len(q) - 1
        PROVE  Follows(q[i], q[i + 1])
    <3>1. i + 1 \in 1..Len(toClient) - 1 /\ i \in 1..Len(q) /\ i + 1 \in 1..Len(q)
      BY <1>2, <2>1
    <3>2. Follows(toClient[i + 1], toClient[(i + 1) + 1])
      BY <3>1 DEF IInv, Chain
    <3> QED BY <1>2, <3>1, <3>2
  <2> QED BY <2>1
<1>5. q # <<>> => Follows(m, Head(q))
  <2>1. q # <<>> => 1 \in 1..Len(toClient) - 1 /\ 1 + 1 = 2
    BY <1>2
  <2> QED BY <1>2, <2>1 DEF IInv, Chain
<1>6. expects # "nothing" =>
          /\ toServer = <<>> /\ m.type # "end"
          /\ \A i \in 1..Len(q) : q[i].type # "end"
          /\ IF q = <<>> THEN Asks(m, expects) ELSE Asks(q[Len(q)], expects)
  <2>1. SUFFICES ASSUME expects # "nothing"
                 PROVE  /\ toServer = <<>> /\ m.type # "end"
                        /\ \A i \in 1..Len(q) : q[i].type # "end"
                        /\ IF q = <<>> THEN Asks(m, expects)
                                       ELSE Asks(q[Len(q)], expects)
    OBVIOUS
  <2>2. /\ \A i \in 1..Len(toClient) : toClient[i].type # "end"
        /\ toServer = <<>> /\ Asks(toClient[Len(toClient)], expects)
    BY <1>1, <2>1 DEF IInv, Conversing
  <2>3. m.type # "end" /\ \A i \in 1..Len(q) : q[i].type # "end"
    BY <1>2, <2>2
  <2>4. q # <<>> => Len(q) \in 1..Len(q) /\ q[Len(q)] = toClient[Len(toClient)]
    BY <1>2
  <2> QED BY <1>2, <2>2, <2>3, <2>4
<1>7. Final(m) => /\ \A i \in 1..Len(q) : q[i].type = "end"
                  /\ Len(q) <= 1
                  /\ expects # "nothing" => q = <<>>
  <2>1. SUFFICES ASSUME Final(m), q # <<>>
                 PROVE  /\ \A i \in 1..Len(q) : q[i].type = "end"
                        /\ Len(q) <= 1
                        /\ expects = "nothing"
    BY <1>2
  <2>2. q[1] = Head(q) /\ 1 \in 1..Len(q)
    BY <1>2, <2>1
  <2>3. q[1].type = "end"
    BY <1>5, <2>1, <2>2 DEF Final
  <2>4. Len(q) <= 1
    <3>1. SUFFICES ASSUME ~(Len(q) <= 1) PROVE FALSE
      OBVIOUS
    <3>2. Follows(q[1], q[1 + 1])
      BY <1>2, <1>4, <3>1
    <3> QED BY <2>3, <3>2 DEF Follows
  <2>5. \A i \in 1..Len(q) : i = 1
    BY <1>2, <2>4
  <2> QED BY <1>6, <2>2, <2>3, <2>4, <2>5
<1> QED BY <1>1, <1>2, <1>3, <1>4, <1>5, <1>6, <1>7 DEF m, q

-----------------------------------------------------------------------------
(* The client. *)

LEMMA InvParts ==
    ASSUME IInv
    PROVE  /\ announced \in Versions \cup {NotVnc} /\ minor \in 0..MinorVersion
           /\ reader \in Readers /\ outcome \in Outcomes
           /\ password \in BOOLEAN /\ challenged \in BOOLEAN
           /\ triedPassword \in BOOLEAN
           /\ expects \in {"version", "choice", "response", "init", "nothing"}
           /\ toClient \in Seq(ServerMsg) /\ toServer \in Seq(ClientMsg)
BY DEF IInv, TypeOK, MessagesOK

LEMMA NextHead ==
    ASSUME IInv, Took, outcome' = "none" => \A n :
              Follows(Head(toClient), n) => n.type \in {reader', "end"}
    PROVE  ClientInStep'
<1>1. SUFFICES ASSUME outcome' = "none", toClient' # <<>>
               PROVE  Head(toClient').type \in {reader', "end"}
  BY DEF ClientInStep
<1>2. Follows(Head(toClient), Head(toClient'))
  BY <1>1, TookRest, Zenon
<1> QED BY <1>1, <1>2

\* A message after which the client reads another one.
LEMMA ReadsOn ==
    ASSUME IInv, Took, UNCHANGED <<minor, password, challenged, triedPassword>>,
           UNCHANGED <<outcome, toServer>>, reader' \in Readers,
           Head(toClient).type \notin {"challenge", "end"},
           \A n : Follows(Head(toClient), n) => n.type \in {reader', "end"},
           ~Asks(Head(toClient), expects)
    PROVE  IInv'
<1> DEFINE m == Head(toClient)
<1>1. TypeOK' /\ MessagesOK'
  BY InvParts, TookRest DEF TypeOK, MessagesOK, Took
<1>2. ClientInStep'
  BY NextHead
<1>3. Chain'
  BY TookRest DEF Chain, Follows
<1>4. ~(challenged /\ outcome = "none")
  <2>1. reader # "challenge"
    BY TookRest
  <2> QED BY <2>1 DEF IInv, Waiting
<1>5. Conversing'
  <2>1. SUFFICES ASSUME expects # "nothing"
                 PROVE  /\ \A i \in 1..Len(toClient') : toClient'[i].type # "end"
                        /\ toServer = <<>> /\ toClient' # <<>>
                        /\ Asks(toClient'[Len(toClient')], expects)
    BY DEF Conversing, Took, Asks
  <2> QED BY <2>1, TookRest
<1>6. Waiting' /\ Tried' /\ RefusedIsTried'
  BY <1>4, InvParts DEF Waiting, Tried, RefusedIsTried, IInv
<1> QED BY <1>1, <1>2, <1>3, <1>5, <1>6 DEF IInv

\* A message after which the client answers, or is done.
LEMMA ReadsFinal ==
    ASSUME IInv, Took, Final(Head(toClient)), TypeOK',
           toServer' \in Seq(ClientMsg),
           outcome' = "none" => challenged' = FALSE,
           toServer' # <<>> /\ expects # "nothing" => toServer = toServer' \/ Due',
           Tried', RefusedIsTried'
    PROVE  IInv'
<1>1. MessagesOK'
  BY TookRest DEF MessagesOK
<1>2. ClientInStep'
  BY NextHead DEF Final
<1>3. Chain'
  <2>1. Len(toClient') \in Nat /\ Len(toClient') <= 1
    BY TookRest, LenProperties
  <2>2. 1..Len(toClient') - 1 = {}
    BY <2>1
  <2> QED BY <2>2 DEF Chain
<1>4. Conversing'
  <2>1. SUFFICES ASSUME expects # "nothing", toServer' # <<>>
                 PROVE  Due'
    <3>1. expects # "nothing" => toClient' = <<>>
      BY TookRest
    <3>2. toClient' = <<>> => \A i \in 1..Len(toClient') : toClient'[i].type # "end"
      BY EmptySeq
    <3>3. expects' = expects
      BY DEF Took
    <3> QED BY <2>1, <3>1, <3>2, <3>3 DEF Conversing
  <2>2. toServer = <<>>
    BY <2>1, TookRest
  <2> QED BY <2>1, <2>2
<1>5. Waiting'
  BY DEF Waiting
<1> QED BY <1>1, <1>2, <1>3, <1>4, <1>5 DEF IInv

\* What the client writes is all that the server finds.
LEMMA Writing ==
    ASSUME IInv, Took, NEW m \in ClientMsg
    PROVE  /\ Append(toServer, m) \in Seq(ClientMsg)
           /\ expects # "nothing" => Append(toServer, m) = <<m>>
<1>1. Append(toServer, m) \in Seq(ClientMsg)
  BY InvParts, AppendProperties
<1>2. expects # "nothing" => toServer = <<>>
  BY TookRest
<1>3. Append(<<>>, m) = <<m>>
  OBVIOUS
<1> QED BY <1>1, <1>2, <1>3, Zenon

LEMMA NotWaiting ==
    ASSUME IInv, Took, Head(toClient).type \notin {"challenge", "end"}
    PROVE  challenged = FALSE
<1>1. reader # "challenge" /\ outcome = "none"
  BY TookRest DEF Took
<1> QED BY <1>1, InvParts DEF IInv, Waiting

LEMMA NegotiatedType ==
    ASSUME NEW v \in Versions
    PROVE  Negotiated(v) \in 0..MinorVersion
BY HandshakeAssumption DEF Negotiated, MinorVersion, Apple

LEMMA SetServerVersionStep ==
    ASSUME IInv, SetServerVersion
    PROVE  IInv'
<1> DEFINE m == Head(toClient)
<1>1. Took /\ m.type = "version"
  BY DEF SetServerVersion, Reads, Took
<1>2. /\ UNCHANGED <<password, challenged, triedPassword>>
      /\ challenged = FALSE /\ Final(m) /\ m.value \in Versions \cup {NotVnc}
  BY <1>1, NotWaiting, TookRest, ServerMsgType DEF SetServerVersion, Final, Follows
<1>3. Tried'
  BY <1>2 DEF IInv, Tried
<1>4. CASE m.value = NotVnc
  <2>1. outcome' = "terminated" /\ UNCHANGED <<reader, toServer, minor>>
    BY <1>4 DEF SetServerVersion, Value, Terminate, EndAs, Silent
  <2>2. TypeOK' /\ RefusedIsTried'
    BY <1>1, <1>2, <2>1, InvParts DEF TypeOK, RefusedIsTried, Outcomes, Took
  <2> QED BY <1>1, <1>2, <1>3, <2>1, <2>2, InvParts, ReadsFinal
<1>5. CASE m.value # NotVnc
  <2>1. /\ minor' = Negotiated(m.value) /\ outcome' = outcome
        /\ toServer' = Append(toServer, Msg("version", minor'))
        /\ reader' = IF minor' >= 7 THEN "count" ELSE "type"
    BY <1>5 DEF SetServerVersion, Value, Write, ReadNext
  <2>2. minor' \in 0..MinorVersion
    BY <1>2, <1>5, <2>1, NegotiatedType
  <2>3. Msg("version", minor') \in ClientMsg
    BY <2>2, ClientMsgs
  <2>4. /\ toServer' \in Seq(ClientMsg)
        /\ expects # "nothing" => toServer' = <<Msg("version", minor')>>
    BY <1>1, <2>1, <2>3, Writing
  <2>5. expects # "nothing" => Due'
    <3>1. expects # "nothing" => expects = "version"
      BY <1>1, <1>2, TookRest DEF Asks
    <3> QED BY <1>1, <2>1, <2>4, <3>1 DEF Due, Took
  <2>6. reader' \in Readers
    BY <2>1 DEF Readers
  <2>7. TypeOK' /\ RefusedIsTried'
    BY <1>1, <1>2, <2>1, <2>2, <2>6, InvParts DEF TypeOK, RefusedIsTried, IInv, Took
  <2> QED BY <1>1, <1>2, <1>3, <2>4, <2>5, <2>7, ReadsFinal
<1> QED BY <1>4, <1>5

LEMMA SetAuthCountStep ==
    ASSUME IInv, SetAuthCount
    PROVE  IInv'
<1> DEFINE m == Head(toClient)
<1>1. Took /\ m.type = "count"
  BY DEF SetAuthCount, Reads, Took
<1>2. /\ UNCHANGED <<minor, password, challenged, triedPassword, outcome, toServer>>
      /\ reader' = IF m.value = 0 THEN "reason" ELSE "types"
  BY DEF SetAuthCount, ReadNext, Silent, Value
<1>3. reader' \in Readers
  BY <1>2 DEF Readers
<1>4. \A n : Follows(m, n) => n.type \in {reader', "end"}
  BY <1>1, <1>2 DEF Follows
<1>5. ~Asks(m, expects)
  BY <1>1 DEF Asks
<1> QED BY <1>1, <1>2, <1>3, <1>4, <1>5, ReadsOn

\* Choosing none, the client may go on at once.
LEMMA SetAuthArrayStep ==
    ASSUME IInv, SetAuthArray
    PROVE  IInv'
<1> DEFINE m == Head(toClient)
<1>1. Took /\ m.type = "types"
  BY DEF SetAuthArray, Reads, Took
<1>2. /\ UNCHANGED <<minor, password, challenged, triedPassword>>
      /\ challenged = FALSE /\ Final(m)
  BY <1>1, NotWaiting DEF SetAuthArray, Final, Follows
<1>3. expects # "nothing" => toServer = <<>> /\ expects = "choice"
  BY <1>1, <1>2, TookRest DEF Asks
<1>4. Tried'
  BY <1>2 DEF IInv, Tried
<1>5. CASE /\ toServer' = Append(toServer, Msg("choice", "invalid"))
           /\ outcome' = "terminated" /\ reader' = reader
  <2>1. Msg("choice", "invalid") \in ClientMsg
    BY ClientMsgs
  <2>2. /\ toServer' \in Seq(ClientMsg)
        /\ expects # "nothing" => Due'
    BY <1>1, <1>3, <1>5, <2>1, Writing DEF Due, Took
  <2>3. TypeOK' /\ RefusedIsTried'
    BY <1>1, <1>2, <1>5, InvParts DEF TypeOK, RefusedIsTried, Outcomes, Took
  <2> QED BY <1>1, <1>2, <1>4, <1>5, <2>2, <2>3, ReadsFinal
<1>6. CASE /\ minor >= 8 /\ toServer' = Append(toServer, Msg("choice", "none"))
           /\ reader' = "result" /\ outcome' = outcome
  <2>1. Msg("choice", "none") \in ClientMsg
    BY ClientMsgs
  <2>2. /\ toServer' \in Seq(ClientMsg)
        /\ expects # "nothing" => Due'
    BY <1>1, <1>2, <1>3, <1>6, <2>1, Writing DEF Due, Took
  <2>3. TypeOK' /\ RefusedIsTried'
    BY <1>1, <1>2, <1>6, InvParts DEF TypeOK, RefusedIsTried, IInv, Readers, Took
  <2> QED BY <1>1, <1>2, <1>4, <1>6, <2>2, <2>3, ReadsFinal
<1>7. CASE /\ ~(minor >= 8)
           /\ toServer' = toServer \o <<Msg("choice", "none"), Msg("init", "")>>
           /\ reader' = "init" /\ outcome' = outcome
  <2>1. Msg("choice", "none") \in ClientMsg /\ Msg("init", "") \in ClientMsg
    BY ClientMsgs
  <2>2. <<Msg("choice", "none"), Msg("init", "")>> \in Seq(ClientMsg)
    BY <2>1, PairIsSeq
  <2>3. /\ toServer' \in Seq(ClientMsg)
        /\ expects # "nothing" =>
              toServer' = <<Msg("choice", "none"), Msg("init", "")>>
    BY <1>3, <1>7, <2>2, InvParts, ConcatProperties, ConcatEmptySeq
  <2>4. expects # "nothing" => Due'
    BY <1>1, <1>2, <1>3, <1>7, <2>3 DEF Due, Took
  <2>5. TypeOK' /\ RefusedIsTried'
    BY <1>1, <1>2, <1>7, InvParts DEF TypeOK, RefusedIsTried, IInv, Readers, Took
  <2> QED BY <1>1, <1>2, <1>4, <1>7, <2>3, <2>4, <2>5, ReadsFinal
<1>8. CASE /\ toServer' = Append(toServer, Msg("choice", "vnc"))
           /\ reader' = "challenge" /\ outcome' = outcome
  <2>1. Msg("choice", "vnc") \in ClientMsg
    BY ClientMsgs
  <2>2. /\ toServer' \in Seq(ClientMsg)
        /\ expects # "nothing" => Due'
    BY <1>1, <1>3, <1>8, <2>1, Writing DEF Due, Took
  <2>3. TypeOK' /\ RefusedIsTried'
    BY <1>1, <1>2, <1>8, InvParts DEF TypeOK, RefusedIsTried, IInv, Readers, Took
  <2> QED BY <1>1, <1>2, <1>4, <1>8, <2>2, <2>3, ReadsFinal
<1> QED BY <1>5, <1>6, <1>7, <1>8
        DEF SetAuthArray, NoAuthNeeded, Write, ReadNext, Terminate, EndAs

\* Handlers that end the handshake without a word.
LEMMA EndsSilently ==
    ASSUME IInv, Took, Final(Head(toClient)),
           UNCHANGED <<minor, reader, password, challenged, triedPassword>>,
           UNCHANGED toServer,
           outcome' \in {"started", "refused", "terminated"},
           outcome' = "refused" => triedPassword
    PROVE  IInv'
<1>1. TypeOK' /\ Tried' /\ RefusedIsTried'
  BY InvParts DEF TypeOK, Tried, RefusedIsTried, IInv, Took, Outcomes
<1> QED BY <1>1, InvParts, ReadsFinal

LEMMA RefuseEnds ==
    ASSUME IInv, Refuse
    PROVE  /\ outcome' \in {"started", "refused", "terminated"}
           /\ reader' = reader /\ (outcome' = "refused" => triedPassword)
BY DEF Refuse, EndAs, Terminate

\* Accepted, the client goes on to the initialisation.
LEMMA AcceptedStep ==
    ASSUME IInv, Took, SendClientInit,
           UNCHANGED <<minor, password, challenged, triedPassword>>,
           \/ Head(toClient).type = "type" /\ Value = "none"
           \/ Head(toClient).type = "result" /\ Value = "ok"
    PROVE  IInv'
<1> DEFINE m == Head(toClient)
<1>1. Final(m) /\ m.type \notin {"challenge", "end"}
  BY DEF Final, Follows, Value
<1>2. challenged = FALSE
  BY <1>1, NotWaiting
<1>3. /\ toServer' = Append(toServer, Msg("init", "")) /\ reader' = "init"
      /\ outcome' = outcome
  BY DEF SendClientInit, Write, ReadNext
<1>4. expects # "nothing" => expects = "init"
  BY <1>1, TookRest DEF Asks, Value
<1>5. Msg("init", "") \in ClientMsg
  BY ClientMsgs
<1>6. toServer' \in Seq(ClientMsg) /\ (expects # "nothing" => Due')
  BY <1>3, <1>4, <1>5, Writing DEF Due, Took
<1>7. TypeOK' /\ Tried' /\ RefusedIsTried'
  BY <1>2, <1>3, InvParts
     DEF TypeOK, Tried, RefusedIsTried, IInv, Readers, Took
<1> QED BY <1>1, <1>2, <1>6, <1>7, ReadsFinal

LEMMA SetAuthTypeStep ==
    ASSUME IInv, SetAuthType
    PROVE  IInv'
<1> DEFINE m == Head(toClient)
<1>1. Took /\ m.type = "type"
  BY DEF SetAuthType, Reads, Took
<1>2. UNCHANGED <<minor, password, challenged, triedPassword>>
  BY DEF SetAuthType
<1>3. CASE m.value = "none" /\ SendClientInit
  BY <1>1, <1>2, <1>3, AcceptedStep DEF Value
<1>4. CASE m.value = "other" /\ Terminate /\ Silent
  <2>1. Final(m)
    BY <1>1, <1>4 DEF Final, Follows
  <2> QED BY <1>1, <1>2, <1>4, <2>1, EndsSilently DEF Terminate, EndAs, Silent
<1>5. CASE \/ m.value = "failed" /\ ReadNext("reason") /\ Silent
           \/ m.value = "vnc" /\ ReadNext("challenge") /\ Silent
  <2>1. UNCHANGED <<outcome, toServer>> /\ reader' \in Readers
    BY <1>5 DEF ReadNext, Silent, Readers
  <2>2. \A n : Follows(m, n) => n.type \in {reader', "end"}
    BY <1>1, <1>5 DEF Follows, ReadNext
  <2>3. ~Asks(m, expects)
    BY <1>1, <1>5 DEF Asks
  <2> QED BY <1>1, <1>2, <2>1, <2>2, <2>3, ReadsOn
<1> QED BY <1>3, <1>4, <1>5 DEF SetAuthType, Value

LEMMA SetAuthResultStep ==
    ASSUME IInv, SetAuthResult
    PROVE  IInv'
<1> DEFINE m == Head(toClient)
<1>1. Took /\ m.type = "result"
  BY DEF SetAuthResult, Reads, Took
<1>2. UNCHANGED <<minor, password, challenged, triedPassword>>
  BY DEF SetAuthResult
<1>3. CASE m.value = "ok" /\ SendClientInit
  BY <1>1, <1>2, <1>3, AcceptedStep DEF Value
<1>4. CASE m.value = "failed" /\ Silent /\ minor >= 8 /\ ReadNext("reason")
  <2>1. UNCHANGED <<outcome, toServer>> /\ reader' = "reason"
    BY <1>4 DEF ReadNext, Silent
  <2>2. \A n : Follows(m, n) => n.type \in {reader', "end"}
    BY <1>1, <1>4, <2>1 DEF Follows
  <2>3. ~Asks(m, expects) /\ reader' \in Readers
    BY <1>1, <1>4, <2>1 DEF Asks, Readers
  <2> QED BY <1>1, <1>2, <2>1, <2>2, <2>3, ReadsOn
<1>5. CASE m.value = "failed" /\ Silent /\ ~(minor >= 8) /\ Refuse
  <2>1. Final(m)
    BY <1>1, <1>5 DEF Final, Follows
  <2> QED BY <1>1, <1>2, <1>5, <2>1, RefuseEnds, EndsSilently DEF Silent
<1>6. CASE m.value = "tooMany" /\ Silent /\ Terminate
  <2>1. Final(m)
    BY <1>1, <1>6 DEF Final, Follows
  <2> QED BY <1>1, <1>2, <1>6, <2>1, EndsSilently DEF Terminate, EndAs, Silent
<1>7. CASE m.value = "other" /\ Silent /\ Refuse
  <2>1. Final(m)
    BY <1>1, <1>7 DEF Final, Follows
  <2> QED BY <1>1, <1>2, <1>7, <2>1, RefuseEnds, EndsSilently DEF Silent
<1> QED BY <1>3, <1>4, <1>5, <1>6, <1>7 DEF SetAuthResult, Value

LEMMA EndingSteps ==
    ASSUME IInv, ConnFailed \/ SetServerInit \/ ServerClosed
    PROVE  IInv'
<1> DEFINE m == Head(toClient)
<1>1. /\ Took /\ m.type \in {"reason", "init", "end"}
      /\ UNCHANGED <<minor, password, challenged, triedPassword, toServer>>
  BY DEF ConnFailed, SetServerInit, ServerClosed, Reads, Took, Silent
<1>2. Final(m)
  BY <1>1 DEF Final, Follows
<1>3. /\ outcome' \in {"started", "refused", "terminated"} /\ reader' = reader
      /\ outcome' = "refused" => triedPassword
  <2>1. CASE ConnFailed
    BY <2>1, RefuseEnds DEF ConnFailed
  <2>2. CASE SetServerInit \/ ServerClosed
    BY <2>2 DEF SetServerInit, ServerClosed, EndAs, Terminate
  <2> QED BY <2>1, <2>2
<1> QED BY <1>1, <1>2, <1>3, EndsSilently

\* The challenge is answered, or kept until there is a password.
LEMMA ChallengeStep ==
    ASSUME IInv, Challenge
    PROVE  IInv'
<1> DEFINE m == Head(toClient)
<1>1. Took /\ m.type = "challenge" /\ Final(m)
  BY DEF Challenge, Reads, Took, Final, Follows
<1>2. UNCHANGED <<minor, password>>
  BY DEF Challenge
<1>3. expects # "nothing" => expects = "response"
  BY <1>1, TookRest DEF Asks
<1>4. challenged = FALSE
  <2>1. \E i \in 1..Len(toClient) : toClient[i].type # "end"
    <3>1. toClient \in Seq(ServerMsg) /\ toClient # <<>>
      BY <1>1, InvParts DEF Took
    <3>2. m = toClient[1] /\ 1 \in 1..Len(toClient)
      BY <3>1, TailProperties
    <3> QED BY <1>1, <3>2
  <2>2. outcome = "none"
    BY <1>1 DEF Took
  <2> QED BY <2>1, <2>2, InvParts DEF IInv, Waiting
<1>5. CASE password
  <2>1. /\ toServer' = Append(toServer, Msg("response", ""))
        /\ reader' = "result" /\ outcome' = outcome /\ challenged' = challenged
        /\ triedPassword' = TRUE
    BY <1>5 DEF Challenge, Respond, Write, ReadNext
  <2>2. Msg("response", "") \in ClientMsg
    BY ClientMsgs
  <2>3. toServer' \in Seq(ClientMsg) /\ (expects # "nothing" => Due')
    BY <1>1, <1>3, <2>1, <2>2, Writing DEF Due, Took
  <2>4. TypeOK'
    BY <1>1, <1>2, <2>1, InvParts DEF TypeOK, Readers, Took
  <2>5. Tried' /\ RefusedIsTried'
    BY <1>1, <1>2, <1>5, <2>1 DEF Tried, RefusedIsTried, Took
  <2> QED BY <1>1, <1>4, <2>1, <2>3, <2>4, <2>5, ReadsFinal
<1>6. CASE ~password
  <2>1. challenged' = TRUE /\ UNCHANGED <<reader, outcome, triedPassword, toServer>>
    BY <1>6 DEF Challenge, Silent
  <2>2. /\ reader = "challenge" /\ toClient' \in Seq(ServerMsg)
        /\ \A i \in 1..Len(toClient') : toClient'[i].type = "end"
        /\ expects # "nothing" => toClient' = <<>> /\ toServer = <<>>
        /\ \A i \in 1..Len(toClient') - 1 :
              Follows(toClient'[i], toClient'[i + 1])
    BY <1>1, TookRest
  <2>3. TypeOK' /\ MessagesOK'
    BY <1>1, <1>2, <2>1, <2>2, InvParts DEF TypeOK, MessagesOK, Took
  <2>4. ClientInStep'
    BY <1>1, NextHead DEF Final
  <2>5. Chain'
    BY <1>2, <2>2 DEF Chain, Follows
  <2>6. Conversing'
    <3>1. toClient' = <<>> =>
              \A i \in 1..Len(toClient') : toClient'[i].type # "end"
      BY EmptySeq
    <3> QED BY <1>1, <2>1, <2>2, <3>1 DEF Conversing, Took
  <2>7. Waiting'
    BY <1>1, <1>3, <2>1, <2>2, InvParts DEF Waiting, Took
  <2>8. Tried' /\ RefusedIsTried'
    BY <1>2, <2>1 DEF Tried, RefusedIsTried, IInv
  <2> QED BY <2>3, <2>4, <2>5, <2>6, <2>7, <2>8 DEF IInv
<1> QED BY <1>5, <1>6

\* The password comes when the server hears nothing but the response.
LEMMA SetPasswordStep ==
    ASSUME IInv, SetPassword
    PROVE  IInv'
<1>1. /\ outcome = "none" /\ challenged /\ password' = TRUE
      /\ challenged' = FALSE /\ triedPassword' = TRUE /\ reader' = "result"
      /\ UNCHANGED <<outcome, announced, minor, toClient, expects>>
      /\ toServer' = Append(toServer, Msg("response", ""))
  BY DEF SetPassword, Respond, Write, ReadNext
<1>2. /\ \A i \in 1..Len(toClient) : toClient[i].type = "end"
      /\ expects \in {"response", "nothing"}
      /\ expects = "response" => toServer = <<>>
  BY <1>1 DEF IInv, Waiting
<1>3. toClient # <<>> =>
          1 \in 1..Len(toClient) /\ Head(toClient) = toClient[1]
  BY InvParts, TailProperties
<1>4. expects = "response" => toClient = <<>>
  BY <1>2, <1>3 DEF IInv, Conversing
<1>5. Append(toServer, Msg("response", "")) \in Seq(ClientMsg)
  BY InvParts, ClientMsgs, AppendProperties
<1>6. expects = "response" => toServer' = <<Msg("response", "")>>
  <2>1. Append(<<>>, Msg("response", "")) = <<Msg("response", "")>>
    OBVIOUS
  <2> QED BY <1>1, <1>2, <2>1
<1>7. TypeOK' /\ MessagesOK'
  BY <1>1, <1>5, InvParts DEF TypeOK, MessagesOK, Readers
<1>8. ClientInStep'
  BY <1>1, <1>2, <1>3 DEF ClientInStep
<1>9. Chain'
  BY <1>1 DEF IInv, Chain, Follows
<1>10. Conversing'
  <2>1. expects = "response" => Due'
    BY <1>1, <1>6 DEF Due
  <2> QED BY <1>1, <1>2, <1>4, <2>1 DEF IInv, Conversing
<1>11. Waiting' /\ Tried' /\ RefusedIsTried'
  BY <1>1 DEF Waiting, Tried, RefusedIsTried
<1> QED BY <1>7, <1>8, <1>9, <1>10, <1>11 DEF IInv

-----------------------------------------------------------------------------
(* The server. *)

\* It reads while the client has nothing left to read.
LEMMA Heard ==
    ASSUME IInv, NEW type \in {"version", "choice", "response", "init"},
           ServerReads(type)
    PROVE  /\ toServer # <<>> /\ expects = type /\ toClient = <<>> /\ Due
           /\ UNCHANGED <<announced, client>> /\ toServer' = Tail(toServer)
           /\ toServer' \in Seq(ClientMsg)
           /\ ~(outcome = "none" /\ challenged)
<1>1. /\ toServer # <<>> /\ expects = type /\ toServer' = Tail(toServer)
      /\ UNCHANGED <<announced, client>>
  BY DEF ServerReads
<1>2. toClient = <<>> /\ Due
  BY <1>1 DEF IInv, Conversing
<1>3. toServer' \in Seq(ClientMsg)
  BY <1>1, InvParts, TailProperties
<1>4. ~(outcome = "none" /\ challenged)
  BY <1>1 DEF IInv, Waiting
<1> QED BY <1>1, <1>2, <1>3, <1>4

LEMMA Answers ==
    ASSUME IInv, NEW type \in {"version", "choice", "response", "init"},
           ServerReads(type),
           NEW messages \in Seq(ServerMsg), NEW next, Sends(messages, next),
           next \in {"choice", "response", "init", "nothing"},
           messages # <<>>, messages[1].type \in {reader, "end"},
           \A i \in 1..Len(messages) - 1 : Follows(messages[i], messages[i + 1]),
           next # "nothing" =>
               /\ Len(toServer) = 1
               /\ \A i \in 1..Len(messages) : messages[i].type # "end"
               /\ Asks(messages[Len(messages)], next)
    PROVE  IInv'
<1>1. /\ toServer # <<>> /\ toClient = <<>> /\ toServer' = Tail(toServer)
      /\ UNCHANGED <<announced, minor, reader, password, challenged,
                     triedPassword, outcome>>
      /\ toServer' \in Seq(ClientMsg) /\ ~(outcome = "none" /\ challenged)
  BY Heard DEF client
<1>2. toClient' = messages /\ expects' = next
  BY <1>1, ConcatEmptySeq DEF Sends
<1>3. TypeOK' /\ MessagesOK'
  BY <1>1, <1>2, InvParts DEF TypeOK, MessagesOK
<1>4. ClientInStep'
  BY <1>1, <1>2, TailProperties DEF ClientInStep
<1>5. Chain'
  BY <1>1, <1>2 DEF Chain, Follows
<1>6. next # "nothing" => toServer' = <<>>
  <2>1. Len(toServer) = 1 => Len(Tail(toServer)) = 0
    BY <1>1, InvParts, TailProperties
  <2> QED BY <1>1, <2>1, EmptySeq
<1>7. Conversing'
  BY <1>2, <1>6 DEF Conversing
<1>8. Waiting' /\ Tried' /\ RefusedIsTried'
  BY <1>1 DEF Waiting, Tried, RefusedIsTried, IInv
<1> QED BY <1>3, <1>4, <1>5, <1>7, <1>8 DEF IInv

LEMMA ServerMsgs ==
    /\ \A n \in Nat : Msg("count", n) \in ServerMsg
    /\ \A t \in Offers : Msg("types", t) \in ServerMsg
    /\ \A x \in {"failed", "none", "vnc", "other"} : Msg("type", x) \in ServerMsg
    /\ \A x \in {"ok", "failed", "tooMany", "other"} :
          Msg("result", x) \in ServerMsg
    /\ \A x \in {"challenge", "reason", "init", "end"} : Msg(x, "") \in ServerMsg
BY DEF ServerMsg, Msg

\* One message that asks the client for something, or after which the server
\* has nothing to say.
LEMMA AnswersOnce ==
    ASSUME IInv, NEW type \in {"version", "choice", "response", "init"},
           ServerReads(type), NEW m \in ServerMsg, NEW next, Sends(<<m>>, next),
           next \in {"choice", "response", "init", "nothing"},
           m.type \in {reader, "end"},
           next # "nothing" =>
               Len(toServer) = 1 /\ m.type # "end" /\ Asks(m, next)
    PROVE  IInv'
<1>1. <<m>> \in Seq(ServerMsg) /\ <<m>> # <<>> /\ Len(<<m>>) = 1 /\ <<m>>[1] = m
  OBVIOUS
<1>2. \A i \in 1..Len(<<m>>) - 1 : Follows(<<m>>[i], <<m>>[i + 1])
  BY <1>1
<1>3. (\A i \in 1..Len(<<m>>) : <<m>>[i].type # "end") <=> m.type # "end"
  BY <1>1
<1> QED BY <1>1, <1>2, <1>3, Answers

LEMMA AnswersTwice ==
    ASSUME IInv, NEW type \in {"version", "choice", "response", "init"},
           ServerReads(type), NEW m \in ServerMsg, NEW n \in ServerMsg, NEW next,
           Sends(<<m, n>>, next),
           next \in {"choice", "response", "init", "nothing"},
           m.type \in {reader, "end"}, Follows(m, n),
           next # "nothing" =>
               /\ Len(toServer) = 1 /\ m.type # "end" /\ n.type # "end"
               /\ Asks(n, next)
    PROVE  IInv'
<1>1. <<m, n>> \in Seq(ServerMsg)
  BY PairIsSeq
<1>2. /\ <<m, n>> # <<>> /\ Len(<<m, n>>) = 2 /\ <<m, n>>[1] = m
      /\ <<m, n>>[2] = n
  OBVIOUS
<1>3. \A i \in 1..Len(<<m, n>>) - 1 : Follows(<<m, n>>[i], <<m, n>>[i + 1])
  BY <1>2
<1>4. (\A i \in 1..Len(<<m, n>>) : <<m, n>>[i].type # "end")
          <=> (m.type # "end" /\ n.type # "end")
  BY <1>2
<1> QED BY <1>1, <1>2, <1>3, <1>4, Answers

\* A refusal, with its reason, is the server's last word.
LEMMA AnswersThrice ==
    ASSUME IInv, NEW type \in {"version", "choice", "response", "init"},
           ServerReads(type), NEW m \in ServerMsg, NEW n \in ServerMsg,
           NEW o \in ServerMsg, Sends(<<m, n, o>>, "nothing"),
           m.type \in {reader, "end"}, Follows(m, n), Follows(n, o)
    PROVE  IInv'
<1>1. <<m, n, o>> \in Seq(ServerMsg)
  OBVIOUS
<1>2. /\ <<m, n, o>> # <<>> /\ Len(<<m, n, o>>) = 3 /\ <<m, n, o>>[1] = m
      /\ <<m, n, o>>[2] = n /\ <<m, n, o>>[3] = o
  OBVIOUS
<1>3. \A i \in 1..Len(<<m, n, o>>) - 1 :
          Follows(<<m, n, o>>[i], <<m, n, o>>[i + 1])
  BY <1>2
<1> QED BY <1>1, <1>2, <1>3, Answers

LEMMA OneIsHeard ==
    ASSUME NEW m
    PROVE  Len(<<m>>) = 1 /\ Head(<<m>>) = m /\ Tail(<<m>>) = <<>>
OBVIOUS

LEMMA PairIsHeard ==
    ASSUME NEW m, NEW n
    PROVE  Head(<<m, n>>) = m /\ Tail(<<m, n>>) = <<n>>
<1>1. <<m, n>> \in Seq({m, n}) /\ Len(<<m, n>>) = 2 /\ <<m, n>> # <<>>
  OBVIOUS
<1>2. /\ Head(<<m, n>>) = <<m, n>>[1] /\ Tail(<<m, n>>) \in Seq({m, n})
      /\ Len(Tail(<<m, n>>)) = 1 /\ Tail(<<m, n>>)[1] = <<m, n>>[2]
  BY <1>1, HeadTailProperties
<1>3. <<n>> \in Seq({m, n}) /\ Len(<<n>>) = 1 /\ <<n>>[1] = n
  OBVIOUS
<1>4. Tail(<<m, n>>) = <<n>>
  BY <1>2, <1>3, SeqEqual
<1> QED BY <1>2, <1>4

LEMMA ServerVersionStep ==
    ASSUME IInv, ServerVersion
    PROVE  IInv'
<1>1. ServerReads("version")
  BY DEF ServerVersion
<1>2. /\ toServer = <<Msg("version", minor)>>
      /\ reader = IF minor >= 7 THEN "count" ELSE "type"
  BY <1>1, Heard DEF Due
<1>3. Len(toServer) = 1 /\ Head(toServer).value = minor
  BY <1>2, OneIsHeard DEF Msg
<1>4. /\ Msg("reason", "") \in ServerMsg /\ Closing \in ServerMsg
      /\ Msg("challenge", "") \in ServerMsg
      /\ Follows(Msg("reason", ""), Closing)
  BY ServerMsgs DEF Closing, Follows, Msg
<1>5. CASE minor >= 7
  <2>1. reader = "count"
    BY <1>2, <1>5
  <2>2. CASE Sends(<<Msg("count", 0), Msg("reason", ""), Closing>>, "nothing")
    <3>1. /\ Msg("count", 0) \in ServerMsg
          /\ Msg("count", 0).type = "count"
          /\ Follows(Msg("count", 0), Msg("reason", ""))
      BY ServerMsgs DEF Follows, Msg
    <3> QED BY <1>1, <1>4, <2>1, <2>2, <3>1, AnswersThrice
  <2>3. ASSUME NEW types \in Offers,
               Sends(<<Msg("count", Len(types)), Msg("types", types)>>, "choice")
        PROVE  IInv'
    <3>1. Len(types) \in Nat /\ Len(types) # 0
      BY HandshakeAssumption, LenProperties, EmptySeq
    <3>2. /\ Msg("count", Len(types)) \in ServerMsg
          /\ Msg("types", types) \in ServerMsg
      BY <3>1, ServerMsgs
    <3>3. /\ Follows(Msg("count", Len(types)), Msg("types", types))
          /\ Asks(Msg("types", types), "choice")
          /\ Msg("count", Len(types)).type = "count"
          /\ Msg("types", types).type = "types"
      BY <3>1 DEF Follows, Asks, Msg
    <3> QED BY <1>1, <1>3, <2>1, <2>3, <3>2, <3>3, AnswersTwice
  <2> QED BY <1>3, <1>5, <2>2, <2>3 DEF ServerVersion
<1>6. CASE ~(minor >= 7)
  <2>1. reader = "type"
    BY <1>2, <1>6
  <2>2. /\ Msg("type", "failed") \in ServerMsg /\ Msg("type", "none") \in ServerMsg
        /\ Msg("type", "vnc") \in ServerMsg /\ Msg("type", "other") \in ServerMsg
    BY ServerMsgs
  <2>3. /\ \A x : Msg("type", x).type = "type"
        /\ Follows(Msg("type", "failed"), Msg("reason", ""))
        /\ Follows(Msg("type", "vnc"), Msg("challenge", ""))
        /\ Asks(Msg("type", "none"), "init")
        /\ Asks(Msg("challenge", ""), "response")
        /\ Msg("challenge", "").type = "challenge"
    BY DEF Follows, Asks, Msg
  <2>4. CASE Sends(<<Msg("type", "failed"), Msg("reason", ""), Closing>>,
                   "nothing")
    BY <1>1, <1>4, <2>1, <2>2, <2>3, <2>4, AnswersThrice
  <2>5. CASE Sends(<<Msg("type", "none")>>, "init")
    BY <1>1, <1>3, <2>1, <2>2, <2>3, <2>5, AnswersOnce
  <2>6. CASE Sends(<<Msg("type", "vnc"), Msg("challenge", "")>>, "response")
    BY <1>1, <1>3, <1>4, <2>1, <2>2, <2>3, <2>6, AnswersTwice
  <2>7. CASE Sends(<<Msg("type", "other")>>, "nothing")
    BY <1>1, <2>1, <2>2, <2>3, <2>7, AnswersOnce
  <2> QED BY <1>3, <1>6, <2>4, <2>5, <2>6, <2>7 DEF ServerVersion
<1> QED BY <1>5, <1>6

LEMMA VerdictStep ==
    ASSUME IInv, NEW type \in {"choice", "response"}, ServerReads(type),
           reader = "result", Len(toServer) = 1, Verdict
    PROVE  IInv'
<1>1. /\ Msg("result", "ok") \in ServerMsg /\ Msg("result", "failed") \in ServerMsg
      /\ Msg("reason", "") \in ServerMsg /\ Closing \in ServerMsg
  BY ServerMsgs DEF Closing
<1>2. /\ Asks(Msg("result", "ok"), "init") /\ Msg("result", "ok").type = "result"
      /\ Msg("result", "failed").type = "result"
      /\ Follows(Msg("reason", ""), Closing)
      /\ Follows(Msg("result", "failed"), Closing)
      /\ minor >= 8 => Follows(Msg("result", "failed"), Msg("reason", ""))
  BY DEF Asks, Follows, Closing, Msg
<1>3. CASE Sends(<<Msg("result", "ok")>>, "init")
  BY <1>1, <1>2, <1>3, AnswersOnce
<1>4. CASE /\ minor >= 8
           /\ Sends(<<Msg("result", "failed"), Msg("reason", ""), Closing>>,
                    "nothing")
  BY <1>1, <1>2, <1>4, AnswersThrice
<1>5. CASE Sends(<<Msg("result", "failed"), Closing>>, "nothing")
  BY <1>1, <1>2, <1>5, AnswersTwice
<1> QED BY <1>3, <1>4, <1>5 DEF Verdict

LEMMA ClosingType ==
    /\ Closing \in ServerMsg /\ Closing.type = "end"
    /\ \A m : m.type # "end" => Follows(m, Closing)
BY ServerMsgs DEF Closing, Follows, Msg

LEMMA ServerChoiceStep ==
    ASSUME IInv, ServerChoice
    PROVE  IInv'
<1>1. ServerReads("choice")
  BY DEF ServerChoice
<1>2. CASE toServer = <<Msg("choice", "none")>> /\ minor >= 8 /\ reader = "result"
  <2>1. Len(toServer) = 1 /\ Head(toServer).value = "none"
    BY <1>2, OneIsHeard DEF Msg
  <2> QED BY <1>1, <1>2, <2>1, VerdictStep DEF ServerChoice
<1>3. CASE /\ toServer = <<Msg("choice", "none"), Msg("init", "")>>
           /\ ~(minor >= 8) /\ reader = "init"
  <2>1. /\ Head(toServer) = Msg("choice", "none")
        /\ Tail(toServer) = <<Msg("init", "")>>
    BY <1>3, PairIsHeard
  <2>2. Sends(<<>>, "init")
    <3>1. Head(toServer).value = "none"
      <4>1. Msg("choice", "none").value = "none"
        BY DEF Msg
      <4> QED BY <2>1, <4>1, Zenon
    <3> QED BY <1>3, <3>1 DEF ServerChoice
  <2>3. /\ UNCHANGED <<announced, minor, reader, password, challenged,
                       triedPassword, outcome>>
        /\ toClient = <<>> /\ ~(outcome = "none" /\ challenged)
        /\ toServer' \in Seq(ClientMsg) /\ toServer' = <<Msg("init", "")>>
    BY <1>1, <2>1, Heard DEF client
  <2>4. toClient' = <<>> /\ expects' = "init"
    <3>1. <<>> \o <<>> = <<>>
      OBVIOUS
    <3> QED BY <2>2, <2>3, <3>1 DEF Sends
  <2>5. TypeOK' /\ MessagesOK'
    BY <2>3, <2>4, InvParts DEF TypeOK, MessagesOK
  <2>6. Due'
    BY <1>3, <2>3, <2>4 DEF Due
  <2>7. \A i \in 1..Len(<<>>) : FALSE
    BY EmptySeq
  <2>8. ClientInStep' /\ Conversing'
    BY <2>4, <2>6, <2>7 DEF ClientInStep, Conversing
  <2>9. Chain'
    BY <2>4 DEF Chain
  <2>10. Waiting' /\ Tried' /\ RefusedIsTried'
    BY <2>3 DEF Waiting, Tried, RefusedIsTried, IInv
  <2> QED BY <2>5, <2>8, <2>9, <2>10 DEF IInv
<1>4. CASE toServer = <<Msg("choice", "vnc")>> /\ reader = "challenge"
  <2>1. Len(toServer) = 1 /\ Head(toServer).value = "vnc"
    BY <1>4, OneIsHeard DEF Msg
  <2>2. Sends(<<Msg("challenge", "")>>, "response")
    BY <2>1 DEF ServerChoice
  <2>3. /\ Msg("challenge", "") \in ServerMsg
        /\ Msg("challenge", "").type = "challenge"
        /\ Asks(Msg("challenge", ""), "response")
    BY ServerMsgs DEF Asks, Msg
  <2> QED BY <1>1, <1>4, <2>1, <2>2, <2>3, AnswersOnce
<1>5. CASE toServer = <<Msg("choice", "invalid")>>
  <2>1. Head(toServer).value = "invalid"
    BY <1>5, OneIsHeard DEF Msg
  <2>2. Sends(<<Closing>>, "nothing")
    BY <2>1 DEF ServerChoice
  <2> QED BY <1>1, <2>2, ClosingType, AnswersOnce
<1>6. Due /\ expects = "choice"
  BY <1>1, Heard
<1> QED BY <1>2, <1>3, <1>4, <1>5, <1>6 DEF Due

LEMMA ServerResponseStep ==
    ASSUME IInv, ServerResponse
    PROVE  IInv'
<1>1. ServerReads("response")
  BY DEF ServerResponse
<1>2. toServer = <<Msg("response", "")>> /\ reader = "result"
  BY <1>1, Heard DEF Due
<1>3. Len(toServer) = 1
  BY <1>2, OneIsHeard
<1>4. CASE Verdict
  BY <1>1, <1>2, <1>3, <1>4, VerdictStep
<1>5. ASSUME NEW result \in {"tooMany", "other"},
             Sends(<<Msg("result", result), Closing>>, "nothing")
      PROVE  IInv'
  <2>1. Msg("result", result) \in ServerMsg /\ Msg("result", result).type = "result"
    BY ServerMsgs DEF Msg
  <2>2. Follows(Msg("result", result), Closing)
    BY <2>1, ClosingType
  <2> QED BY <1>1, <1>2, <1>5, <2>1, <2>2, ClosingType, AnswersTwice
<1> QED BY <1>4, <1>5 DEF ServerResponse

LEMMA ServerInitStep ==
    ASSUME IInv, ServerInit
    PROVE  IInv'
<1>1. ServerReads("init") /\ Sends(<<Msg("init", "")>>, "nothing")
  BY DEF ServerInit
<1>2. reader = "init"
  BY <1>1, Heard DEF Due
<1>3. Msg("init", "") \in ServerMsg /\ Msg("init", "").type = "init"
  BY ServerMsgs DEF Msg
<1> QED BY <1>1, <1>2, <1>3, AnswersOnce

\* The server may hang up whenever it would hear more.
LEMMA ServerClosesStep ==
    ASSUME IInv, ServerCloses
    PROVE  IInv'
<1>1. /\ expects # "nothing" /\ expects' = "nothing"
      /\ UNCHANGED <<announced, minor, reader, password, challenged,
                     triedPassword, outcome, toServer>>
      /\ toClient' = toClient \o <<Closing>>
  BY DEF ServerCloses, Sends, client
<1>2. toClient' = Append(toClient, Closing)
  BY <1>1, InvParts, ClosingType, AppendIsConcat
<1>3. PICK n \in Nat : n = Len(toClient)
  BY InvParts, LenProperties
<1>4. /\ toClient' \in Seq(ServerMsg) /\ toClient' # <<>>
      /\ Len(toClient') = n + 1 /\ toClient'[n + 1] = Closing
      /\ \A i \in 1..n : toClient'[i] = toClient[i]
  BY <1>2, <1>3, InvParts, ClosingType, AppendProperties
<1>5. \A i \in 1..n : toClient[i].type # "end"
  BY <1>1, <1>3 DEF IInv, Conversing
<1>6. TypeOK' /\ MessagesOK'
  BY <1>1, <1>4, InvParts DEF TypeOK, MessagesOK
<1>7. ClientInStep'
  <2>1. Head(toClient') = toClient'[1]
    BY <1>4, TailProperties
  <2>2. CASE n = 0
    <3>1. toClient'[1] = Closing
      BY <1>4, <2>2
    <3> QED BY <2>1, <3>1, ClosingType DEF ClientInStep
  <2>3. CASE n # 0
    <3>1. 1 \in 1..n /\ toClient # <<>>
      BY <1>3, <2>3, EmptySeq
    <3>2. Head(toClient') = Head(toClient)
      BY <1>4, <2>1, <3>1, InvParts, TailProperties
    <3> QED BY <1>1, <3>1, <3>2 DEF IInv, ClientInStep
  <2> QED BY <2>2, <2>3
<1>8. Chain'
  <2>1. ASSUME NEW i \in 1..Len(toClient') - 1
        PROVE  Follows(toClient'[i], toClient'[i + 1])
    <3>1. i \in 1..n /\ toClient'[i] = toClient[i]
      BY <1>4
    <3>2. CASE i = n
      BY <1>4, <1>5, <3>1, <3>2, ClosingType
    <3>3. CASE i # n
      <4>1. i \in 1..n - 1 /\ i + 1 \in 1..n
        BY <3>1, <3>3
      <4>2. Follows(toClient[i], toClient[i + 1])
        BY <1>3, <4>1 DEF IInv, Chain
      <4> QED BY <1>4, <3>1, <4>1, <4>2
    <3> QED BY <3>2, <3>3
  <2> QED BY <1>1, <2>1 DEF Chain, Follows
<1>9. Conversing'
  BY <1>1 DEF Conversing
<1>10. Waiting'
  <2>1. SUFFICES ASSUME outcome = "none", challenged
                 PROVE  /\ reader = "challenge"
                        /\ \A i \in 1..Len(toClient') : toClient'[i].type = "end"
    BY <1>1 DEF Waiting
  <2>2. reader = "challenge" /\ \A i \in 1..n : toClient[i].type = "end"
    BY <1>3, <2>1 DEF IInv, Waiting
  <2>3. \A i \in 1..n + 1 : i \in 1..n \/ i = n + 1
    OBVIOUS
  <2> QED BY <1>4, <2>2, <2>3, ClosingType
<1>11. Tried' /\ RefusedIsTried'
  BY <1>1 DEF Tried, RefusedIsTried, IInv
<1> QED BY <1>6, <1>7, <1>8, <1>9, <1>10, <1>11 DEF IInv

-----------------------------------------------------------------------------
(* The theorems. *)

LEMMA InitIInv ==
    ASSUME Init
    PROVE  IInv
<1> DEFINE m == Msg("version", announced)
<1>1. /\ m \in ServerMsg /\ m.type = "version"
  BY DEF Init, ServerMsg, Msg
<1>2. toClient = <<m>> /\ toServer = <<>>
  BY DEF Init
<1> HIDE DEF m
<1>3. /\ <<m>> \in Seq(ServerMsg) /\ Len(<<m>>) = 1 /\ <<m>>[1] = m
      /\ Head(<<m>>) = m
  BY <1>1
<1>4. TypeOK /\ MessagesOK
  <2>1. <<>> \in Seq(ClientMsg)
    OBVIOUS
  <2>2. TypeOK
    <3>1. 0 \in 0..MinorVersion
      BY DEF MinorVersion
    <3>2. announced \in Versions \cup {NotVnc} /\ password \in BOOLEAN
      BY DEF Init
    <3>3. /\ minor = 0 /\ reader = "version" /\ challenged = FALSE
          /\ triedPassword = FALSE /\ outcome = "none" /\ expects = "version"
      BY DEF Init
    <3> QED BY <3>1, <3>2, <3>3 DEF TypeOK, Readers, Outcomes
  <2> QED BY <1>1, <1>2, <1>3, <2>1, <2>2 DEF MessagesOK
<1>5. ClientInStep /\ Waiting /\ Tried /\ RefusedIsTried
  BY <1>1, <1>2, <1>3
     DEF Init, ClientInStep, Waiting, Tried, RefusedIsTried
<1>6. Chain
  BY <1>2, <1>3 DEF Chain
<1>7. Conversing
  BY <1>1, <1>2, <1>3 DEF Init, Conversing, Asks
<1> QED BY <1>4, <1>5, <1>6, <1>7 DEF IInv

\* In each dialect, whatever the server announces, offers, refuses or cuts
\* short, one side talks at a time, and what follows what is as both expect.
THEOREM Invariant == Spec => []IInv
<1>1. Init => IInv
  BY InitIInv
<1>2. IInv /\ [Next]_vars => IInv'
  <2>1. SUFFICES ASSUME IInv, [Next]_vars
                 PROVE  IInv'
    OBVIOUS
  <2>2. CASE Client
    BY <2>1, <2>2, SetServerVersionStep, SetAuthCountStep, SetAuthArrayStep,
       SetAuthTypeStep, ChallengeStep, SetAuthResultStep, EndingSteps DEF Client
  <2>3. CASE Server
    BY <2>1, <2>3, ServerVersionStep, ServerChoiceStep, ServerResponseStep,
       ServerInitStep DEF Server
  <2>4. CASE ServerCloses \/ SetPassword
    BY <2>1, <2>4, ServerClosesStep, SetPasswordStep
  <2>5. CASE UNCHANGED vars
    BY <2>1, <2>5 DEF vars, client, IInv, TypeOK, MessagesOK, ClientInStep, Chain,
       Conversing, Waiting, Tried, RefusedIsTried, Follows, Due
  <2> QED BY <2>1, <2>2, <2>3, <2>4, <2>5 DEF Next
<1> QED BY <1>1, <1>2, PTL DEF Spec

\* protocolMinorVersion is one the client knows, whatever the server announces.
THEOREM TypeCorrect == Spec => []TypeOK
<1>1. IInv => TypeOK
  BY DEF IInv
<1> QED BY <1>1, Invariant, PTL

\* The client reads every message as what it is, the server never gets a
\* message it did not wait for, and the user is asked for another password
\* only when one was tried.
THEOREM KeepsInStep == Spec => []InStep
<1>1. IInv => InStep
  <2>1. SUFFICES ASSUME IInv
                 PROVE  ServerInStep
    BY DEF IInv, InStep
  <2>2. SUFFICES ASSUME toServer # <<>>, expects # "nothing"
                 PROVE  expects = Head(toServer).type
    BY DEF ServerInStep
  <2>3. Due
    BY <2>1, <2>2 DEF IInv, Conversing
  <2>4. \A type, value : Msg(type, value).type = type
    BY DEF Msg
  <2>5. CASE toServer = <<Msg("choice", "none"), Msg("init", "")>> /\ expects = "choice"
    <3>1. Head(toServer) = Msg("choice", "none")
      BY <2>5, PairIsHeard
    <3> QED BY <2>4, <2>5, <3>1, Zenon
  <2>6. ASSUME NEW value, toServer = <<Msg(expects, value)>>
        PROVE  expects = Head(toServer).type
    <3>1. Head(toServer) = Msg(expects, value)
      BY <2>6, OneIsHeard
    <3> QED BY <2>4, <3>1, Zenon
  <2>7. \/ toServer = <<Msg("choice", "none"), Msg("init", "")>> /\ expects = "choice"
        \/ \E value : toServer = <<Msg(expects, value)>>
    BY <2>3, Zenon DEF Due
  <2> QED BY <2>5, <2>6, <2>7
<1> QED BY <1>1, Invariant, PTL

=============================================================================
