--------------------------- MODULE Hop1Link_proofs ---------------------------
(***************************************************************************)
(* The two halves of the server link.                                      *)
(*                                                                         *)
(* What goes out (Hop1Client): the stream to the server goes wrong only    *)
(* behind a message given up half sent, or by a publisher whose connection *)
(* was closed under it.  The invariant is the lock's, and three facts the  *)
(* code never states: a task holds a descriptor only while it sends        *)
(* (SendsInTurn), hop1_task alone opens and closes (Open), and so a        *)
(* descriptor outlives its connection in the publisher's hands only        *)
(* (Closed).  What a task is half-way through is what the server is half-  *)
(* way through (HalfSent).                                                 *)
(*                                                                         *)
(* What comes in (Hop1Incoming): for any messages, and any number of them  *)
(* in flight, an order is loaded whole, or its connection is about to be   *)
(* closed, or a prefix was read in part.  The client takes what follows a  *)
(* prefix for its payload without looking, and as much of it as recv()     *)
(* gives for all of it.  The invariant says what comes of that: the pieces *)
(* in the stream follow each other as they were sent (Follows), wherever   *)
(* the client stopped reading and wherever the connection broke off; the   *)
(* client that awaits a payload is at the beginning of one (AtPayload);    *)
(* and one that took a part of it has the rest ahead, which is no prefix   *)
(* (AtStale).  So an order is not forgotten either: until it is answered,  *)
(* or was tried to be, it is in the stream or at hand (Coming).            *)
(***************************************************************************)
EXTENDS Hop1Client, Hop1Incoming, SequenceTheorems, TLAPS

OneInside ==
    \A t \in Task : send[t] \in {"prefix", "payload", "unlock"} <=> send_mux_ = t

SendsInTurn ==
    /\ hop1 \notin {"handshake", "ack"} => send["hop1"] = "no"
    /\ pub # "publish" => send["pub"] = "no"

Open == net = "none" <=> hop1 \in {"loop", "forget", "closed"}

Closed == net = "none" /\ send["pub"] # "no" => stale

HalfSent ==
    net = "up" =>
        /\ send["hop1"] = "payload" => server \in {"hop1", "garbled"}
        /\ send["pub"] = "payload" => server \in {"pub", "garbled"} \/ stale

ClientInv == TypeOK /\ OneInside /\ SendsInTurn /\ Open /\ Closed /\ HalfSent

-----------------------------------------------------------------------------
LEMMA InitInv == Init => ClientInv
<1> SUFFICES ASSUME Init PROVE ClientInv
  OBVIOUS
<1>1. TypeOK
  <2>1. /\ state_ = "DISCONNECTED" /\ backoff_ms = 500 /\ hop1 = "loop" /\ pub = "wait"
        /\ send_mux_ = "free" /\ net = "none" /\ server = "between"
        /\ wifi \in {"event", "joining", "up"}
    BY DEF Init
  <2>2. send \in [Task -> {"no", "lock", "prefix", "payload", "unlock"}]
    BY DEF Init
  <2>3. sock_open_ \in BOOLEAN /\ stale \in BOOLEAN
    BY Zenon DEF Init
  <2>4. server \in Parser
    BY <2>1 DEF Parser
  <2> QED BY <2>1, <2>2, <2>3, <2>4 DEF TypeOK
<1>2. OneInside /\ SendsInTurn /\ Open /\ Closed /\ HalfSent
  BY DEF Init, OneInside, SendsInTurn, Open, Closed, HalfSent, Task
<1> QED BY <1>1, <1>2 DEF ClientInv

(* The invariant after a step of a send, from what the step disturbs.      *)
LEMMA InvOfParts ==
  ASSUME ClientInv, UNCHANGED <<clientVars, hop1, pub, wifi, net, stale>>,
         send' \in [Task -> {"no", "lock", "prefix", "payload", "unlock"}],
         send_mux_' \in Task \cup {"free"}, server' \in Parser,
         OneInside', SendsInTurn', Open', Closed', HalfSent'
  PROVE  ClientInv'
<1>1. /\ state_' = state_ /\ sock_open_' = sock_open_ /\ backoff_ms' = backoff_ms
      /\ hop1' = hop1 /\ pub' = pub /\ wifi' = wifi /\ net' = net /\ stale' = stale
  BY DEF clientVars
<1>0. stale \in BOOLEAN /\ sock_open_ \in BOOLEAN
  BY DEF ClientInv, TypeOK
<1>2. stale' \in BOOLEAN /\ sock_open_' \in BOOLEAN
  BY <1>0, <1>1
<1>3. TypeOK'
  BY <1>1, <1>2 DEF ClientInv, TypeOK, Task, Parser
<1> QED BY <1>3, Zenon DEF ClientInv

(* taskLoop(), from the connection to its end: the mutex is left alone.    *)
LEMMA Hop1TaskInv ==
  ClientInv /\ (Hop1Runs \/ RecvOrder \/ RecvFails) => ClientInv'
<1> SUFFICES ASSUME ClientInv, Hop1Runs \/ RecvOrder \/ RecvFails
             PROVE  ClientInv'
  OBVIOUS
<1>0. /\ send \in [Task -> {"no", "lock", "prefix", "payload", "unlock"}]
      /\ stale \in BOOLEAN /\ sock_open_ \in BOOLEAN
  BY DEF ClientInv, TypeOK
<1>1. CASE StartConnecting \/ ConnectFails
  <2>1. /\ UNCHANGED <<sock_open_, hop1, pub, sendVars, netVars, stale>>
        /\ state_' \in {"DISCONNECTED", "CONNECTING", "CONNECTED"}
    BY <1>1 DEF StartConnecting, ConnectFails, ClientInv, TypeOK
  <2>2. backoff_ms' \in {500, 1000, 2000, 4000, 8000, 15000}
    BY <1>1 DEF StartConnecting, ConnectFails, ClientInv, TypeOK
  <2>3. TypeOK'
    BY <1>0, <2>1, <2>2 DEF ClientInv, TypeOK, sendVars, netVars, Task, Parser
  <2> QED
    BY <2>1, <2>3 DEF ClientInv, OneInside, SendsInTurn, Open, Closed, HalfSent,
                      sendVars, netVars
<1>2. CASE Connect
  <2>1. TypeOK'
    BY <1>0, <1>2 DEF Connect, ClientInv, TypeOK, Task, Parser
  <2>2. send["hop1"] = "no" /\ (send["pub"] # "no" => stale)
    BY <1>2 DEF Connect, ClientInv, SendsInTurn, Open, Closed
  <2>3. send' = [send EXCEPT !["hop1"] = "lock"] /\ send_mux_' = send_mux_
    BY <1>2 DEF Connect
  <2>4. OneInside'
    BY <1>0, <2>2, <2>3 DEF ClientInv, OneInside, Task
  <2>5. SendsInTurn' /\ Open' /\ Closed' /\ HalfSent'
    BY <1>0, <1>2, <2>2, <2>3
       DEF Connect, ClientInv, SendsInTurn, Open, Closed, HalfSent, Task
  <2> QED BY <2>1, <2>4, <2>5 DEF ClientInv
<1>3. CASE RecvOrder
  <2>1. TypeOK'
    BY <1>0, <1>3 DEF RecvOrder, clientVars, netVars, ClientInv, TypeOK, Task, Parser
  <2>2. send["hop1"] = "no"
    BY <1>3 DEF RecvOrder, ClientInv, SendsInTurn
  <2>3. OneInside'
    BY <1>0, <1>3, <2>2 DEF RecvOrder, ClientInv, OneInside, Task
  <2>4. SendsInTurn' /\ Open' /\ Closed' /\ HalfSent'
    BY <1>0, <1>3, <2>2
       DEF RecvOrder, netVars, ClientInv, SendsInTurn, Open, Closed, HalfSent, Task
  <2> QED BY <2>1, <2>3, <2>4 DEF ClientInv
<1>4. CASE Connected \/ AckSent \/ RecvFails \/ ForgetSocket \/ Disconnected
  <2> USE DEF Connected, AckSent, RecvFails, ForgetSocket, Disconnected,
              clientVars, sendVars, netVars
  <2>0. stale' \in BOOLEAN /\ sock_open_' \in BOOLEAN
    BY <1>0, <1>4, Zenon
  <2>1. TypeOK'
    BY <1>0, <1>4, <2>0 DEF ClientInv, TypeOK, Task, Parser
  <2>2. OneInside'
    BY <1>4 DEF ClientInv, OneInside
  <2>3. SendsInTurn' /\ Open'
    BY <1>4 DEF ClientInv, SendsInTurn, Open
  <2>4. Closed' /\ HalfSent'
    BY <1>4 DEF ClientInv, Closed, HalfSent
  <2> QED BY <2>1, <2>2, <2>3, <2>4 DEF ClientInv
<1>5. CASE CloseSocket
  <2> USE DEF CloseSocket, clientVars, sendVars
  <2>1. stale' \in BOOLEAN /\ (send["pub"] # "no" => stale')
    BY <1>0, <1>5
  <2>2. TypeOK'
    BY <1>0, <1>5, <2>1 DEF ClientInv, TypeOK, Task, Parser
  <2>3. OneInside' /\ SendsInTurn' /\ Open' /\ Closed' /\ HalfSent'
    BY <1>5, <2>1
       DEF ClientInv, OneInside, SendsInTurn, Open, Closed, HalfSent
  <2> QED BY <2>2, <2>3 DEF ClientInv
<1> QED BY <1>1, <1>2, <1>3, <1>4, <1>5 DEF Hop1Runs

(* publishState(): the descriptor is taken, and its connection may be      *)
(* closed already.                                                         *)
LEMMA PublisherInv == ClientInv /\ PubRuns => ClientInv'
<1> SUFFICES ASSUME ClientInv, PubRuns PROVE ClientInv'
  OBVIOUS
<1>0. /\ send \in [Task -> {"no", "lock", "prefix", "payload", "unlock"}]
      /\ stale \in BOOLEAN /\ sock_open_ \in BOOLEAN
  BY DEF ClientInv, TypeOK
<1>1. CASE PublishState
  <2> USE DEF PublishState, clientVars, sendVars, netVars
  <2>1. TypeOK'
    BY <1>0, <1>1 DEF ClientInv, TypeOK, Task, Parser
  <2>2. OneInside' /\ SendsInTurn' /\ Open' /\ Closed' /\ HalfSent'
    BY <1>1 DEF ClientInv, OneInside, SendsInTurn, Open, Closed, HalfSent
  <2> QED BY <2>1, <2>2 DEF ClientInv
<1>2. CASE TakeSocket
  <2> USE DEF TakeSocket, clientVars, netVars
  <2>1. send["pub"] = "no"
    BY <1>2 DEF ClientInv, SendsInTurn
  <2>2. stale' = (sock_open_ /\ net = "none") /\ stale' \in BOOLEAN
    BY <1>0, <1>2
  <2>3. CASE sock_open_
    <3>1. send' = [send EXCEPT !["pub"] = "lock"] /\ pub' = "publish"
      BY <1>2, <2>3
    <3>2. TypeOK'
      BY <1>0, <1>2, <2>2, <3>1 DEF ClientInv, TypeOK, Task, Parser
    <3>3. OneInside'
      BY <1>0, <1>2, <2>1, <3>1 DEF ClientInv, OneInside, Task
    <3>4. SendsInTurn' /\ Open' /\ Closed' /\ HalfSent'
      BY <1>0, <1>2, <2>1, <2>2, <2>3, <3>1
         DEF ClientInv, SendsInTurn, Open, Closed, HalfSent, Task
    <3> QED BY <3>2, <3>3, <3>4 DEF ClientInv
  <2>4. CASE ~sock_open_
    <3>1. send' = send /\ pub' = "wait"
      BY <1>2, <2>4
    <3>2. TypeOK'
      BY <1>0, <1>2, <2>2, <3>1 DEF ClientInv, TypeOK, Task, Parser
    <3>3. OneInside' /\ SendsInTurn' /\ Open' /\ Closed' /\ HalfSent'
      BY <1>2, <2>1, <3>1
         DEF ClientInv, OneInside, SendsInTurn, Open, Closed, HalfSent
    <3> QED BY <3>2, <3>3 DEF ClientInv
  <2> QED BY <2>3, <2>4
<1>3. CASE Published
  <2> USE DEF Published, clientVars, sendVars, netVars
  <2>0. stale' \in BOOLEAN /\ sock_open_' \in BOOLEAN
    BY <1>0, <1>3, Zenon
  <2>1. TypeOK'
    BY <1>0, <1>3, <2>0 DEF ClientInv, TypeOK, Task, Parser
  <2>2. OneInside' /\ SendsInTurn' /\ Open' /\ Closed' /\ HalfSent'
    BY <1>3 DEF ClientInv, OneInside, SendsInTurn, Open, Closed, HalfSent
  <2> QED BY <2>1, <2>2 DEF ClientInv
<1> QED BY <1>1, <1>2, <1>3 DEF PubRuns

(* sendEnvelope() and sendFrame(): both tasks, each inside only alone.     *)
LEMMA SendInv == ASSUME ClientInv, NEW t \in Task, SendEnvelope(t) PROVE ClientInv'
<1>0. /\ send \in [Task -> {"no", "lock", "prefix", "payload", "unlock"}]
      /\ stale \in BOOLEAN /\ sock_open_ \in BOOLEAN
      /\ t = "hop1" \/ t = "pub"
  BY DEF ClientInv, TypeOK, Task
<1>1. UNCHANGED <<clientVars, hop1, pub, wifi, net, stale>>
  BY DEF SendEnvelope, Lock, SendPrefix, SendPayload, SendFails, Unlock, netVars
<1>2. /\ send[t] \in {"lock", "prefix", "payload", "unlock"}
      /\ \E to \in {"no", "prefix", "payload", "unlock"} : send' = [send EXCEPT ![t] = to]
  BY DEF SendEnvelope, Lock, SendPrefix, SendPayload, SendFails, Unlock, At
<1>3. send' \in [Task -> {"no", "lock", "prefix", "payload", "unlock"}]
  BY <1>0, <1>2
<1>4. \A o \in Task : o # t => send'[o] = send[o]
  BY <1>0, <1>2
<1>5. SendsInTurn' /\ Open' /\ Closed'
  <2>1. SendsInTurn'
    BY <1>0, <1>1, <1>2, <1>4 DEF ClientInv, SendsInTurn, Task
  <2>2. Open'
    BY <1>1 DEF ClientInv, Open
  <2>3. Closed'
    BY <1>0, <1>1, <1>2, <1>4 DEF ClientInv, Closed, Task
  <2> QED BY <2>1, <2>2, <2>3
<1>6. CASE Lock(t)
  <2>1. send_mux_ = "free" /\ send_mux_' = t /\ server' = server
        /\ send'[t] = "prefix"
    BY <1>0, <1>6 DEF Lock, At, netVars
  <2>2. OneInside'
    BY <1>0, <1>4, <2>1 DEF ClientInv, OneInside, Task
  <2>3. HalfSent'
    BY <1>0, <1>1, <1>4, <2>1 DEF ClientInv, HalfSent, Task
  <2>4. send_mux_' \in Task \cup {"free"} /\ server' \in Parser
    BY <2>1 DEF ClientInv, TypeOK
  <2> QED BY <1>1, <1>3, <1>5, <2>2, <2>3, <2>4, InvOfParts
<1>7. CASE SendPrefix(t)
  <2>1. /\ send[t] = "prefix" /\ send'[t] = "payload" /\ send_mux_' = send_mux_
        /\ server' = IF net = "up" THEN Prefixed(t) ELSE server
    BY <1>0, <1>7 DEF SendPrefix, At
  <2>2. OneInside'
    BY <1>0, <1>4, <2>1 DEF ClientInv, OneInside, Task
  <2>3. net = "up" => server' \in {t, "garbled"}
    BY <2>1 DEF Prefixed
  <2>4. HalfSent'
    <3>1. \A o \in Task : o # t => send[o] # "payload"
      BY <1>0, <2>1 DEF ClientInv, OneInside, Task
    <3> QED BY <1>0, <1>1, <1>4, <2>1, <2>3, <3>1 DEF HalfSent, Task
  <2>5. send_mux_' \in Task \cup {"free"} /\ server' \in Parser
    BY <2>1, <2>3 DEF ClientInv, TypeOK, Parser
  <2> QED BY <1>1, <1>3, <1>5, <2>2, <2>4, <2>5, InvOfParts
<1>8. CASE SendPayload(t) \/ SendFails(t)
  <2>1. /\ send[t] \in {"prefix", "payload"} /\ send'[t] = "unlock"
        /\ send_mux_' = send_mux_
    BY <1>0, <1>8 DEF SendPayload, SendFails, At
  <2>2. OneInside'
    BY <1>0, <1>4, <2>1 DEF ClientInv, OneInside, Task
  <2>3. HalfSent'
    <3>1. \A o \in Task : o # t => send[o] # "payload"
      BY <1>0, <2>1 DEF ClientInv, OneInside, Task
    <3> QED BY <1>0, <1>1, <1>4, <2>1, <3>1 DEF HalfSent, Task
  <2>4. send_mux_' \in Task \cup {"free"} /\ server' \in Parser
    BY <1>8, <2>1 DEF SendPayload, SendFails, Delivered, CutOff, ClientInv, TypeOK, Parser
  <2> QED BY <1>1, <1>3, <1>5, <2>2, <2>3, <2>4, InvOfParts
<1>9. CASE Unlock(t)
  <2>1. send[t] = "unlock" /\ send'[t] = "no" /\ send_mux_' = "free" /\ server' = server
    BY <1>0, <1>9 DEF Unlock, At, netVars
  <2>2. OneInside'
    BY <1>0, <1>4, <2>1 DEF ClientInv, OneInside, Task
  <2>3. HalfSent'
    BY <1>0, <1>1, <1>4, <2>1 DEF ClientInv, HalfSent, Task
  <2>4. send_mux_' \in Task \cup {"free"} /\ server' \in Parser
    BY <2>1 DEF ClientInv, TypeOK
  <2> QED BY <1>1, <1>3, <1>5, <2>2, <2>3, <2>4, InvOfParts
<1> QED BY <1>6, <1>7, <1>8, <1>9 DEF SendEnvelope

(* The peer and the station change nothing a task holds; a lost connection *)
(* is still one that hop1_task has not closed.                             *)
LEMMA OutsideInv ==
  ClientInv /\ (NetworkLost \/ WifiReconnects \/ WifiJoins \/ WifiDrops \/ UNCHANGED vars)
    => ClientInv'
<1> SUFFICES ASSUME ClientInv,
                    NetworkLost \/ WifiReconnects \/ WifiJoins \/ WifiDrops \/ UNCHANGED vars
             PROVE  ClientInv'
  OBVIOUS
<1> USE DEF NetworkLost, WifiReconnects, WifiJoins, WifiDrops, vars,
            clientVars, sendVars, netVars
<1>1. /\ state_' = state_ /\ sock_open_' = sock_open_ /\ backoff_ms' = backoff_ms
      /\ hop1' = hop1 /\ pub' = pub /\ send' = send /\ send_mux_' = send_mux_
      /\ server' = server /\ stale' = stale
  OBVIOUS
<1>2. /\ wifi' \in {"event", "joining", "up"}
      /\ net' = net \/ (net = "up" /\ net' = "lost")
  BY DEF ClientInv, TypeOK
<1>4. TypeOK'
  <2>1. net' \in {"none", "up", "lost"}
    BY <1>2 DEF ClientInv, TypeOK
  <2>0. stale \in BOOLEAN /\ sock_open_ \in BOOLEAN
    BY DEF ClientInv, TypeOK
  <2>2. stale' \in BOOLEAN /\ sock_open_' \in BOOLEAN
    <3> HIDE DEF NetworkLost, WifiReconnects, WifiJoins, WifiDrops, vars
    <3> QED BY <1>1, <2>0
  <2> QED BY <1>1, <1>2, <2>1, <2>2 DEF ClientInv, TypeOK, Task, Parser
<1>3. OneInside' /\ SendsInTurn' /\ Open' /\ Closed' /\ HalfSent'
  BY <1>1, <1>2 DEF ClientInv, OneInside, SendsInTurn, Open, Closed, HalfSent
<1> QED BY <1>3, <1>4 DEF ClientInv

LEMMA ClientInvariant == Spec => []ClientInv
<1>1. ClientInv /\ [Next]_vars => ClientInv'
  BY Hop1TaskInv, PublisherInv, SendInv, OutsideInv DEF Next
<1> QED BY <1>1, InitInv, PTL DEF Spec

-----------------------------------------------------------------------------
(* The client's state, its back-off, the two tasks and the station keep    *)
(* their types: the back-off never passes 15 s.                            *)
THEOREM ClientTypes == Spec => []TypeOK
<1>1. ClientInv => TypeOK
  BY DEF ClientInv
<1> QED BY <1>1, ClientInvariant, PTL

(* A task is between taking send_mux_ and giving it back exactly when it   *)
(* holds it: never two of them, and no way out of a send, lost connections *)
(* and reconnections included, leaves it taken.                            *)
THEOREM SendsExclude == Spec => []OneInside
<1>1. ClientInv => OneInside
  BY DEF ClientInv
<1> QED BY <1>1, ClientInvariant, PTL

(* hop1_task never sends on a connection it has closed: of the descriptors *)
(* that outlive theirs, which nothing in the client forbids, the publisher *)
(* holds them all, and is known by them.                                   *)
THEOREM OwnerSendsOnOpen ==
  Spec => [](net = "none" => send["hop1"] = "no" /\ (send["pub"] # "no" => stale))
<1>1. ClientInv => (net = "none" => send["hop1"] = "no" /\ (send["pub"] # "no" => stale))
  BY DEF ClientInv, SendsInTurn, Open, Closed
<1> QED BY <1>1, ClientInvariant, PTL

(* The stream to the server goes wrong only behind a message that was      *)
(* given up half sent, or by a publisher whose connection was closed.      *)
THEOREM StreamGarbledByCause == Spec => GarbledByCause
<1>1. ClientInv /\ [Next]_vars =>
        [server # "garbled" /\ server' = "garbled" => Abandoned \/ stale]_vars
  <2> SUFFICES ASSUME ClientInv, Next, server # "garbled", server' = "garbled"
               PROVE  Abandoned \/ stale
    OBVIOUS
  <2>1. PICK t \in Task : SendPrefix(t) \/ SendPayload(t) \/ SendFails(t)
    BY DEF Next, Hop1Runs, StartConnecting, ConnectFails, Connect, Connected, AckSent,
           CloseSocket, ForgetSocket, Disconnected, RecvOrder, RecvFails, PubRuns,
           PublishState, TakeSocket, Published, SendEnvelope, Lock, Unlock,
           NetworkLost, WifiReconnects, WifiJoins, WifiDrops, netVars
  <2>2. /\ net = "up" /\ server \in Parser
        /\ send[t] \in {"prefix", "payload"}
        /\ \A o \in Task : o # t => send[o] \notin {"prefix", "payload", "unlock"}
    BY <2>1 DEF SendPrefix, SendPayload, SendFails, At, ClientInv, TypeOK, OneInside
  <2>3. CASE SendPrefix(t)
    <3>1. send[t] = "prefix" /\ server \notin {"between", "garbled"}
      BY <2>2, <2>3 DEF SendPrefix, Prefixed, At, Task
    <3> QED BY <2>2, <3>1 DEF Abandoned, Parser, Task
  <2>4. CASE SendPayload(t)
    <3>1. send[t] = "payload" /\ server # t
      BY <2>2, <2>4 DEF SendPayload, Delivered, At
    <3> QED BY <2>2, <3>1 DEF ClientInv, HalfSent, Task
  <2>5. CASE SendFails(t)
    <3>1. server = "cut"
      BY <2>2, <2>5 DEF SendFails, CutOff, Parser, Task
    <3> QED BY <3>1 DEF Abandoned
  <2> QED BY <2>1, <2>3, <2>4, <2>5
<1> QED BY <1>1, ClientInvariant, PTL DEF Spec, GarbledByCause

-----------------------------------------------------------------------------
(* The stream that comes in.                                               *)

\* One piece behind another, as they were sent.
Joins(p, q) ==
    /\ p.part = "first" => q = [part |-> "rest", of |-> p.of]
    /\ p.part = "rest" => q = [part |-> "head", of |-> p.of]
    /\ p.part = "head" => q = [part |-> "tail", of |-> p.of]
    /\ p.part = "tail" => q.part = "first"

Follows(s) == \A i \in 1 .. Len(s) - 1 : Joins(s[i], s[i + 1])

\* A stream that does not end in the middle of a message.
Whole(s) == s = <<>> \/ s[Len(s)].part = "tail"

Sound == Follows(stream) /\ (~ended => Whole(stream))

AtPayload ==
    loop = "payload" =>
        /\ stream # <<>> => stream[1].part = "head"
        /\ stream = <<>> => ended

AtDispatch == loop = "dispatch" => recv_buf_.head.of = recv_buf_.tail.of

AtStale ==
    /\ loop = "astray" => strayed
    /\ loop = "stale" => Closing \/ strayed

IncomingInv == InTypeOK /\ Sound /\ AtPayload /\ AtDispatch /\ AtStale

-----------------------------------------------------------------------------
(* A part of a stream is a stream.                                         *)
LEMMA PartOfStream ==
  ASSUME NEW s \in Seq(Piece), Follows(s),
         NEW m \in 1 .. Len(s) + 1, NEW n \in 0 .. Len(s)
  PROVE  /\ SubSeq(s, m, n) \in Seq(Piece)
         /\ Follows(SubSeq(s, m, n))
<1> DEFINE t == SubSeq(s, m, n)
<1>1. Len(s) \in Nat /\ m \in Int /\ n \in Int
  OBVIOUS
<1>2. t \in Seq(Piece)
  <2>1. \A i \in m .. n : s[i] \in Piece
    BY <1>1
  <2> QED BY <1>1, <2>1, SubSeqProperties
<1>3. CASE m > n
  <2>1. t = <<>>
    BY <1>1, <1>3, SubSeqProperties
  <2>2. Follows(<<>>)
    BY DEF Follows
  <2> QED BY <1>2, <2>1, <2>2
<1>4. CASE ~(m > n)
  <2>1. Len(t) = n - m + 1 /\ \A j \in 1 .. n - m + 1 : t[j] = s[m + j - 1]
    <3>1. \A i \in m .. n : s[i] \in Piece
      BY <1>1
    <3> QED BY <1>1, <1>4, <3>1, SubSeqProperties
  <2> HIDE DEF t
  <2> SUFFICES Follows(t)
    BY <1>2 DEF t
  <2> SUFFICES ASSUME NEW i \in 1 .. Len(t) - 1 PROVE Joins(t[i], t[i + 1])
    BY DEF Follows
  <2>2. /\ i \in 1 .. n - m + 1 /\ i + 1 \in 1 .. n - m + 1
        /\ m + i - 1 \in 1 .. Len(s) - 1
        /\ m + (i + 1) - 1 = (m + i - 1) + 1
    BY <1>1, <1>4, <2>1
  <2>3. t[i] = s[m + i - 1] /\ t[i + 1] = s[(m + i - 1) + 1]
    <3>1. t[i] = s[m + i - 1] /\ t[i + 1] = s[m + (i + 1) - 1]
      BY <2>1, <2>2, Zenon
    <3> QED BY <2>2, <3>1, Zenon
  <2> QED BY <2>2, <2>3, Zenon DEF Follows
<1> QED BY <1>3, <1>4

(* What is left after n pieces are received.                               *)
LEMMA RestOfStream ==
  ASSUME NEW s \in Seq(Piece), Follows(s), NEW n \in 0 .. Len(s)
  PROVE  /\ SubSeq(s, n + 1, Len(s)) \in Seq(Piece)
         /\ Follows(SubSeq(s, n + 1, Len(s)))
         /\ Len(SubSeq(s, n + 1, Len(s))) = Len(s) - n
         /\ \A i \in 1 .. Len(s) - n : SubSeq(s, n + 1, Len(s))[i] = s[n + i]
         /\ Whole(s) => Whole(SubSeq(s, n + 1, Len(s)))
<1> DEFINE t == SubSeq(s, n + 1, Len(s))
<1>1. Len(s) \in Nat /\ n + 1 \in 1 .. Len(s) + 1 /\ Len(s) \in 0 .. Len(s)
  OBVIOUS
<1>2. t \in Seq(Piece) /\ Follows(t)
  BY <1>1, PartOfStream
<1>3. Len(t) = Len(s) - n /\ \A i \in 1 .. Len(s) - n : t[i] = s[n + i]
  <2>1. \A i \in n + 1 .. Len(s) : s[i] \in Piece
    BY <1>1
  <2> QED BY <1>1, <2>1, SubSeqProperties
<1>4. Whole(s) => Whole(t)
  <2> HIDE DEF t
  <2>1. CASE n = Len(s)
    BY <1>1, <1>2, <1>3, <2>1 DEF Whole
  <2>2. CASE n < Len(s)
    <3>1. Len(t) \in 1 .. Len(s) - n /\ n + Len(t) = Len(s) /\ s # <<>>
      BY <1>1, <1>3, <2>2
    <3>2. t[Len(t)] = s[Len(s)]
      BY <1>3, <3>1
    <3> QED BY <3>1, <3>2 DEF Whole
  <2> QED BY <1>1, <2>1, <2>2
<1> QED BY <1>2, <1>3, <1>4

(* A stream that is cut off begins as it did.                              *)
LEMMA HeadOfCut ==
  ASSUME NEW s \in Seq(Piece), NEW n \in 0 .. Len(s)
  PROVE  SubSeq(s, 1, n) # <<>> => s # <<>> /\ SubSeq(s, 1, n)[1] = s[1]
<1>1. Len(s) \in Nat
  OBVIOUS
<1>2. CASE n = 0
  <2>1. SubSeq(s, 1, n) = <<>>
    BY <1>1, <1>2, SubSeqProperties
  <2> QED BY <2>1
<1>3. CASE n > 0
  <2>1. \A i \in 1 .. n : s[i] \in Piece
    BY <1>1
  <2>2. Len(s) > 0 /\ 1 \in 1 .. n - 1 + 1
    BY <1>1, <1>3
  <2>3. SubSeq(s, 1, n)[1] = s[1 + 1 - 1]
    BY <1>1, <2>1, <2>2, SubSeqProperties
  <2> QED BY <1>1, <2>2, <2>3
<1> QED BY <1>1, <1>2, <1>3

(* The pieces of a message are a stream.                                   *)
LEMMA PiecesOfMessage ==
  ASSUME NEW m \in Msg
  PROVE  /\ Pieces(m) \in Seq(Piece) /\ Len(Pieces(m)) = 4
         /\ Pieces(m)[1].part = "first" /\ Pieces(m)[1].of = m
         /\ Pieces(m)[4].part = "tail"
         /\ \A i \in 1 .. 3 : Joins(Pieces(m)[i], Pieces(m)[i + 1])
<1>1. /\ Pieces(m)[1] = [part |-> "first", of |-> m]
      /\ Pieces(m)[2] = [part |-> "rest", of |-> m]
      /\ Pieces(m)[3] = [part |-> "head", of |-> m]
      /\ Pieces(m)[4] = [part |-> "tail", of |-> m]
      /\ Len(Pieces(m)) = 4
  BY DEF Pieces
<1>2. Pieces(m) \in Seq(Piece)
  BY DEF Pieces, Piece
<1>3. ASSUME NEW i \in 1 .. 3 PROVE Joins(Pieces(m)[i], Pieces(m)[i + 1])
  <2>1. i = 1 \/ i = 2 \/ i = 3
    OBVIOUS
  <2> QED BY <1>1, <2>1 DEF Joins
<1> QED BY <1>1, <1>2, <1>3

(* A message behind a stream that does not end in the middle of one.       *)
LEMMA MessageJoins ==
  ASSUME NEW s \in Seq(Piece), Follows(s), Whole(s),
         NEW t \in Seq(Piece), Len(t) = 4, t[1].part = "first", t[4].part = "tail",
         \A i \in 1 .. 3 : Joins(t[i], t[i + 1])
  PROVE  /\ s \o t \in Seq(Piece) /\ Follows(s \o t) /\ Whole(s \o t)
         /\ s \o t # <<>> /\ (s # <<>> => (s \o t)[1] = s[1])
         /\ \A i \in 1 .. Len(s) : i \in 1 .. Len(s \o t) /\ (s \o t)[i] = s[i]
         /\ Len(s) + 1 \in 1 .. Len(s \o t) /\ (s \o t)[Len(s) + 1] = t[1]
<1> DEFINE u == s \o t
           l == Len(s)
<1>1. l \in Nat
  OBVIOUS
<1>2. /\ u \in Seq(Piece) /\ Len(u) = l + 4
      /\ \A i \in 1 .. l + 4 : u[i] = IF i <= l THEN s[i] ELSE t[i - l]
  <2>1. /\ u \in Seq(Piece) /\ Len(u) = l + Len(t)
        /\ \A i \in 1 .. l + Len(t) : u[i] = IF i <= l THEN s[i] ELSE t[i - l]
    BY ConcatProperties, Zenon
  <2>2. Len(t) = 4
    OBVIOUS
  <2> QED BY <2>1, <2>2, Zenon
<1> HIDE DEF u, l
<1>3. \A i \in 1 .. 4 : u[l + i] = t[i]
  <2>1. \A i \in 1 .. 4 : l + i \in 1 .. l + 4 /\ ~(l + i <= l) /\ (l + i) - l = i
    BY <1>1
  <2> QED BY <1>2, <2>1, Zenon
<1>4. \A i \in 1 .. l : u[i] = s[i]
  <2>1. \A i \in 1 .. l : i \in 1 .. l + 4 /\ i <= l
    BY <1>1
  <2> QED BY <1>2, <2>1, Zenon
<1>5. ASSUME NEW i \in 1 .. Len(u) - 1 PROVE Joins(u[i], u[i + 1])
  <2>1. i \in 1 .. l - 1 \/ (i = l /\ l > 0) \/ i \in l + 1 .. l + 3
    BY <1>1, <1>2
  <2>2. CASE i \in 1 .. l - 1
    <3>1. u[i] = s[i] /\ u[i + 1] = s[i + 1]
      BY <1>1, <1>4, <2>2
    <3> QED BY <2>2, <3>1, Zenon DEF Follows, l
  <2>3. CASE i = l /\ l > 0
    <3>1. u[i] = s[l]
      BY <1>1, <1>4, <2>3
    <3>2. u[i + 1] = t[1]
      BY <1>3, <2>3
    <3>3. s[l].part = "tail"
      <4>1. s # <<>>
        BY <2>3 DEF l
      <4> QED BY <4>1 DEF Whole, l
    <3> QED BY <3>1, <3>2, <3>3 DEF Joins
  <2>4. CASE i \in l + 1 .. l + 3
    <3>1. PICK j \in 1 .. 3 : i = l + j /\ i + 1 = l + (j + 1)
      <4>1. i - l \in 1 .. 3 /\ i = l + (i - l) /\ i + 1 = l + ((i - l) + 1)
        BY <1>1, <2>4
      <4> QED BY <4>1
    <3>2. j \in 1 .. 4 /\ j + 1 \in 1 .. 4
      OBVIOUS
    <3>3. u[i] = t[j] /\ u[i + 1] = t[j + 1]
      BY <1>3, <3>1, <3>2, Zenon
    <3> QED BY <3>3, Zenon
  <2> QED BY <2>1, <2>2, <2>3, <2>4
<1>6. Follows(u)
  BY <1>5 DEF Follows
<1>7. Whole(u) /\ u # <<>>
  <2>1. u[l + 4] = t[4]
    BY <1>3
  <2> QED BY <1>1, <1>2, <2>1 DEF Whole
<1>8. s # <<>> => u[1] = s[1]
  <2>1. s # <<>> => 1 \in 1 .. l
    BY DEF l
  <2> QED BY <1>4, <2>1
<1>9. /\ \A i \in 1 .. l : i \in 1 .. Len(u) /\ u[i] = s[i]
      /\ l + 1 \in 1 .. Len(u) /\ u[l + 1] = t[1]
  BY <1>1, <1>2, <1>3, <1>4
<1> QED BY <1>2, <1>6, <1>7, <1>8, <1>9 DEF u, l

(* What a message sent, and any part received, makes of the stream.        *)
LEMMA SentStream ==
  ASSUME IncomingInv, NEW m \in Msg, ServerSends(m)
  PROVE  /\ stream' \in Seq(Piece) /\ Sound' /\ stream' # <<>>
         /\ stream # <<>> => stream'[1] = stream[1]
         /\ \A i \in 1 .. Len(stream) : i \in 1 .. Len(stream') /\ stream'[i] = stream[i]
         /\ \E i \in 1 .. Len(stream') : stream'[i].of = m
<1>1. stream \in Seq(Piece) /\ Follows(stream) /\ Whole(stream)
  BY DEF ServerSends, IncomingInv, InTypeOK, Sound
<1>2. stream' = stream \o Pieces(m) /\ ended' = ended
  BY DEF ServerSends
<1>3. /\ stream' \in Seq(Piece) /\ Follows(stream') /\ Whole(stream') /\ stream' # <<>>
      /\ stream # <<>> => stream'[1] = stream[1]
      /\ \A i \in 1 .. Len(stream) : i \in 1 .. Len(stream') /\ stream'[i] = stream[i]
      /\ Len(stream) + 1 \in 1 .. Len(stream')
      /\ stream'[Len(stream) + 1] = Pieces(m)[1]
  BY <1>1, <1>2, PiecesOfMessage, MessageJoins
<1>4. Sound'
  BY <1>3 DEF Sound, Follows, Whole
<1>5. \E i \in 1 .. Len(stream') : stream'[i].of = m
  BY <1>3, PiecesOfMessage
<1> QED BY <1>3, <1>4, <1>5

LEMMA ReceivedStream ==
  ASSUME IncomingInv, NEW n, Received(n), ended' = ended
  PROVE  /\ n \in 0 .. Len(stream) /\ Len(stream) \in Nat
         /\ stream' \in Seq(Piece) /\ Sound' /\ Len(stream') = Len(stream) - n
         /\ \A i \in 1 .. Len(stream) - n : stream'[i] = stream[n + i]
<1>1. /\ stream \in Seq(Piece) /\ Follows(stream) /\ Len(stream) \in Nat
      /\ ~ended => Whole(stream)
  BY DEF IncomingInv, InTypeOK, Sound
<1>2. n \in 0 .. Len(stream) /\ stream' = SubSeq(stream, n + 1, Len(stream))
  BY DEF Received
<1>3. /\ stream' \in Seq(Piece) /\ Follows(stream')
      /\ Len(stream') = Len(stream) - n
      /\ \A i \in 1 .. Len(stream) - n : stream'[i] = stream[n + i]
      /\ Whole(stream) => Whole(stream')
  BY <1>1, <1>2, RestOfStream
<1>4. Sound'
  BY <1>1, <1>3 DEF Sound, Follows, Whole
<1> QED BY <1>1, <1>2, <1>3, <1>4

-----------------------------------------------------------------------------
LEMMA InInitInv == InInit => IncomingInv
<1> SUFFICES ASSUME InInit PROVE IncomingInv
  OBVIOUS
<1>1. InTypeOK
  <2>1. ended \in BOOLEAN /\ strayed \in BOOLEAN
    BY Zenon DEF InInit
  <2> QED BY <2>1 DEF InInit, InTypeOK, NoOrder
<1>2. Sound /\ AtPayload /\ AtDispatch /\ AtStale
  BY DEF InInit, Sound, Follows, AtPayload, AtDispatch, AtStale
<1> QED BY <1>1, <1>2 DEF IncomingInv

LEMMA ServerInv ==
  ASSUME IncomingInv, NEW m \in Msg, ServerSends(m)
  PROVE  IncomingInv'
<1>1. /\ ~ended /\ awaited' \subseteq Msg /\ unsent' \subseteq Msg
      /\ UNCHANGED <<loop, recv_buf_, acted, ended, strayed>>
  BY DEF ServerSends, IncomingInv, InTypeOK, bufVars
<1>2. /\ stream' \in Seq(Piece) /\ Sound' /\ stream' # <<>>
      /\ stream # <<>> => stream'[1] = stream[1]
  BY SentStream
<1>3. InTypeOK'
  BY <1>1, <1>2 DEF IncomingInv, InTypeOK, Piece
<1>4. AtPayload' /\ AtDispatch' /\ AtStale'
  BY <1>1, <1>2 DEF IncomingInv, AtPayload, AtDispatch, AtStale, Closing, AtText
<1> QED BY <1>2, <1>3, <1>4 DEF IncomingInv

\* The connection ends, or is made anew.
LEMMA ConnectionInv == IncomingInv /\ (ConnectionEnds \/ ConnectAnew) => IncomingInv'
<1> SUFFICES ASSUME IncomingInv, ConnectionEnds \/ ConnectAnew PROVE IncomingInv'
  OBVIOUS
<1>1. CASE ConnectionEnds
  <2>1. PICK n \in 0 .. Len(stream) : stream' = SubSeq(stream, 1, n)
    BY <1>1 DEF ConnectionEnds
  <2>2. stream \in Seq(Piece) /\ Follows(stream) /\ Len(stream) \in Nat
    BY DEF IncomingInv, InTypeOK, Sound
  <2>3. stream' \in Seq(Piece) /\ Follows(stream')
    <3>1. 1 \in 1 .. Len(stream) + 1
      BY <2>2
    <3> QED BY <2>1, <2>2, <3>1, PartOfStream
  <2>4. stream' # <<>> => stream # <<>> /\ stream'[1] = stream[1]
    BY <2>1, <2>2, HeadOfCut
  <2>5. ended' = TRUE /\ UNCHANGED <<loop, recv_buf_, acted, awaited, unsent, strayed>>
    BY <1>1 DEF ConnectionEnds, bufVars
  <2>6. InTypeOK'
    BY <2>3, <2>5 DEF IncomingInv, InTypeOK, Piece
  <2>7. Sound' /\ AtPayload'
    BY <2>3, <2>4, <2>5 DEF IncomingInv, Sound, Follows, AtPayload
  <2>8. AtDispatch' /\ AtStale'
    BY <2>4, <2>5 DEF IncomingInv, AtDispatch, AtStale, Closing, AtText
  <2> QED BY <2>6, <2>7, <2>8 DEF IncomingInv
<1>2. CASE ConnectAnew
  <2>1. /\ stream' = <<>> /\ loop' = "prefix"
        /\ ended' \in BOOLEAN /\ strayed' \in BOOLEAN
    BY <1>2, Zenon DEF ConnectAnew
  <2>2. InTypeOK'
    BY <1>2, <2>1 DEF ConnectAnew, IncomingInv, InTypeOK, Piece, bufVars
  <2>3. Sound' /\ AtPayload' /\ AtDispatch' /\ AtStale'
    BY <2>1 DEF Sound, Follows, Whole, AtPayload, AtDispatch, AtStale
  <2> QED BY <2>2, <2>3 DEF IncomingInv
<1> QED BY <1>1, <1>2

LEMMA PrefixInv == IncomingInv /\ RecvPrefix => IncomingInv'
<1> SUFFICES ASSUME IncomingInv, RecvPrefix PROVE IncomingInv'
  OBVIOUS
<1> USE DEF Goto, serverVars
<1>1. /\ stream # <<>> /\ acted' = NoOrder
      /\ UNCHANGED <<recv_buf_, ended, awaited, unsent>>
  BY DEF RecvPrefix, RecvPrefixWhole, RecvPrefixShort, RecvText
<1>2. PICK n \in {1, 2} : Received(n)
  BY DEF RecvPrefix, RecvPrefixWhole, RecvPrefixShort, RecvText
<1>3. stream' \in Seq(Piece) /\ Sound'
  BY <1>1, <1>2, ReceivedStream
<1>4. /\ strayed' \in BOOLEAN /\ loop' \in {"payload", "astray", "closed"}
      /\ loop' = "astray" => strayed'
      /\ loop' = "payload" => RecvPrefixWhole
  BY DEF RecvPrefix, RecvPrefixWhole, RecvPrefixShort, RecvText, IncomingInv, InTypeOK
<1>5. InTypeOK'
  BY <1>1, <1>3, <1>4 DEF IncomingInv, InTypeOK, Piece, NoOrder
<1>6. AtPayload'
  <2> SUFFICES ASSUME RecvPrefixWhole
               PROVE  /\ stream' # <<>> => stream'[1].part = "head"
                      /\ stream' = <<>> => ended'
    BY <1>4 DEF AtPayload
  <2>1. Received(2) /\ stream[1].part = "first"
    BY DEF RecvPrefixWhole
  <2>2. /\ Len(stream) \in Nat /\ Len(stream) >= 2 /\ Len(stream') = Len(stream) - 2
        /\ \A i \in 1 .. Len(stream) - 2 : stream'[i] = stream[2 + i]
    <3>1. /\ 2 \in 0 .. Len(stream) /\ Len(stream) \in Nat
          /\ Len(stream') = Len(stream) - 2
          /\ \A i \in 1 .. Len(stream) - 2 : stream'[i] = stream[2 + i]
      <4>1. ended' = ended
        BY <1>1
      <4> QED BY <2>1, <4>1, ReceivedStream, Zenon
    <3> QED BY <3>1
  <2>3. stream[1 + 1].part = "rest"
    <3>1. 1 \in 1 .. Len(stream) - 1
      BY <2>2
    <3>2. Joins(stream[1], stream[1 + 1])
      BY <3>1, Zenon DEF IncomingInv, Sound, Follows
    <3> QED BY <2>1, <3>2 DEF Joins
  <2>4. CASE stream' # <<>>
    <3>1. 1 \in 1 .. Len(stream) - 2 /\ 2 \in 1 .. Len(stream) - 1
      BY <1>3, <2>2, <2>4
    <3>2. stream'[1] = stream[2 + 1]
      BY <2>2, <3>1
    <3>3. stream[2 + 1].part = "head"
      <4>1. Joins(stream[2], stream[2 + 1])
        BY <3>1, Zenon DEF IncomingInv, Sound, Follows
      <4>2. stream[2].part = "rest"
        BY <2>3
      <4> QED BY <4>1, <4>2 DEF Joins
    <3> QED BY <2>4, <3>2, <3>3
  <2>5. CASE stream' = <<>>
    <3>1. Len(stream) = 2
      BY <2>2, <2>5
    <3>2. ~Whole(stream)
      BY <1>1, <2>3, <3>1 DEF Whole
    <3> QED BY <1>1, <2>5, <3>2 DEF IncomingInv, Sound
  <2> QED BY <2>4, <2>5
<1>7. AtDispatch' /\ AtStale'
  BY <1>4 DEF AtDispatch, AtStale
<1> QED BY <1>3, <1>5, <1>6, <1>7 DEF IncomingInv

LEMMA PayloadInv == IncomingInv /\ RecvPayload => IncomingInv'
<1> SUFFICES ASSUME IncomingInv, RecvPayload PROVE IncomingInv'
  OBVIOUS
<1> USE DEF Goto, serverVars
<1>1. PICK n \in 0 .. 2 :
         /\ Received(n)
         /\ recv_buf_' = [head |-> IF n >= 1 THEN stream[1] ELSE recv_buf_.head,
                          tail |-> IF n = 2 THEN stream[2] ELSE recv_buf_.tail]
         /\ loop' = (IF n = 2 THEN "dispatch" ELSE "stale")
  BY DEF RecvPayload
<1>2. /\ loop = "payload" /\ (stream # <<>> \/ ended)
      /\ UNCHANGED <<acted, ended, awaited, unsent, strayed>>
  BY DEF RecvPayload
<1>3. /\ n \in 0 .. Len(stream) /\ Len(stream) \in Nat
      /\ stream' \in Seq(Piece) /\ Sound' /\ Len(stream') = Len(stream) - n
      /\ \A i \in 1 .. Len(stream) - n : stream'[i] = stream[n + i]
  BY <1>1, <1>2, ReceivedStream
<1>4. \A i \in 1 .. Len(stream) : stream[i] \in Piece
  BY DEF IncomingInv, InTypeOK
<1>5. stream # <<>> => stream[1].part = "head"
  BY <1>2 DEF IncomingInv, AtPayload
<1>6. Len(stream) >= 2 => stream[2] = [part |-> "tail", of |-> stream[1].of]
  <2> SUFFICES ASSUME Len(stream) >= 2
               PROVE  stream[1 + 1] = [part |-> "tail", of |-> stream[1].of]
    OBVIOUS
  <2>1. 1 \in 1 .. Len(stream) - 1 /\ stream # <<>>
    BY <1>3
  <2> QED BY <1>5, <2>1 DEF IncomingInv, Sound, Follows, Joins
<1>7. recv_buf_' \in [head : [part : {"head"}, of : Msg \cup {None}],
                      tail : [part : {"tail"}, of : Msg \cup {None}]]
  <2>1. n >= 1 => stream[1] \in [part : {"head"}, of : Msg \cup {None}]
    <3>1. n >= 1 => 1 \in 1 .. Len(stream) /\ stream # <<>>
      BY <1>3
    <3> QED BY <1>4, <1>5, <3>1 DEF Piece
  <2>2. n = 2 => stream[2] \in [part : {"tail"}, of : Msg \cup {None}]
    BY <1>3, <1>6, <2>1
  <2> QED BY <1>1, <2>1, <2>2 DEF IncomingInv, InTypeOK
<1>8. InTypeOK'
  BY <1>1, <1>2, <1>3, <1>7 DEF IncomingInv, InTypeOK, Piece
<1>9. AtPayload' /\ AtDispatch'
  BY <1>1, <1>3, <1>6 DEF AtPayload, AtDispatch
<1>10. AtStale'
  <2> SUFFICES ASSUME n # 2
               PROVE  IF stream' = <<>> THEN ended ELSE stream'[1].part \in {"head", "tail"}
    BY <1>1, <1>2 DEF AtStale, Closing, AtText
  <2>1. CASE n = 0
    <3>1. CASE stream' = <<>>
      BY <1>2, <1>3, <2>1, <3>1
    <3>2. CASE stream' # <<>>
      <4>1. 1 \in 1 .. Len(stream) - 0 /\ stream # <<>>
        BY <1>3, <2>1, <3>2
      <4>2. stream'[1] = stream[0 + 1]
        BY <1>3, <2>1, <4>1
      <4> QED BY <1>5, <3>2, <4>1, <4>2
    <3> QED BY <3>1, <3>2
  <2>2. CASE n = 1
    <3>1. CASE stream' = <<>>
      <4>1. Len(stream) = 1 /\ stream # <<>>
        BY <1>3, <2>2, <3>1
      <4>2. ~Whole(stream)
        BY <1>5, <4>1 DEF Whole
      <4> QED BY <3>1, <4>2 DEF IncomingInv, Sound
    <3>2. CASE stream' # <<>>
      <4>1. 1 \in 1 .. Len(stream) - 1 /\ Len(stream) >= 2
        BY <1>3, <2>2, <3>2
      <4>2. stream'[1] = stream[1 + 1]
        BY <1>3, <2>2, <4>1
      <4> QED BY <1>6, <3>2, <4>1, <4>2
    <3> QED BY <3>1, <3>2
  <2> QED BY <2>1, <2>2
<1> QED BY <1>3, <1>8, <1>9, <1>10 DEF IncomingInv

LEMMA AstrayInv == IncomingInv /\ RecvAstray => IncomingInv'
<1> SUFFICES ASSUME IncomingInv, RecvAstray PROVE IncomingInv'
  OBVIOUS
<1> DEFINE came(n, part) == {stream[i] : i \in {j \in 1 .. n : stream[j].part = part}}
<1>1. PICK n \in 0 .. Len(stream) :
         /\ Received(n)
         /\ recv_buf_' \in [head : came(n, "head") \cup {recv_buf_.head},
                             tail : came(n, "tail") \cup {recv_buf_.tail}]
  BY DEF RecvAstray
<1>2. /\ loop = "astray" /\ loop' = "stale"
      /\ UNCHANGED <<acted, ended, awaited, unsent, strayed>>
  BY DEF RecvAstray, Goto, serverVars
<1>3. stream' \in Seq(Piece) /\ Sound'
  BY <1>1, <1>2, ReceivedStream
<1>4. ASSUME NEW part \in {"head", "tail"}
      PROVE  came(n, part) \subseteq [part : {part}, of : Msg \cup {None}]
  <2>1. \A i \in 1 .. n : stream[i] \in Piece
    BY DEF IncomingInv, InTypeOK
  <2> QED BY <2>1 DEF Piece
<1>5. came(n, "head") \subseteq [part : {"head"}, of : Msg \cup {None}]
      /\ came(n, "tail") \subseteq [part : {"tail"}, of : Msg \cup {None}]
  BY <1>4
<1> HIDE DEF came
<1>6. InTypeOK'
  BY <1>1, <1>2, <1>3, <1>5 DEF IncomingInv, InTypeOK, Piece
<1>7. AtPayload' /\ AtDispatch' /\ AtStale'
  BY <1>2 DEF IncomingInv, AtPayload, AtDispatch, AtStale
<1> QED BY <1>3, <1>6, <1>7 DEF IncomingInv

\* The steps that leave the stream where it is.
LEMMA StillInv ==
  IncomingInv /\ (RecvEnds \/ RecvInterrupted \/ Dispatch \/ UNCHANGED inVars)
    => IncomingInv'
<1> SUFFICES ASSUME IncomingInv,
                    RecvEnds \/ RecvInterrupted \/ Dispatch \/ UNCHANGED inVars
             PROVE  IncomingInv'
  OBVIOUS
<1> USE DEF RecvEnds, Goto, RecvInterrupted, Dispatch, inVars, bufVars, serverVars
<1>1. UNCHANGED <<recv_buf_, stream, ended, strayed>>
  OBVIOUS
<1>2. loop' = loop \/ loop' \in {"prefix", "closed"}
  OBVIOUS
<1>3. /\ acted' \in [id : Msg \cup {None}, wps : Msg \cup {None}]
      /\ awaited' \subseteq Msg /\ unsent' \subseteq Msg
  <2>1. CASE LoadsOrder
    BY <2>1 DEF LoadsOrder, IsOrder, Those, Answers, IncomingInv, InTypeOK
  <2>2. CASE ~LoadsOrder
    BY <2>2 DEF RejectsEmpty, PassesOver, Answers, IncomingInv, InTypeOK
  <2> QED BY <2>1, <2>2
<1>4. InTypeOK'
  BY <1>1, <1>2, <1>3 DEF IncomingInv, InTypeOK, Piece
<1>5. Sound'
  BY <1>1 DEF IncomingInv, Sound, Follows, Whole
<1>6. AtPayload' /\ AtDispatch' /\ AtStale'
  BY <1>1, <1>2 DEF IncomingInv, AtPayload, AtDispatch, AtStale, Closing, AtText
<1> QED BY <1>4, <1>5, <1>6 DEF IncomingInv

LEMMA IncomingInvariant == InSpec => []IncomingInv
<1>1. IncomingInv /\ [InNext]_inVars => IncomingInv'
  BY ServerInv, ConnectionInv, PrefixInv, PayloadInv, AstrayInv, StillInv DEF InNext, Client
<1> QED BY <1>1, InInitInv, PTL DEF InSpec

-----------------------------------------------------------------------------
(* The client's loop, its buffer and the stream keep their types: a head   *)
(* is never taken for a tail.                                              *)
THEOREM IncomingTypes == InSpec => []InTypeOK
<1>1. IncomingInv => InTypeOK
  BY DEF IncomingInv
<1> QED BY <1>1, IncomingInvariant, PTL

(* For any messages, however many are in flight, wherever recv() stops and *)
(* wherever it is interrupted: an order is loaded whole, or its connection *)
(* is about to be closed on the rest of it, or a prefix of the connection  *)
(* was read in part.                                                       *)
THEOREM OrdersAreWhole == InSpec => ActedOnWhole
<1>1. IncomingInv /\ [InNext]_inVars =>
        [acted' # acted =>
            acted'.id = acted'.wps \/ (loop = "stale" /\ (Closing \/ strayed))]_inVars
  <2> SUFFICES ASSUME IncomingInv, InNext, acted' # acted
               PROVE  acted'.id = acted'.wps \/ (loop = "stale" /\ (Closing \/ strayed))
    OBVIOUS
  <2>1. Dispatch \/ acted' = NoOrder
    BY DEF InNext, Client, RecvPrefix, RecvPayload, RecvAstray, RecvEnds,
           RecvInterrupted, ServerSends, ConnectionEnds, ConnectAnew, bufVars
  <2>2. CASE Dispatch
    <3>1. acted' = [id |-> order, wps |-> waypoints]
      BY <2>2 DEF Dispatch, LoadsOrder, RejectsEmpty, PassesOver
    <3>2. loop = "dispatch" \/ loop = "stale"
      BY <2>2 DEF Dispatch
    <3> QED BY <3>1, <3>2 DEF IncomingInv, AtDispatch, AtStale, order, waypoints
  <2>3. CASE acted' = NoOrder
    BY <2>3 DEF NoOrder
  <2> QED BY <2>1, <2>2, <2>3
<1> QED BY <1>1, IncomingInvariant, PTL DEF InSpec, ActedOnWhole

-----------------------------------------------------------------------------
(* An order the server still waits to hear of is in the stream, or is the  *)
(* message at hand, or its answer was tried and not sent.                  *)

\* Only what can be answered is waited for, and no message out of range gets
\* past its prefix.
Answerable ==
    /\ \A m \in awaited : Kind[m] \in {"order", "empty", "outsize"}
    /\ loop = "payload" /\ stream # <<>> => Kind[stream[1].of] # "outsize"
    /\ loop = "dispatch" => Kind[order] # "outsize"

InStream(m, s) == \E i \in 1 .. Len(s) : s[i].of = m

Coming ==
    ~ended /\ loop # "closed" /\ ~strayed =>
        \A m \in awaited \ unsent :
            InStream(m, stream) \/ (loop = "dispatch" /\ order = m)

LEMMA ServerComing ==
  ASSUME IncomingInv, Answerable, Coming, NEW m \in Msg, ServerSends(m)
  PROVE  (Answerable /\ Coming)'
<1>1. /\ ~ended /\ unsent' = unsent \ {m}
      /\ \/ awaited' = awaited
         \/ awaited' = awaited \cup {m} /\ Kind[m] \in {"order", "empty", "outsize"}
      /\ UNCHANGED <<loop, recv_buf_, acted, ended, strayed>>
  BY DEF ServerSends, bufVars
<1>2. /\ stream # <<>> => stream'[1] = stream[1]
      /\ \A i \in 1 .. Len(stream) : i \in 1 .. Len(stream') /\ stream'[i] = stream[i]
      /\ \E i \in 1 .. Len(stream') : stream'[i].of = m
  BY SentStream
<1>3. Coming'
  <2>1. \A o : InStream(o, stream) => InStream(o, stream')
    BY <1>2 DEF InStream
  <2>2. InStream(m, stream')
    BY <1>2 DEF InStream
  <2> QED BY <1>1, <2>1, <2>2 DEF Coming, order
<1>4. Answerable'
  <2>1. loop = "payload" => stream # <<>>
    BY <1>1 DEF IncomingInv, AtPayload
  <2> QED BY <1>1, <1>2, <2>1 DEF Answerable, order
<1> QED BY <1>3, <1>4

LEMMA PrefixComing ==
  ASSUME IncomingInv, Answerable, Coming, RecvPrefix
  PROVE  (Answerable /\ Coming)'
<1>1. /\ stream # <<>> /\ loop = "prefix"
      /\ UNCHANGED <<recv_buf_, ended, awaited, unsent>>
  BY DEF RecvPrefix, RecvPrefixWhole, RecvPrefixShort, RecvText, Goto, serverVars
<1>2. \/ loop' = "closed"
      \/ loop' = "astray" /\ strayed'
      \/ /\ loop' = "payload" /\ RecvPrefixWhole
         /\ Kind[stream[1].of] # "outsize"
  BY DEF RecvPrefix, RecvPrefixWhole, RecvPrefixShort, RecvText, Goto
<1>3. CASE loop' = "closed" \/ (loop' = "astray" /\ strayed')
  BY <1>1, <1>3 DEF Answerable, Coming
<1>4. CASE loop' = "payload" /\ RecvPrefixWhole /\ Kind[stream[1].of] # "outsize"
  <2>1. Received(2) /\ stream[1].part = "first" /\ strayed' = strayed
    BY <1>4 DEF RecvPrefixWhole
  <2>2. /\ 2 \in 0 .. Len(stream) /\ Len(stream) \in Nat
        /\ Len(stream') = Len(stream) - 2 /\ stream' \in Seq(Piece)
        /\ \A i \in 1 .. Len(stream) - 2 : stream'[i] = stream[2 + i]
    <3>1. ended' = ended
      BY <1>1
    <3> QED BY <2>1, <3>1, ReceivedStream, Zenon
  <2>3. stream[2] = [part |-> "rest", of |-> stream[1].of]
    <3>1. 1 \in 1 .. Len(stream) - 1 /\ 1 + 1 = 2
      BY <2>2
    <3>2. Joins(stream[1], stream[1 + 1])
      BY <3>1, Zenon DEF IncomingInv, Sound, Follows
    <3> QED BY <2>1, <3>1, <3>2 DEF Joins
  <2>4. ASSUME Len(stream) > 2
        PROVE  /\ 3 \in 1 .. Len(stream) /\ stream[3].of = stream[1].of
               /\ stream'[1] = stream[3]
    <3>1. /\ 2 \in 1 .. Len(stream) - 1 /\ 1 \in 1 .. Len(stream) - 2
          /\ 2 + 1 = 3 /\ 3 \in 1 .. Len(stream)
      BY <2>2, <2>4
    <3>2. Joins(stream[2], stream[2 + 1])
      BY <3>1, Zenon DEF IncomingInv, Sound, Follows
    <3>3. stream[3] = [part |-> "head", of |-> stream[2].of]
      BY <2>3, <3>1, <3>2 DEF Joins
    <3>4. stream'[1] = stream[2 + 1]
      BY <2>2, <3>1
    <3> QED BY <2>3, <3>1, <3>3, <3>4
  <2>5. ~ended => Len(stream) > 2
    <3>1. Len(stream) = 2 => ~Whole(stream)
      BY <1>1, <2>3 DEF Whole
    <3> QED BY <2>2, <3>1 DEF IncomingInv, Sound
  <2>6. Answerable'
    <3>1. stream' # <<>> => Len(stream) > 2
      BY <2>2
    <3> QED BY <1>1, <1>4, <2>4, <3>1 DEF Answerable
  <2>7. Coming'
    <3> SUFFICES ASSUME ~ended, ~strayed, NEW o \in awaited \ unsent
                 PROVE  InStream(o, stream')
      BY <1>1, <2>1 DEF Coming
    <3>1. PICK i \in 1 .. Len(stream) : stream[i].of = o
      BY <1>1 DEF Coming, InStream
    <3>2. PICK j \in 1 .. Len(stream) : j > 2 /\ stream[j].of = o
      <4>1. i = 1 \/ i = 2 \/ i > 2
        BY <2>2
      <4> QED BY <2>2, <2>3, <2>4, <2>5, <3>1, <4>1
    <3>3. j - 2 \in 1 .. Len(stream) - 2 /\ 2 + (j - 2) = j
      BY <2>2, <3>2
    <3>4. stream'[j - 2] = stream[j]
      BY <2>2, <3>3
    <3> QED BY <2>2, <3>2, <3>3, <3>4 DEF InStream
  <2> QED BY <2>6, <2>7
<1> QED BY <1>2, <1>3, <1>4

LEMMA PayloadComing ==
  ASSUME IncomingInv, Answerable, Coming, RecvPayload
  PROVE  (Answerable /\ Coming)'
<1>1. PICK n \in 0 .. 2 :
         /\ Received(n)
         /\ recv_buf_' = [head |-> IF n >= 1 THEN stream[1] ELSE recv_buf_.head,
                          tail |-> IF n = 2 THEN stream[2] ELSE recv_buf_.tail]
         /\ loop' = (IF n = 2 THEN "dispatch" ELSE "stale")
  BY DEF RecvPayload, Goto
<1>2. /\ loop = "payload" /\ (stream # <<>> \/ ended)
      /\ UNCHANGED <<acted, ended, awaited, unsent, strayed>>
  BY DEF RecvPayload, Goto, serverVars
<1>3. /\ n \in 0 .. Len(stream) /\ Len(stream) \in Nat
      /\ Len(stream') = Len(stream) - n
      /\ \A i \in 1 .. Len(stream) - n : stream'[i] = stream[n + i]
  BY <1>1, <1>2, ReceivedStream
<1>4. Len(stream) >= 2 => stream[2].of = stream[1].of
  <2> SUFFICES ASSUME Len(stream) >= 2 PROVE stream[2].of = stream[1].of
    OBVIOUS
  <2>1. 1 \in 1 .. Len(stream) - 1 /\ stream # <<>> /\ 1 + 1 = 2
    BY <1>3
  <2>2. Joins(stream[1], stream[1 + 1])
    BY <2>1, Zenon DEF IncomingInv, Sound, Follows
  <2>3. stream[1].part = "head"
    BY <1>2, <2>1 DEF IncomingInv, AtPayload
  <2> QED BY <2>1, <2>2, <2>3 DEF Joins
<1>5. ASSUME NEW i \in 1 .. Len(stream), i > n PROVE InStream(stream[i].of, stream')
  <2>1. i - n \in 1 .. Len(stream) - n /\ n + (i - n) = i
    BY <1>3, <1>5
  <2>2. stream'[i - n] = stream[i]
    BY <1>3, <2>1
  <2> QED BY <1>3, <2>1, <2>2 DEF InStream
<1>6. n = 2 => order' = stream[1].of
  BY <1>1 DEF order
<1>7. Answerable'
  <2>1. n = 2 => stream # <<>>
    BY <1>3
  <2> QED BY <1>1, <1>2, <1>6, <2>1 DEF Answerable
<1>8. Coming'
  <2> SUFFICES ASSUME ~ended, ~strayed, NEW o \in awaited \ unsent
               PROVE  InStream(o, stream') \/ (n = 2 /\ order' = o)
    BY <1>1, <1>2 DEF Coming
  <2>1. PICK i \in 1 .. Len(stream) : stream[i].of = o
    BY <1>2 DEF Coming, InStream
  <2>2. CASE i > n
    BY <1>5, <2>1, <2>2
  <2>3. CASE n = 2 /\ i <= n
    <3>1. i = 1 \/ i = 2
      BY <1>3, <2>3
    <3> QED BY <1>3, <1>4, <1>6, <2>1, <2>3, <3>1
  <2>4. CASE n = 1 /\ i <= n
    <3>1. i = 1 /\ stream # <<>>
      BY <1>3, <2>4
    <3>2. Len(stream) >= 2
      <4>1. stream[1].part = "head"
        BY <1>2, <3>1 DEF IncomingInv, AtPayload
      <4>2. Len(stream) = 1 => ~Whole(stream)
        BY <3>1, <4>1 DEF Whole
      <4> QED BY <1>3, <3>1, <4>2 DEF IncomingInv, Sound
    <3>3. 2 \in 1 .. Len(stream) /\ 2 > n
      BY <1>3, <2>4, <3>2
    <3>4. stream[2].of = o
      BY <1>4, <2>1, <3>1, <3>2
    <3> QED BY <1>5, <3>3, <3>4
  <2> QED BY <1>3, <2>2, <2>3, <2>4
<1> QED BY <1>7, <1>8

\* A dispatch answers the order it has, or tries to, if it is one to be
\* answered; one of what is stale may answer for another, and takes none away.
LEMMA DispatchComing ==
  ASSUME IncomingInv, Answerable, Coming, Dispatch
  PROVE  (Answerable /\ Coming)'
<1>1. /\ loop \in {"dispatch", "stale"} /\ loop' = "prefix"
      /\ UNCHANGED <<recv_buf_, stream, ended, strayed>>
      /\ LoadsOrder \/ RejectsEmpty \/ PassesOver
  BY DEF Dispatch
<1>2. awaited' \subseteq awaited /\ unsent \subseteq unsent'
  BY <1>1 DEF LoadsOrder, RejectsEmpty, PassesOver, Answers
<1>3. ASSUME loop = "dispatch", order \in awaited PROVE order \notin awaited' \ unsent'
  <2>1. order \in Those({"order", "empty"}) \/ Kind[order] = "outsize"
    BY <1>3 DEF Answerable, Those, IncomingInv, InTypeOK
  <2>2. ~PassesOver
    BY <1>3, <2>1 DEF PassesOver, Answerable, Those
  <2>3. Answers(order)
    BY <1>1, <2>2 DEF LoadsOrder, RejectsEmpty
  <2> QED BY <1>3, <2>3 DEF Answers
<1>4. Answerable'
  BY <1>1, <1>2 DEF Answerable
<1>5. Coming'
  BY <1>1, <1>2, <1>3 DEF Coming
<1> QED BY <1>4, <1>5

LEMMA StillComing ==
  ASSUME IncomingInv, Answerable, Coming,
         \/ ConnectionEnds \/ ConnectAnew \/ RecvAstray \/ RecvEnds
         \/ RecvInterrupted \/ UNCHANGED inVars
  PROVE  (Answerable /\ Coming)'
<1> USE DEF Goto, serverVars, bufVars
<1>1. CASE ConnectionEnds
  <2>1. PICK n \in 0 .. Len(stream) : stream' = SubSeq(stream, 1, n)
    BY <1>1 DEF ConnectionEnds
  <2>2. stream \in Seq(Piece)
    BY DEF IncomingInv, InTypeOK
  <2>3. stream' # <<>> => stream # <<>> /\ stream'[1] = stream[1]
    BY <2>1, <2>2, HeadOfCut
  <2>4. ended' /\ UNCHANGED <<loop, recv_buf_, acted, awaited>>
    BY <1>1 DEF ConnectionEnds
  <2> QED BY <2>3, <2>4 DEF Answerable, Coming, order
<1>2. CASE ConnectAnew
  BY <1>2 DEF ConnectAnew, Answerable, Coming
<1>3. CASE RecvAstray
  <2>1. strayed' /\ loop' = "stale" /\ UNCHANGED awaited
    BY <1>3 DEF RecvAstray, IncomingInv, AtStale
  <2> QED BY <2>1 DEF Answerable, Coming
<1>4. CASE RecvEnds
  BY <1>4 DEF RecvEnds, Answerable, Coming
<1>5. CASE RecvInterrupted
  BY <1>5 DEF RecvInterrupted, Answerable, Coming
<1>6. CASE UNCHANGED inVars
  BY <1>6 DEF inVars, Answerable, Coming, order
<1> QED BY <1>1, <1>2, <1>3, <1>4, <1>5, <1>6

(* A client that waits for the next message on a live connection, of which *)
(* it never took a part of a prefix for a length, has answered every order *)
(* sent on it that it can answer, or tried to and did not get the answer   *)
(* sent: none is dropped unseen with the connection left open, wherever    *)
(* recv() stops or is interrupted, which is what AnsweredOrClosed needs    *)
(* beside a client that runs.                                              *)
THEOREM OrdersAreNotForgotten ==
  InSpec => [](loop = "prefix" /\ stream = <<>> /\ ~ended /\ ~strayed
                 => awaited \subseteq unsent)
<1>1. InInit => Answerable /\ Coming
  BY DEF InInit, Answerable, Coming
<1>2. IncomingInv /\ Answerable /\ Coming /\ [InNext]_inVars => (Answerable /\ Coming)'
  BY ServerComing, PrefixComing, PayloadComing, DispatchComing, StillComing DEF InNext, Client
<1>3. IncomingInv /\ Coming =>
        (loop = "prefix" /\ stream = <<>> /\ ~ended /\ ~strayed => awaited \subseteq unsent)
  BY DEF Coming, InStream
<1> QED BY <1>1, <1>2, <1>3, IncomingInvariant, PTL DEF InSpec
=============================================================================
