----------------------------- MODULE Hop1Client -----------------------------
(***************************************************************************)
(* The TCP client of the server link (components/comm/hop1_client.cpp).    *)
(* hop1_task connects, sends the handshake, then receives and dispatches   *)
(* until the connection is lost, and starts over.  The state publisher     *)
(* sends on the same socket from its own task.  The client's state_ and    *)
(* sock_ are read and written without a lock; send_mux_ is held while one  *)
(* message goes out, a length prefix and then a payload.                   *)
(*                                                                         *)
(* One socket is open at a time, so lwIP gives every connection the same   *)
(* descriptor, and a sender that read sock_ on one connection may write to *)
(* the next.  Of the server only its parser is kept: what the bytes of the *)
(* present connection amount to.                                           *)
(*                                                                         *)
(* The WiFi station under it is brought up, and up again, by               *)
(* wifi_event_handler() in main/main.cpp; app_main() starts the client     *)
(* after 15 s without it.                                                  *)
(***************************************************************************)
EXTENDS Naturals

CONSTANTS CutSends    \* may a send time out when the connection is up?

ASSUME CutAssumption == CutSends \in BOOLEAN

VARIABLES
    state_,
    sock_open_,        \* sock_ >= 0
    backoff_ms,
    hop1, pub,         \* where the two tasks are
    send,              \* where each task is in sendEnvelope(), if it is
    send_mux_,         \* the task that holds it, or "free"
    wifi,              \* the station: an event to be handled, joining, or up
    net,               \* external: the connection behind the descriptor
    server,            \* external: the server's parser on this connection
    stale              \* history: the publisher's connection was closed under it

clientVars == <<state_, sock_open_, backoff_ms>>
sendVars == <<send, send_mux_>>
netVars == <<wifi, net, server>>
vars == <<clientVars, hop1, pub, sendVars, netVars, stale>>

Task == {"hop1", "pub"}

(* A parser is between messages, inside the message of a task (its prefix  *)
(* read, its payload awaited), cut off inside a prefix or a payload, or    *)
(* beyond that, with bytes that it takes for what they are not.            *)
Parser == {"between", "cut", "garbled"} \cup Task

TypeOK ==
    /\ state_ \in {"DISCONNECTED", "CONNECTING", "CONNECTED"}
    /\ sock_open_ \in BOOLEAN
    /\ backoff_ms \in {500, 1000, 2000, 4000, 8000, 15000}
    /\ hop1 \in {"loop", "handshake", "recv", "ack", "close", "forget", "closed"}
    /\ pub \in {"wait", "checked", "publish"}
    /\ send \in [Task -> {"no", "lock", "prefix", "payload", "unlock"}]
    /\ send_mux_ \in Task \cup {"free"}
    /\ wifi \in {"event", "joining", "up"}
    /\ net \in {"none", "up", "lost"}
    /\ server \in Parser
    /\ stale \in BOOLEAN

Init ==
    /\ state_ = "DISCONNECTED"
    /\ sock_open_ = FALSE
    /\ backoff_ms = 500
    /\ hop1 = "loop"
    /\ pub = "wait"
    /\ send = [t \in Task |-> "no"]
    /\ send_mux_ = "free"
    /\ wifi \in {"event", "joining", "up"}
    /\ net = "none"
    /\ server = "between"
    /\ stale = FALSE

-----------------------------------------------------------------------------
(* taskLoop() and connectOnce()                                            *)

StartConnecting ==
    /\ hop1 = "loop" /\ state_ = "DISCONNECTED"
    /\ state_' = "CONNECTING"
    /\ backoff_ms' = 500
    /\ UNCHANGED <<sock_open_, hop1, pub, sendVars, netVars, stale>>

\* Mutant: the wait is doubled without a limit.
ConnectFailsUncapped ==
    /\ hop1 = "loop" /\ state_ = "CONNECTING"
    /\ backoff_ms' = 2 * backoff_ms
    /\ UNCHANGED <<state_, sock_open_, hop1, pub, sendVars, netVars, stale>>

\* No address, no socket or no connection: wait, and double the wait.
ConnectFails ==
    /\ hop1 = "loop" /\ state_ = "CONNECTING"
    /\ backoff_ms' = IF 2 * backoff_ms > 15000 THEN 15000 ELSE 2 * backoff_ms
    /\ UNCHANGED <<state_, sock_open_, hop1, pub, sendVars, netVars, stale>>

\* connect() succeeds: sock_ is set, and the handshake is on its way.
Connect ==
    /\ hop1 = "loop" /\ state_ = "CONNECTING"
    /\ wifi = "up"
    /\ net' = "up" /\ server' = "between"
    /\ sock_open_' = TRUE
    /\ send' = [send EXCEPT !["hop1"] = "lock"]
    /\ hop1' = "handshake"
    /\ UNCHANGED <<state_, backoff_ms, pub, send_mux_, wifi, stale>>

\* Mutant: a handshake that fails fails the connection attempt.
ConnectedIfUp ==
    /\ hop1 = "handshake" /\ send["hop1"] = "no"
    /\ IF net = "up" THEN state_' = "CONNECTED" /\ backoff_ms' = 500 /\ hop1' = "recv"
                     ELSE hop1' = "loop" /\ UNCHANGED <<state_, backoff_ms>>
    /\ UNCHANGED <<sock_open_, pub, sendVars, netVars, stale>>

\* Whatever became of the handshake, connectOnce() returns true.
Connected ==
    /\ hop1 = "handshake" /\ send["hop1"] = "no"
    /\ state_' = "CONNECTED"
    /\ backoff_ms' = 500
    /\ hop1' = "recv"
    /\ UNCHANGED <<sock_open_, pub, sendVars, netVars, stale>>

(* handleIncomingLoop(): an order is acknowledged by its callback before   *)
(* the next message is read, also of those that came before the path went. *)
RecvOrder ==
    /\ hop1 = "recv"
    /\ send' = [send EXCEPT !["hop1"] = "lock"]
    /\ hop1' = "ack"
    /\ UNCHANGED <<clientVars, pub, send_mux_, netVars, stale>>

AckSent ==
    /\ hop1 = "ack" /\ send["hop1"] = "no"
    /\ hop1' = "recv"
    /\ UNCHANGED <<clientVars, pub, sendVars, netVars, stale>>

\* Mutant: a receive error is taken for a timeout, and the loop goes on.
RecvFailsOnBadLength ==
    /\ hop1 = "recv" /\ net = "up"
    /\ hop1' = "close"
    /\ UNCHANGED <<clientVars, pub, sendVars, netVars, stale>>

\* recv() returns 0 or an error, or a length out of range was read.
RecvFails ==
    /\ hop1 = "recv"
    /\ hop1' = "close"
    /\ UNCHANGED <<clientVars, pub, sendVars, netVars, stale>>

CloseSocket ==
    /\ hop1 = "close"
    /\ net' = "none"
    /\ stale' = (stale \/ send["pub"] # "no")
    /\ hop1' = "forget"
    /\ UNCHANGED <<clientVars, pub, sendVars, wifi, server>>

ForgetSocket ==
    /\ hop1 = "forget"
    /\ sock_open_' = FALSE
    /\ hop1' = "closed"
    /\ UNCHANGED <<state_, backoff_ms, pub, sendVars, netVars, stale>>

Disconnected ==
    /\ hop1 = "closed"
    /\ state_' = "DISCONNECTED"
    /\ hop1' = "loop"
    /\ UNCHANGED <<sock_open_, backoff_ms, pub, sendVars, netVars, stale>>

-----------------------------------------------------------------------------
(* publishState(): the guard, then sock_ read again as the argument.       *)

PublishState ==
    /\ pub = "wait"
    /\ state_ = "CONNECTED" /\ sock_open_
    /\ pub' = "checked"
    /\ UNCHANGED <<clientVars, hop1, sendVars, netVars, stale>>

\* sendEnvelope() returns at once on a negative descriptor.
TakeSocket ==
    /\ pub = "checked"
    /\ IF sock_open_
       THEN pub' = "publish" /\ send' = [send EXCEPT !["pub"] = "lock"]
       ELSE pub' = "wait" /\ UNCHANGED send
    /\ stale' = (sock_open_ /\ net = "none")
    /\ UNCHANGED <<clientVars, hop1, send_mux_, netVars>>

Published ==
    /\ pub = "publish" /\ send["pub"] = "no"
    /\ pub' = "wait"
    /\ stale' = FALSE
    /\ UNCHANGED <<clientVars, hop1, sendVars, netVars>>

-----------------------------------------------------------------------------
(* sendEnvelope() and sendFrame(), for either task.                        *)

At(t, from, to) == send[t] = from /\ send' = [send EXCEPT ![t] = to]

\* Mutant: the mutex is not created, and not waited for.
LockNothing(t) ==
    /\ At(t, "lock", "prefix")
    /\ send_mux_' = t
    /\ UNCHANGED <<clientVars, hop1, pub, netVars, stale>>

Lock(t) ==
    /\ At(t, "lock", "prefix")
    /\ send_mux_ = "free"
    /\ send_mux_' = t
    /\ UNCHANGED <<clientVars, hop1, pub, netVars, stale>>

\* What the parser makes of a whole prefix, a whole payload, a part of one.
Prefixed(t) == IF server = "between" THEN t ELSE "garbled"
Delivered(t) == IF server = t THEN "between" ELSE "garbled"
CutOff == IF server \in {"between"} \cup Task THEN "cut" ELSE "garbled"

(* All of it is sent: to the server when the connection is up, to nobody   *)
(* when it is lost without the client knowing.                             *)
SendPrefix(t) ==
    /\ At(t, "prefix", "payload")
    /\ net # "none"
    /\ server' = IF net = "up" THEN Prefixed(t) ELSE server
    /\ UNCHANGED <<clientVars, hop1, pub, send_mux_, wifi, net, stale>>

SendPayload(t) ==
    /\ At(t, "payload", "unlock")
    /\ net # "none"
    /\ server' = IF net = "up" THEN Delivered(t) ELSE server
    /\ UNCHANGED <<clientVars, hop1, pub, send_mux_, wifi, net, stale>>

(* send() returns an error or times out, with nothing or a part of what    *)
(* was left gone out, and sendFrame() returns.                             *)
SendFails(t) ==
    /\ At(t, "prefix", "unlock") \/ At(t, "payload", "unlock")
    /\ \/ net # "up" /\ UNCHANGED server
       \/ net = "up" /\ CutSends /\ server' \in {server, CutOff}
    /\ UNCHANGED <<clientVars, hop1, pub, send_mux_, wifi, net, stale>>

\* Mutant: a message that may not have gone out is sent again.
UnlockAndRetry(t) ==
    /\ At(t, "unlock", IF net = "up" THEN "no" ELSE "lock")
    /\ send_mux_' = "free"
    /\ UNCHANGED <<clientVars, hop1, pub, netVars, stale>>

Unlock(t) ==
    /\ At(t, "unlock", "no")
    /\ send_mux_' = "free"
    /\ UNCHANGED <<clientVars, hop1, pub, netVars, stale>>

SendEnvelope(t) ==
    Lock(t) \/ SendPrefix(t) \/ SendPayload(t) \/ SendFails(t) \/ Unlock(t)

-----------------------------------------------------------------------------
\* The peer, the access point or the path dies; nobody is told.
NetworkLost ==
    /\ net = "up"
    /\ net' = "lost"
    /\ UNCHANGED <<clientVars, hop1, pub, sendVars, wifi, server, stale>>

-----------------------------------------------------------------------------
(* wifi_event_handler(), on STA_START, STA_DISCONNECTED and GOT_IP.        *)

\* Mutant: the station is joined again only when no connection is thought open.
WifiReconnectsIdle ==
    /\ wifi = "event" /\ state_ = "DISCONNECTED"
    /\ wifi' = "joining"
    /\ UNCHANGED <<clientVars, hop1, pub, sendVars, net, server, stale>>

\* The station started, failed to join or was dropped: esp_wifi_connect().
WifiReconnects ==
    /\ wifi = "event"
    /\ wifi' = "joining"
    /\ UNCHANGED <<clientVars, hop1, pub, sendVars, net, server, stale>>

WifiJoins ==
    /\ wifi = "joining"
    /\ wifi' = "up"
    /\ UNCHANGED <<clientVars, hop1, pub, sendVars, net, server, stale>>

\* A connection of the client may or may not live through it.
WifiDrops ==
    /\ wifi \in {"joining", "up"}
    /\ wifi' = "event"
    /\ UNCHANGED <<clientVars, hop1, pub, sendVars, net, server, stale>>

Hop1Runs ==
    \/ StartConnecting \/ ConnectFails \/ Connect \/ Connected
    \/ AckSent \/ CloseSocket \/ ForgetSocket \/ Disconnected

PubRuns == PublishState \/ TakeSocket \/ Published

Next ==
    \/ Hop1Runs \/ RecvOrder \/ RecvFails
    \/ PubRuns
    \/ \E t \in Task : SendEnvelope(t)
    \/ NetworkLost
    \/ WifiReconnects \/ WifiJoins \/ WifiDrops

Spec == Init /\ [][Next]_vars

(* The tasks run; a send ends, by its time limit at the latest; the        *)
(* keep-alive finds a lost connection, once the messages that are in the   *)
(* receive buffer, which are finitely many, are dispatched; an access      *)
(* point or a server that is tried again and again accepts; and a task     *)
(* that asks for the mutex again and again, because the other is found     *)
(* holding it, gets it.                                                    *)
FairSpec ==
    /\ Spec
    /\ WF_vars(Hop1Runs)
    /\ WF_vars(WifiReconnects) /\ SF_vars(WifiJoins)
    /\ SF_vars(Connect)
    /\ SF_vars(RecvFails /\ net = "lost")
    /\ WF_vars(PubRuns)
    /\ \A t \in Task :
          /\ SF_vars(Lock(t))
          /\ WF_vars(SendPrefix(t) \/ SendPayload(t) \/ SendFails(t))
          /\ WF_vars(Unlock(t))

-----------------------------------------------------------------------------
(* A message the server has begun to read and its task has given up.       *)
Abandoned == server = "cut" \/ (server \in Task /\ send[server] # "payload")

(* The mutex keeps messages whole against each other: a stream goes wrong  *)
(* only behind a message that was given up half sent, or by a publisher    *)
(* that still holds the descriptor of a connection closed under it.        *)
GarbledByCause ==
    [][server # "garbled" /\ server' = "garbled" => Abandoned \/ stale]_vars

(* A send in progress ends: two tasks, one mutex and a dead peer never     *)
(* leave one of them waiting for ever.                                     *)
SendsEnd == \A t \in Task : send[t] # "no" ~> send[t] = "no"

(* A connection that died is noticed, even by a task that was sending.     *)
LostIsNoticed == net = "lost" ~> net # "lost"

(* The vehicle always comes back to listening to the server, whatever the  *)
(* WiFi, the server and the messages in progress go through.               *)
KeepsListening == []<>(hop1 = "recv")

=============================================================================
