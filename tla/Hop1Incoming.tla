---------------------------- MODULE Hop1Incoming ----------------------------
(***************************************************************************)
(* What the client makes of the stream the server sends it:                *)
(* handleIncomingLoop() in components/comm/hop1_client.cpp, a length       *)
(* prefix and a JSON payload per message, and onOrderReceived()'s answer.  *)
(*                                                                         *)
(* A message is four pieces: the first bytes of its prefix and the rest of *)
(* it, the half of the payload with the type and the order id, and the     *)
(* half with the waypoints.  recv() is asked for all of a prefix or a      *)
(* payload (MSG_WAITALL), but lwIP does not wait: it gives what has        *)
(* arrived, any nonempty part of it, and the code takes that for all.      *)
(* What is missing of a prefix is what the stack held; what is missing of  *)
(* a payload is what recv_buf_, which outlives messages and connections,   *)
(* holds of an earlier one.  A cut inside a piece counts as one before it, *)
(* and the rest of the piece is still to come.                             *)
(***************************************************************************)
EXTENDS Sequences, Naturals

CONSTANTS Msg,          \* the messages the server sends
          Kind,         \* what the client can do with each
          None,         \* what recv_buf_ holds before the first
          MaxMessages   \* bound of the model on messages in flight

\* An order; one with no waypoints; one that fits recv_buf_ and not the JSON
\* document or wps_scratch_; one whose id fills the acknowledgment's buffer;
\* a prefix out of range; an action, or JSON of no type or none at all.
ASSUME MessageAssumption ==
    /\ Kind \in [Msg -> {"order", "empty", "large", "long_id", "outsize", "other"}]
    /\ None \notin Msg
    /\ MaxMessages \in Nat \ {0}

VARIABLES loop,        \* where handleIncomingLoop() is
          recv_buf_,   \* the payload's two halves, by what they came from
          acted,       \* the id and the waypoints of the order just loaded
          stream,      \* sent on this connection and not received
          ended,       \* the connection ended: nothing is to follow
          awaited,     \* orders of this connection the server has no answer to
          unsent,      \* history: of these, those whose answer was not sent
          strayed      \* history: a length was made of a part of a prefix

bufVars == <<recv_buf_, acted>>
serverVars == <<ended, awaited, unsent>>
inVars == <<loop, bufVars, stream, serverVars, strayed>>

Piece == [part : {"first", "rest", "head", "tail"}, of : Msg]
Pieces(m) == <<[part |-> "first", of |-> m], [part |-> "rest", of |-> m],
               [part |-> "head", of |-> m], [part |-> "tail", of |-> m]>>

(* "astray": a payload is awaited, of a length that is not its message's.  *)
(* "stale": the payload to be parsed is in part an earlier one.            *)
InTypeOK ==
    /\ loop \in {"prefix", "payload", "astray", "dispatch", "stale", "closed"}
    /\ recv_buf_ \in [head : [part : {"head"}, of : Msg \cup {None}],
                      tail : [part : {"tail"}, of : Msg \cup {None}]]
    /\ acted \in [id : Msg \cup {None}, wps : Msg \cup {None}]
    /\ stream \in Seq(Piece)
    /\ ended \in BOOLEAN
    /\ awaited \subseteq Msg
    /\ unsent \subseteq Msg
    /\ strayed \in BOOLEAN

NoOrder == [id |-> None, wps |-> None]

InInit ==
    /\ loop = "closed"
    /\ recv_buf_ = [head |-> [part |-> "head", of |-> None],
                    tail |-> [part |-> "tail", of |-> None]]
    /\ acted = NoOrder
    /\ stream = <<>>
    /\ ended = TRUE
    /\ awaited = {} /\ unsent = {}
    /\ strayed = FALSE

-----------------------------------------------------------------------------
(* The server and the network.                                             *)

\* An order is sent again only when its answer was not sent.
ServerSends(m) ==
    /\ ~ended
    /\ Len(stream) + 4 <= 4 * MaxMessages
    /\ m \in awaited => m \in unsent
    /\ stream' = stream \o Pieces(m)
    /\ awaited' = IF Kind[m] \in {"order", "empty", "outsize"}
                  THEN awaited \cup {m} ELSE awaited
    /\ unsent' = unsent \ {m}
    /\ UNCHANGED <<loop, bufVars, ended, strayed>>

\* The server or the path goes, and what was not yet here goes with it.
ConnectionEnds ==
    /\ ~ended
    /\ ended' = TRUE
    /\ \E n \in 0 .. Len(stream) : stream' = SubSeq(stream, 1, n)
    /\ UNCHANGED <<loop, bufVars, awaited, unsent, strayed>>

\* taskLoop() closes the socket and connects again.
ConnectAnew ==
    /\ loop = "closed"
    /\ loop' = "prefix"
    /\ stream' = <<>> /\ ended' = FALSE
    /\ awaited' = {} /\ unsent' = {} /\ strayed' = FALSE
    /\ UNCHANGED bufVars

-----------------------------------------------------------------------------
(* handleIncomingLoop().                                                   *)

\* recv() takes the first n pieces.
Received(n) == n \in 0 .. Len(stream) /\ stream' = SubSeq(stream, n + 1, Len(stream))
Goto(next) == loop' = next /\ UNCHANGED serverVars

\* The server's text, as a length, is out of range.
AtText == stream[1].part \in {"head", "tail"}

\* Mutant: any length is taken for one.
RecvPrefixAnyLength ==
    /\ loop = "prefix"
    /\ stream # <<>>
    /\ Received(IF AtText \/ Len(stream) = 1 THEN 1 ELSE 2)
    /\ Goto("payload")
    /\ acted' = NoOrder
    /\ UNCHANGED <<recv_buf_, strayed>>

RecvPrefixWhole ==
    /\ stream[1].part = "first"
    /\ Received(2)
    /\ Goto(IF Kind[stream[1].of] = "outsize" THEN "closed" ELSE "payload")
    /\ UNCHANGED strayed

\* A part of a prefix and what the stack holds may make any length.
RecvPrefixShort ==
    /\ ~AtText
    /\ Received(1)
    /\ \/ Goto("closed") /\ UNCHANGED strayed
       \/ Goto("astray") /\ strayed' = TRUE

RecvText == AtText /\ Received(1) /\ Goto("closed") /\ UNCHANGED strayed

RecvPrefix ==
    /\ loop = "prefix"
    /\ stream # <<>>
    /\ RecvPrefixWhole \/ RecvPrefixShort \/ RecvText
    /\ acted' = NoOrder
    /\ UNCHANGED recv_buf_

\* Mutant: the rest of a payload that came short is skipped.
RecvPayloadSkipsRest ==
    /\ loop = "payload"
    /\ stream # <<>> \/ ended
    /\ LET all == IF Len(stream) >= 2 THEN 2 ELSE Len(stream)
       IN  \E n \in 0 .. all :
             /\ Received(all)
             /\ recv_buf_' = [head |-> IF n >= 1 THEN stream[1] ELSE recv_buf_.head,
                              tail |-> IF n = 2 THEN stream[2] ELSE recv_buf_.tail]
             /\ Goto(IF n = 2 THEN "dispatch" ELSE "stale")
    /\ UNCHANGED <<acted, strayed>>

\* r > 0 is all the code asks: the rest of the payload is the buffer's, also
\* of the first bytes of one that the connection's end has cut.
RecvPayload ==
    /\ loop = "payload"
    /\ stream # <<>> \/ ended
    /\ \E n \in 0 .. 2 :
          /\ Received(n)
          /\ recv_buf_' = [head |-> IF n >= 1 THEN stream[1] ELSE recv_buf_.head,
                           tail |-> IF n = 2 THEN stream[2] ELSE recv_buf_.tail]
          /\ Goto(IF n = 2 THEN "dispatch" ELSE "stale")
    /\ UNCHANGED <<acted, strayed>>

\* A length of no message takes whatever comes, and what it leaves in the
\* buffer may be taken for anything that was in it or came.
RecvAstray ==
    /\ loop = "astray"
    /\ stream # <<>> \/ ended
    /\ \E n \in 0 .. Len(stream) :
          /\ Received(n)
          /\ LET came(part) == {stream[i] : i \in {j \in 1 .. n : stream[j].part = part}}
             IN  recv_buf_' \in [head : came("head") \cup {recv_buf_.head},
                                 tail : came("tail") \cup {recv_buf_.tail}]
    /\ Goto("stale")
    /\ UNCHANGED <<acted, strayed>>

\* recv() gives 0 or an error.
RecvEnds ==
    /\ loop \in {"prefix", "payload", "astray"}
    /\ ended /\ stream = <<>>
    /\ Goto("closed")
    /\ UNCHANGED <<bufVars, stream, strayed>>

\* EINTR or EAGAIN in the payload's recv(): the loop starts over, and the
\* payload is still to come.
RecvInterrupted ==
    /\ loop \in {"payload", "astray"}
    /\ Goto("prefix")
    /\ UNCHANGED <<bufVars, stream, strayed>>

-----------------------------------------------------------------------------
(* deserializeJson() and the dispatch, with onOrderReceived() in it.  The  *)
(* first half says that it is an order, and which; the second, where to.   *)

order == recv_buf_.head.of
waypoints == recv_buf_.tail.of
Those(kinds) == {m \in Msg : Kind[m] \in kinds}
IsOrder == order \in Those({"order", "empty", "large", "long_id"})

(* sendAck(): an id too long for its buffer is not sent at all, and a      *)
(* message may be given up on a connection that is still there: no room in *)
(* the TCP window for five seconds, or an error of send().                 *)
Answers(m) ==
    \/ /\ Kind[m] # "long_id"
       /\ awaited' = awaited \ {m}
       /\ UNCHANGED unsent
    \/ /\ unsent' = unsent \cup ({m} \cap awaited)
       /\ UNCHANGED awaited

\* The halves of two messages are JSON when the lengths happen to fit.
LoadsOrder ==
    /\ IsOrder /\ waypoints \in Those({"order", "long_id"})
    /\ acted' = [id |-> order, wps |-> waypoints]
    /\ Answers(order)

\* Mutant: the client looks for waypoints and does without the callback when
\* there are none.
RejectsNothing ==
    /\ IsOrder /\ waypoints \in Those({"empty"})
    /\ UNCHANGED <<acted, awaited, unsent>>

RejectsEmpty ==
    /\ IsOrder /\ waypoints \in Those({"empty"})
    /\ Answers(order)
    /\ UNCHANGED acted

\* No order, none the client can take in, or no JSON: not a word to the server.
PassesOver ==
    /\ loop = "stale" \/ order \notin Those({"order", "empty", "long_id"})
    /\ UNCHANGED <<acted, awaited, unsent>>

Dispatch ==
    /\ loop \in {"dispatch", "stale"}
    /\ LoadsOrder \/ RejectsEmpty \/ PassesOver
    /\ loop' = "prefix"
    /\ UNCHANGED <<recv_buf_, stream, ended, strayed>>

Client == RecvPrefix \/ RecvPayload \/ RecvAstray \/ RecvEnds \/ Dispatch

InNext ==
    \/ Client \/ RecvInterrupted
    \/ \E m \in Msg : ServerSends(m)
    \/ ConnectionEnds \/ ConnectAnew

\* hop1_task runs.  Nothing is assumed of the server or the network.
InSpec == InInit /\ [][InNext]_inVars /\ WF_inVars(Client)

-----------------------------------------------------------------------------
\* What comes next is the rest of a payload, or nothing any more: the loop is
\* about to close the connection.
Closing == IF stream = <<>> THEN ended ELSE AtText

(* The vehicle may set out on an order that nobody sent: the id of one     *)
(* message and the waypoints of an earlier, when recv() gave a part of the *)
(* payload and the code took it for all (hop1_client.cpp:152).  Then it is *)
(* the last thing its connection brings, since the rest of the payload is  *)
(* read as a length; and nothing else makes such an order, wherever recv() *)
(* is interrupted, but a prefix that was itself read in part (:134).       *)
ActedOnWhole ==
    [][acted' # acted =>
          acted'.id = acted'.wps \/ (loop = "stale" /\ (Closing \/ strayed))]_inVars

(* An order is never passed over in silence: it is answered, or its answer *)
(* was tried, once, and not sent, or its connection is closed, also when   *)
(* an interrupted recv() or a payload read in part has put the client out  *)
(* of step.  Not so when a prefix was read in part: the length made of it  *)
(* may swallow messages and leave the client in step; nor an order too     *)
(* large for the JSON document, or with an id too long for the             *)
(* acknowledgment (hop1_client.cpp:134, :181, :265).                       *)
AnsweredOrClosed ==
    \A m \in Msg :
        m \in awaited ~> m \notin awaited \/ m \in unsent \/ strayed \/ loop = "closed"

=============================================================================
