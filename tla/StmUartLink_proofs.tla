------------------------- MODULE StmUartLink_proofs -------------------------
(***************************************************************************)
(* The two sides of StmUartLink.                                           *)
(*                                                                         *)
(* The receive task (StmUartRx): for any payloads, noise and sizes it      *)
(* stays within its buffer, and what it publishes was sent; and once out   *)
(* of step, by noise or by a start byte inside a frame, it is not deaf for *)
(* longer than the frame it then begins has room for (Counted).            *)
(*                                                                         *)
(* The age of the feedback (StmFeedback): for any width of the clock and   *)
(* any limits a feedback is fresh exactly when it is, and the link is not  *)
(* vouched for longer than that, as long as silence and stall together are *)
(* shorter than a turn of the clock.  The histories say how old a stamp    *)
(* really is; the invariant says that the clock and the stamp still tell,  *)
(* wrapped as they may be.                                                 *)
(***************************************************************************)
EXTENDS StmUartRx, StmFeedback, SequenceTheorems, TLAPS

LineByte == [val : Nat, of : Seq(Nat)]

(* What the task keeps between two bytes: how far into a frame it is, and  *)
(* a length field it has already compared with the longest payload.        *)
Buffered ==
    /\ rx_buf_ \in Seq(LineByte)
    /\ rx_state_ = "WAIT_STX" => rx_buf_ = <<>>
    /\ rx_state_ = "WAIT_HEADER" => Len(rx_buf_) \in 1 .. HeaderLen - 1
    /\ rx_state_ = "WAIT_PAYLOAD_CRC" =>
          /\ Plen(rx_buf_) \in 1 .. MaxPayload
          /\ Len(rx_buf_) \in HeaderLen .. HeaderLen + Plen(rx_buf_) + 1

RxInv == TypeOK /\ Buffered

(* On a clean frame that is still to be heard the task is in step with the *)
(* STM32, or swallows it into a frame begun before, or waits for the next  *)
(* one.  A frame begun before has room for so many frames and no more.     *)
Aligned ==
    /\ sent < Len(frame)
    /\ Len(rx_buf_) = sent
    /\ \A i \in 1 .. sent : rx_buf_[i] = frame[i]

Swallowing ==
    /\ rx_buf_ # <<>>
    /\ Len(rx_buf_) >= 1 + (missed * MinFrame) + sent

Skipping ==
    /\ rx_buf_ = <<>>
    /\ sent >= 1
    /\ missed < MissBound

Counted ==
    /\ missed <= MissBound
    /\ clean /\ ~heard => Aligned \/ Swallowing \/ Skipping

-----------------------------------------------------------------------------
(* A sequence with its last element taken off, spelt out.                  *)
LEMMA FrontLast ==
  ASSUME NEW S, NEW s \in Seq(S), s # <<>>
  PROVE  /\ Last(s) = s[Len(s)]
         /\ Front(s) = [i \in 1 .. Len(s) - 1 |-> s[i]]
         /\ DOMAIN Front(s) = 1 .. Len(s) - 1
<1>1. Len(s) \in Nat \ {0}
  OBVIOUS
<1>2. Last(s) = s[Len(s)]
  BY DEF Last
<1>3. Front(s) = [i \in 1 .. Len(s) - 1 |-> s[i]]
  BY <1>1 DEF Front
<1> QED BY <1>2, <1>3

(* A sequence with one element joined to it, spelt out.                    *)
LEMMA OneMore ==
  ASSUME NEW S, NEW s \in Seq(S), NEW t \in Seq(S), Len(t) = 1
  PROVE  /\ s \o t \in Seq(S)
         /\ Len(s \o t) = Len(s) + 1
         /\ \A i \in 1 .. Len(s) : (s \o t)[i] = s[i]
         /\ (s \o t)[Len(s) + 1] = t[1]
<1>1. Len(s) \in Nat
  OBVIOUS
<1>2. \A i \in 1 .. Len(s) + 1 :
        (s \o t)[i] = IF i <= Len(s) THEN s[i] ELSE t[i - Len(s)]
  <2>1. \A i \in 1 .. Len(s) + Len(t) :
          (s \o t)[i] = IF i <= Len(s) THEN s[i] ELSE t[i - Len(s)]
    BY ConcatProperties, Zenon
  <2> QED BY <2>1
<1>3. (s \o t)[Len(s) + 1] = t[1]
  <2>1. /\ Len(s) + 1 \in 1 .. Len(s) + 1
        /\ ~(Len(s) + 1 <= Len(s))
        /\ (Len(s) + 1) - Len(s) = 1
    BY <1>1
  <2> QED BY <1>2, <2>1, Zenon
<1> QED BY <1>1, <1>2, <1>3, ConcatProperties

(* The values of a sequence of bytes are a sequence as long.               *)
LEMMA ValuesOf ==
  ASSUME NEW s \in Seq(LineByte)
  PROVE  /\ Values(s) \in Seq(Nat)
         /\ Len(Values(s)) = Len(s)
         /\ \A i \in 1 .. Len(s) : Values(s)[i] = s[i].val
<1>1. DOMAIN s = 1 .. Len(s) /\ Len(s) \in Nat
  OBVIOUS
<1>2. ASSUME NEW i \in 1 .. Len(s) PROVE s[i].val \in Nat
  <2>1. s[i] \in LineByte
    BY <1>1
  <2> QED BY <2>1 DEF LineByte
<1>3. Values(s) = [i \in 1 .. Len(s) |-> s[i].val]
  BY <1>1 DEF Values
<1>4. Values(s) \in [1 .. Len(s) -> Nat]
  BY <1>2, <1>3
<1>5. Values(s) \in Seq(Nat)
  BY <1>1, <1>4
<1>6. Len(Values(s)) = Len(s)
  BY <1>1, <1>4, <1>5
<1> QED BY <1>3, <1>5, <1>6

(* What stm_link_encode() makes: a header, a payload of the announced      *)
(* length, and two CRC bytes, of which the last completes exactly those    *)
(* before it.                                                              *)
LEMMA FrameShape ==
  ASSUME NEW f \in Frame
  PROVE  /\ f \in Seq(LineByte)
         /\ Plen(f) \in 1 .. MaxPayload
         /\ Len(f) = HeaderLen + Plen(f) + CrcLen
         /\ \A i \in 1 .. Len(f) - 1 : f[i].of = <<>>
         /\ f[Len(f)].of = [i \in 1 .. Len(f) - 1 |-> f[i].val]
         /\ Id(f) = MSG_MOTION_FB => Payload(f) \in [1 .. FbLen -> PayloadByte]
         /\ \/ Id(f) = MSG_MOTION_FB /\ Plen(f) = FbLen
            \/ Id(f) = MSG_SAFETY_EVENT /\ Plen(f) = SafetyLen
         /\ f[1].val = STX
<1>1. PICK id \in {MSG_MOTION_FB, MSG_SAFETY_EVENT}, n \in 1 .. MaxPayload :
        /\ f \in FramesOf(id, n)
        /\ id = MSG_MOTION_FB => n = FbLen
        /\ id = MSG_SAFETY_EVENT => n = SafetyLen
  <2>1. SafetyLen \in 1 .. MaxPayload /\ FbLen \in 1 .. MaxPayload
        /\ MSG_MOTION_FB # MSG_SAFETY_EVENT
    BY LinkAssumption
  <2> QED BY <2>1 DEF Frame
<1>18. PICK seq \in SeqByte, p \in [1 .. n -> PayloadByte], low \in CrcByte, high \in CrcByte :
         f = Encode(id, seq, p, low, high)
  BY <1>1 DEF FramesOf
<1>2. /\ p \in Seq(Nat) /\ Len(p) = n /\ n \in Nat /\ n >= 1
      /\ low \in Nat /\ high \in Nat /\ id \in Nat /\ seq \in Nat
      /\ STX \in Nat /\ VERSION \in Nat
  BY LinkAssumption
<1> DEFINE start == <<STX, VERSION, id, seq, Len(p)>> \o p
           body == start \o <<low>>
<1>20. /\ start \in Seq(Nat) /\ Len(start) = HeaderLen + n
       /\ start[1] = STX /\ start[3] = id /\ start[5] = n
       /\ \A i \in 1 .. n : start[HeaderLen + i] = p[i]
  BY <1>2 DEF HeaderLen
<1> HIDE DEF start
<1>3. /\ body \in Seq(Nat)
      /\ Len(body) = HeaderLen + n + 1
      /\ DOMAIN body = 1 .. HeaderLen + n + 1
      /\ body[1] = STX /\ body[3] = id /\ body[5] = n
      /\ \A i \in 1 .. n : body[HeaderLen + i] = p[i]
  <2>1. <<low>> \in Seq(Nat) /\ Len(<<low>>) = 1
    BY <1>2
  <2>2. /\ body \in Seq(Nat) /\ Len(body) = HeaderLen + n + 1
        /\ \A i \in 1 .. HeaderLen + n : body[i] = start[i]
    BY <1>20, <2>1, OneMore
  <2> HIDE DEF body
  <2>3. /\ 1 \in 1 .. HeaderLen + n /\ 3 \in 1 .. HeaderLen + n /\ 5 \in 1 .. HeaderLen + n
        /\ \A i \in 1 .. n : HeaderLen + i \in 1 .. HeaderLen + n
    BY <1>2 DEF HeaderLen
  <2>4. DOMAIN body = 1 .. HeaderLen + n + 1
    BY <2>2
  <2> QED BY <1>20, <2>2, <2>3, <2>4
<1> DEFINE head == [i \in DOMAIN body |-> Plain(body[i])]
           tail == <<[val |-> high, of |-> body]>>
<1>8. f = head \o tail
  BY <1>18 DEF Encode, start
<1> HIDE DEF body
<1>5. /\ head \in Seq(LineByte) /\ Len(head) = HeaderLen + n + 1
      /\ \A i \in 1 .. HeaderLen + n + 1 : head[i] = [val |-> body[i], of |-> <<>>]
  <2>1. \A i \in 1 .. HeaderLen + n + 1 : Plain(body[i]) \in LineByte
    BY <1>3 DEF Plain, LineByte
  <2>2. HeaderLen + n + 1 \in Nat
    BY <1>2 DEF HeaderLen
  <2>3. head = [i \in 1 .. HeaderLen + n + 1 |-> Plain(body[i])]
    BY <1>3
  <2>4. head \in [1 .. HeaderLen + n + 1 -> LineByte]
    BY <2>1, <2>3
  <2> HIDE DEF head
  <2>5. head \in Seq(LineByte) /\ Len(head) = HeaderLen + n + 1
    BY <2>2, <2>4
  <2> QED BY <2>3, <2>5 DEF Plain
<1> HIDE DEF head
<1>7. tail \in Seq(LineByte) /\ Len(tail) = 1 /\ tail[1] = [val |-> high, of |-> body]
  <2>1. [val |-> high, of |-> body] \in LineByte
    BY <1>2, <1>3 DEF LineByte
  <2> QED BY <2>1
<1> HIDE DEF tail
<1>9. HeaderLen + n + 1 \in Nat /\ HeaderLen + n + 1 >= 5
  BY <1>2 DEF HeaderLen
<1>11. /\ f \in Seq(LineByte) /\ Len(f) = HeaderLen + n + 1 + 1
       /\ \A i \in 1 .. HeaderLen + n + 1 : f[i] = head[i]
       /\ f[HeaderLen + n + 1 + 1] = tail[1]
  BY <1>5, <1>7, <1>8, OneMore
<1>12. ASSUME NEW i \in 1 .. HeaderLen + n + 1
       PROVE  f[i].val = body[i] /\ f[i].of = <<>>
  <2>1. f[i] = head[i]
    BY <1>11
  <2>2. head[i] = [val |-> body[i], of |-> <<>>]
    BY <1>5
  <2> QED BY <2>1, <2>2
<1>13. f[Len(f)].of = body
  BY <1>7, <1>11
<1>14. Id(f) = id /\ Plen(f) = n /\ f[1].val = STX
  <2>1. 1 \in 1 .. HeaderLen + n + 1 /\ 3 \in 1 .. HeaderLen + n + 1
        /\ 5 \in 1 .. HeaderLen + n + 1
    BY <1>9
  <2> QED BY <1>3, <1>12, <2>1 DEF Id, Plen
<1>15. body = [i \in 1 .. HeaderLen + n + 1 |-> f[i].val]
  <2>1. body = [i \in 1 .. HeaderLen + n + 1 |-> body[i]]
    BY <1>3
  <2>2. [i \in 1 .. HeaderLen + n + 1 |-> body[i]]
          = [i \in 1 .. HeaderLen + n + 1 |-> f[i].val]
    BY <1>12
  <2> QED BY <2>1, <2>2
<1>16. Len(f) - 1 = HeaderLen + n + 1 /\ Len(f) = HeaderLen + n + CrcLen
  BY <1>2, <1>11 DEF CrcLen, HeaderLen
<1>10. Payload(f) = p
  <2>2. Values(f) \in Seq(Nat) /\ Len(Values(f)) = HeaderLen + n + 1 + 1
    BY <1>11, ValuesOf
  <2>3. \A i \in 1 .. n : Values(f)[HeaderLen + i] = p[i]
    <3>1. \A i \in 1 .. n : HeaderLen + i \in 1 .. HeaderLen + n + 1
      BY <1>2 DEF HeaderLen
    <3>2. \A i \in 1 .. HeaderLen + n + 1 : Values(f)[i] = body[i]
      <4> SUFFICES ASSUME NEW i \in 1 .. HeaderLen + n + 1 PROVE Values(f)[i] = body[i]
        OBVIOUS
      <4>1. i \in 1 .. Len(f)
        BY <1>9, <1>11
      <4> QED BY <1>11, <1>12, <4>1, ValuesOf
    <3> QED BY <1>3, <3>1, <3>2
  <2>4. SubSeq(Values(f), HeaderLen + 1, HeaderLen + n)
          = [i \in 1 .. n |-> Values(f)[HeaderLen + i]]
    BY <1>2, <2>2 DEF HeaderLen
  <2>5. p = [i \in 1 .. n |-> p[i]]
    OBVIOUS
  <2>6. [i \in 1 .. n |-> Values(f)[HeaderLen + i]] = [i \in 1 .. n |-> p[i]]
    BY <2>3
  <2> QED BY <1>14, <2>4, <2>5, <2>6 DEF Payload
<1>17. /\ Id(f) = MSG_MOTION_FB => Payload(f) \in [1 .. FbLen -> PayloadByte]
       /\ \/ Id(f) = MSG_MOTION_FB /\ Plen(f) = FbLen
          \/ Id(f) = MSG_SAFETY_EVENT /\ Plen(f) = SafetyLen
  BY <1>1, <1>10, <1>14
<1> QED BY <1>11, <1>12, <1>13, <1>14, <1>15, <1>16, <1>17

(* Bytes that pass for a feedback or an event are the frame on the wire,   *)
(* whole, and the byte that completed them is its last.                    *)
LEMMA OnlyWhatWasSent ==
  ASSUME NEW f \in Frame, NEW k \in 1 .. Len(f),
         NEW buf \in Seq(LineByte),
         Len(buf) = HeaderLen + Plen(buf) + CrcLen, Plen(buf) \in 1 .. MaxPayload,
         CrcOk(buf),
         buf[Len(buf)] = f[k] \/ buf[Len(buf)].of = <<>>
  PROVE  /\ buf[Len(buf)] = f[k]
         /\ k = Len(f)
         /\ Id(buf) = Id(f)
         /\ Payload(buf) = Payload(f)
<1> DEFINE m == Len(buf) - 1
<1>1. m \in Nat /\ m = HeaderLen + Plen(buf) + 1 /\ m >= 7 /\ Len(buf) = m + 1
  BY LinkAssumption DEF HeaderLen, CrcLen
<1>2. /\ Last(buf) = buf[m + 1]
      /\ Front(buf) = [i \in 1 .. m |-> buf[i]]
  <2>1. buf # <<>>
    BY <1>1
  <2> QED BY <1>1, <2>1, FrontLast
<1> HIDE DEF m
<1>3. Front(buf) \in Seq(LineByte) /\ Len(Front(buf)) = m
  <2>1. Front(buf) \in [1 .. m -> LineByte]
    <3>1. \A i \in 1 .. m : buf[i] \in LineByte
      BY <1>1
    <3> QED BY <1>2, <3>1
  <2> QED BY <1>1, <2>1
<1>4. /\ Values(Front(buf)) \in Seq(Nat)
      /\ Len(Values(Front(buf))) = m
      /\ \A i \in 1 .. m : Values(Front(buf))[i] = buf[i].val
  BY <1>2, <1>3, ValuesOf
<1>5. buf[m + 1].of = Values(Front(buf))
  BY <1>2 DEF CrcOk
<1>6. buf[m + 1].of # <<>>
  BY <1>1, <1>4, <1>5
<1>7. buf[m + 1] = f[k]
  BY <1>1, <1>6
<1>8. /\ Len(f) \in Nat /\ Len(f) = HeaderLen + Plen(f) + CrcLen /\ Plen(f) \in 1 .. MaxPayload
      /\ f \in Seq(LineByte)
  <2>1. f \in Seq(LineByte) /\ Len(f) = HeaderLen + Plen(f) + CrcLen /\ Plen(f) \in 1 .. MaxPayload
    BY FrameShape
  <2>2. Len(f) \in Nat
    BY <2>1
  <2> QED BY <2>1, <2>2
<1>9. k = Len(f)
  <2>1. \A i \in 1 .. Len(f) - 1 : f[i].of = <<>>
    BY FrameShape
  <2>2. f[k].of # <<>>
    BY <1>6, <1>7
  <2>3. k \notin 1 .. Len(f) - 1
    BY <2>1, <2>2
  <2> QED BY <1>8, <2>3
<1>10. Values(Front(buf)) = [i \in 1 .. Len(f) - 1 |-> f[i].val]
  BY <1>5, <1>7, <1>9, FrameShape
<1>11. Len(f) = m + 1
  <2>1. DOMAIN Values(Front(buf)) = 1 .. m
    BY <1>4
  <2>2. DOMAIN Values(Front(buf)) = 1 .. Len(f) - 1
    BY <1>10
  <2>3. m = Len(f) - 1
    BY <1>1, <1>8, <2>1, <2>2
  <2> QED BY <1>8, <2>3
<1>12. \A i \in 1 .. m : f[i].val = buf[i].val
  <2>1. Len(f) - 1 = m
    BY <1>1, <1>11
  <2> QED BY <1>4, <1>10, <2>1
<1>13. Id(buf) = Id(f) /\ Plen(buf) = Plen(f)
  <2>1. 3 \in 1 .. m /\ 5 \in 1 .. m
    BY <1>1
  <2> QED BY <1>12, <2>1 DEF Id, Plen
<1>14. Payload(buf) = Payload(f)
  <2> DEFINE n == Plen(f)
  <2>1. n \in Nat /\ HeaderLen + n + 1 = m /\ n \in 1 .. MaxPayload
    BY <1>1, <1>8, <1>13
  <2> HIDE DEF n
  <2>2. /\ Values(buf) \in Seq(Nat) /\ Len(Values(buf)) = m + 1
        /\ Values(f) \in Seq(Nat) /\ Len(Values(f)) = m + 1
        /\ \A i \in 1 .. m + 1 : Values(buf)[i] = buf[i].val /\ Values(f)[i] = f[i].val
    BY <1>1, <1>8, <1>11, ValuesOf
  <2>3. \A i \in 1 .. n : Values(buf)[HeaderLen + i] = Values(f)[HeaderLen + i]
    <3>1. ASSUME NEW i \in 1 .. n
          PROVE  HeaderLen + i \in 1 .. m /\ HeaderLen + i \in 1 .. m + 1
      BY <2>1 DEF HeaderLen, CrcLen
    <3> QED BY <1>12, <2>2, <3>1
  <2>4. /\ SubSeq(Values(buf), HeaderLen + 1, HeaderLen + n)
             = [i \in 1 .. n |-> Values(buf)[HeaderLen + i]]
        /\ SubSeq(Values(f), HeaderLen + 1, HeaderLen + n)
             = [i \in 1 .. n |-> Values(f)[HeaderLen + i]]
    <3>1. ASSUME NEW t \in Seq(Nat), Len(t) = m + 1
          PROVE  SubSeq(t, HeaderLen + 1, HeaderLen + n) = [i \in 1 .. n |-> t[HeaderLen + i]]
      BY <2>1, <3>1 DEF HeaderLen, CrcLen
    <3> QED BY <2>2, <3>1
  <2>5. [i \in 1 .. n |-> Values(buf)[HeaderLen + i]]
          = [i \in 1 .. n |-> Values(f)[HeaderLen + i]]
    BY <2>3
  <2> QED BY <1>13, <2>4, <2>5 DEF Payload, n
<1> QED BY <1>1, <1>7, <1>9, <1>13, <1>14

-----------------------------------------------------------------------------
(* What processing leaves, of whatever bytes it is given.                  *)
LEMMA RxBuffers ==
  ASSUME RxInv, NEW byte \in LineByte, Rx(byte)
  PROVE  Buffered'
<1>1. rx_buf_ \in Seq(LineByte) /\ Len(rx_buf_) \in Nat
  BY DEF RxInv, Buffered
<1>2. /\ Append(rx_buf_, byte) \in Seq(LineByte)
      /\ Len(Append(rx_buf_, byte)) = Len(rx_buf_) + 1
      /\ \A i \in 1 .. Len(rx_buf_) : Append(rx_buf_, byte)[i] = rx_buf_[i]
      /\ Len(Append(rx_buf_, byte)) \in Nat
  BY <1>1
<1>3. <<>> \in Seq(LineByte) /\ <<byte>> \in Seq(LineByte) /\ Len(<<byte>>) = 1
  OBVIOUS
<1>4. CASE rx_buf_' = <<>> /\ rx_state_' = "WAIT_STX"
  BY <1>3, <1>4 DEF Buffered
<1>5. CASE RxStx(byte)
  <2>1. \/ rx_buf_' = <<>> /\ rx_state_' = "WAIT_STX"
        \/ rx_buf_' = <<byte>> /\ rx_state_' = "WAIT_HEADER"
    BY <1>5 DEF RxStx, WaitOn
  <2>2. CASE rx_buf_' = <<byte>> /\ rx_state_' = "WAIT_HEADER"
    BY <1>3, <2>2 DEF Buffered, HeaderLen, CrcLen
  <2> QED BY <1>4, <2>1, <2>2
<1>6. CASE RxHeader(byte)
  <2> DEFINE buf == Append(rx_buf_, byte)
  <2>1. Len(rx_buf_) \in 1 .. HeaderLen - 1
    BY <1>6 DEF RxHeader, RxInv, Buffered
  <2>2. buf \in Seq(LineByte) /\ Len(buf) \in 2 .. HeaderLen
    <3>1. HeaderLen = 5 /\ Len(buf) = Len(rx_buf_) + 1
      BY <1>2 DEF HeaderLen, CrcLen
    <3>2. \A l \in 1 .. HeaderLen - 1 : l + 1 \in 2 .. HeaderLen
      BY DEF HeaderLen, CrcLen
    <3> QED BY <1>2, <2>1, <3>1, <3>2, Zenon
  <2>3. Len(buf) = HeaderLen => Plen(buf) \in Nat
    <3>1. Len(buf) = HeaderLen => buf[5] \in LineByte
      BY <2>2 DEF HeaderLen, CrcLen
    <3> QED BY <3>1 DEF Plen, LineByte
  <2> HIDE DEF buf
  <2>4. \/ Len(buf) < HeaderLen /\ rx_state_' = "WAIT_HEADER" /\ rx_buf_' = buf
        \/ rx_buf_' = <<>> /\ rx_state_' = "WAIT_STX"
        \/ /\ Len(buf) >= HeaderLen /\ ~(Plen(buf) > MaxPayload) /\ Plen(buf) # 0
           /\ rx_state_' = "WAIT_PAYLOAD_CRC" /\ rx_buf_' = buf
    <3>1. Len(buf) < HeaderLen \/ Len(buf) >= HeaderLen
      BY <2>2 DEF HeaderLen, CrcLen
    <3>2. CASE Len(buf) < HeaderLen
      <4>1. ~(Len(buf) >= HeaderLen)
        BY <2>2, <3>2 DEF HeaderLen, CrcLen
      <4> QED BY <1>6, <3>2, <4>1 DEF RxHeader, WaitOn, Processed, buf
    <3>3. CASE Len(buf) >= HeaderLen
      <4>1. ~(Len(buf) < HeaderLen)
        BY <2>2, <3>3 DEF HeaderLen, CrcLen
      <4> QED BY <1>6, <3>3, <4>1 DEF RxHeader, WaitOn, Processed, buf
    <3> QED BY <3>1, <3>2, <3>3
  <2>5. CASE Len(buf) < HeaderLen /\ rx_state_' = "WAIT_HEADER" /\ rx_buf_' = buf
    <3>1. Len(buf) \in 1 .. HeaderLen - 1
      <4>1. \A l \in 2 .. HeaderLen : l < HeaderLen => l \in 1 .. HeaderLen - 1
        BY DEF HeaderLen, CrcLen
      <4> QED BY <2>2, <2>5, <4>1, Zenon
    <3>2. rx_buf_' \in Seq(LineByte) /\ Len(rx_buf_') \in 1 .. HeaderLen - 1
      BY <2>2, <2>5, <3>1, Zenon
    <3>3. rx_state_' # "WAIT_STX" /\ rx_state_' # "WAIT_PAYLOAD_CRC"
      BY <2>5
    <3> QED BY <3>2, <3>3 DEF Buffered
  <2>6. CASE /\ Len(buf) >= HeaderLen /\ ~(Plen(buf) > MaxPayload) /\ Plen(buf) # 0
             /\ rx_state_' = "WAIT_PAYLOAD_CRC" /\ rx_buf_' = buf
    <3>1. Len(buf) = HeaderLen /\ Plen(buf) \in 1 .. MaxPayload
      <4>1. Len(buf) = HeaderLen
        <5>1. \A l \in 2 .. HeaderLen : l >= HeaderLen => l = HeaderLen
          BY DEF HeaderLen, CrcLen
        <5> QED BY <2>2, <2>6, <5>1, Zenon
      <4>2. Plen(buf) \in Nat /\ Plen(buf) # 0 /\ ~(Plen(buf) > MaxPayload) /\ MaxPayload \in Nat
        BY <2>3, <2>6, <4>1, LinkAssumption
      <4>3. Plen(buf) \in 1 .. MaxPayload
        BY <4>2
      <4> QED BY <4>1, <4>3
    <3>2. Plen(rx_buf_') = Plen(buf)
      BY <2>6
    <3>3. Len(buf) \in HeaderLen .. HeaderLen + Plen(buf) + 1
      BY <3>1, LinkAssumption DEF HeaderLen, CrcLen
    <3> QED BY <2>2, <2>6, <3>1, <3>2, <3>3 DEF Buffered
  <2> QED BY <1>4, <2>4, <2>5, <2>6
<1>7. CASE RxPayloadCrc(byte)
  <2> DEFINE buf == Append(rx_buf_, byte)
  <2>1. /\ Plen(rx_buf_) \in 1 .. MaxPayload
        /\ Len(rx_buf_) \in HeaderLen .. HeaderLen + Plen(rx_buf_) + 1
    BY <1>7 DEF RxPayloadCrc, RxInv, Buffered
  <2>2. Plen(buf) = Plen(rx_buf_)
    BY <1>2, <2>1, LinkAssumption DEF Plen, HeaderLen, CrcLen
  <2>3. /\ buf \in Seq(LineByte)
        /\ Len(buf) \in HeaderLen + 1 .. HeaderLen + Plen(buf) + CrcLen
    BY <1>2, <2>1, <2>2, LinkAssumption DEF HeaderLen, CrcLen
  <2> HIDE DEF buf
  <2>4. CASE Len(buf) >= HeaderLen + Plen(buf) + CrcLen
    BY <1>4, <1>7, <2>4 DEF RxPayloadCrc, Processed, buf
  <2>5. CASE ~(Len(buf) >= HeaderLen + Plen(buf) + CrcLen)
    <3>1. rx_state_' = "WAIT_PAYLOAD_CRC" /\ rx_buf_' = buf
      BY <1>7, <2>5 DEF RxPayloadCrc, WaitOn, buf
    <3>2. Plen(buf) \in 1 .. MaxPayload /\ Len(buf) \in HeaderLen .. HeaderLen + Plen(buf) + 1
      BY <2>1, <2>2, <2>3, <2>5, LinkAssumption DEF HeaderLen, CrcLen
    <3>3. Plen(rx_buf_') = Plen(buf)
      BY <3>1
    <3> QED BY <2>3, <3>1, <3>2, <3>3 DEF Buffered
  <2> QED BY <2>4, <2>5
<1> QED BY <1>5, <1>6, <1>7 DEF Rx

(* What a byte of the frame, or a byte that is no CRC, may publish.        *)
LEMMA RxPublishes ==
  ASSUME RxInv, NEW byte \in LineByte, NEW k \in 1 .. Len(frame),
         byte = frame[k] \/ byte.of = <<>>, Rx(byte)
  PROVE  /\ rx_state_' \in {"WAIT_STX", "WAIT_HEADER", "WAIT_PAYLOAD_CRC"}
         /\ safety_evts' \in 0 .. QueueLen
         /\ heard' \in BOOLEAN
         /\ latest_fb_' # latest_fb_ =>
               /\ byte = frame[k] /\ k = Len(frame)
               /\ Id(frame) = MSG_MOTION_FB /\ latest_fb_' = Payload(frame)
<1> DEFINE buf == Append(rx_buf_, byte)
           Sent == /\ byte = frame[k] /\ k = Len(frame)
                   /\ Id(frame) = MSG_MOTION_FB /\ Payload(buf) = Payload(frame)
<1>1. frame \in Frame /\ safety_evts \in 0 .. QueueLen /\ QueueLen \in Nat
  BY LinkAssumption DEF RxInv, TypeOK
<1>2. heard \in BOOLEAN
  BY DEF RxInv, TypeOK
<1>3. IsFeedback(buf) /\ RxPayloadCrc(byte)
        /\ Len(buf) >= HeaderLen + Plen(buf) + CrcLen => Sent
  <2> SUFFICES ASSUME IsFeedback(buf), RxPayloadCrc(byte),
                      Len(buf) >= HeaderLen + Plen(buf) + CrcLen
               PROVE  Sent
    OBVIOUS
  <2>1. /\ rx_buf_ \in Seq(LineByte)
        /\ Plen(rx_buf_) \in 1 .. MaxPayload
        /\ Len(rx_buf_) \in HeaderLen .. HeaderLen + Plen(rx_buf_) + 1
    BY DEF RxPayloadCrc, RxInv, Buffered
  <2>2. /\ buf \in Seq(LineByte) /\ Len(buf) = Len(rx_buf_) + 1
        /\ \A i \in 1 .. Len(rx_buf_) : buf[i] = rx_buf_[i]
        /\ buf[Len(rx_buf_) + 1] = byte
    BY <2>1
  <2>3. Plen(buf) = Plen(rx_buf_)
    BY <2>1, <2>2, LinkAssumption DEF Plen, HeaderLen, CrcLen
  <2> HIDE DEF buf
  <2>4. Len(buf) = HeaderLen + Plen(buf) + CrcLen
    <3>1. \A p \in 1 .. MaxPayload : \A l \in HeaderLen .. HeaderLen + p + 1 :
            l + 1 >= HeaderLen + p + CrcLen => l + 1 = HeaderLen + p + CrcLen
      BY LinkAssumption DEF HeaderLen, CrcLen
    <3> QED BY <2>1, <2>2, <2>3, <3>1, Zenon
  <2>5. Plen(buf) \in 1 .. MaxPayload /\ buf[Len(buf)] = byte
    BY <2>1, <2>2, <2>3
  <2>6. CrcOk(buf) /\ Id(buf) = MSG_MOTION_FB
    BY DEF IsFeedback
  <2> QED BY <1>1, <2>2, <2>4, <2>5, <2>6, OnlyWhatWasSent
<1>4. IsFeedback(buf) \/ IsSafetyEvent(buf) => Plen(buf) # 0
  <2>1. ~(0 > 0)
    OBVIOUS
  <2> QED BY <2>1 DEF IsFeedback, IsSafetyEvent, CrcOk
<1> HIDE DEF buf, Sent
<1>5. CASE /\ ProcessFrame(buf) /\ rx_state_' = "WAIT_STX"
           /\ IsFeedback(buf) => Sent
  <2>1. heard' \in BOOLEAN
    BY <1>2, <1>5, Zenon DEF ProcessFrame
  <2>2. safety_evts' \in 0 .. QueueLen
    <3>1. \/ safety_evts' = safety_evts + 1 /\ safety_evts < QueueLen
          \/ safety_evts' = safety_evts
      BY <1>5, Zenon DEF ProcessFrame
    <3> QED BY <1>1, <3>1
  <2>3. latest_fb_' # latest_fb_ => Sent /\ latest_fb_' = Payload(buf)
    BY <1>5, Zenon DEF ProcessFrame
  <2> QED BY <1>5, <2>1, <2>2, <2>3, Zenon DEF Sent
<1>6. CASE /\ rx_state_' \in {"WAIT_STX", "WAIT_HEADER", "WAIT_PAYLOAD_CRC"}
           /\ UNCHANGED <<latest_fb_, safety_evts, heard>>
  BY <1>1, <1>2, <1>6
<1>7. CASE RxStx(byte)
  BY <1>6, <1>7 DEF RxStx, WaitOn
<1>8. CASE RxHeader(byte)
  <2>1. \/ \E s \in {"WAIT_STX", "WAIT_HEADER", "WAIT_PAYLOAD_CRC"}, b \in {<<>>, buf} :
             WaitOn(s, b)
        \/ Plen(buf) = 0 /\ Processed(buf)
    <3>1. \E g, h \in BOOLEAN :
            CASE g -> WaitOn("WAIT_HEADER", buf)
              [] h /\ (Plen(buf) > MaxPayload) -> WaitOn("WAIT_STX", <<>>)
              [] h /\ (Plen(buf) = 0) -> Processed(buf)
              [] OTHER -> WaitOn("WAIT_PAYLOAD_CRC", buf)
      <4>1. (Len(buf) < HeaderLen) \in BOOLEAN /\ (Len(buf) >= HeaderLen) \in BOOLEAN
        OBVIOUS
      <4> QED BY <1>8, <4>1 DEF RxHeader, buf
    <3> QED BY <3>1
  <2>2. CASE Plen(buf) = 0 /\ Processed(buf)
    BY <1>4, <1>5, <2>2 DEF Processed
  <2> QED BY <1>6, <2>1, <2>2 DEF WaitOn
<1>9. CASE RxPayloadCrc(byte)
  <2>1. CASE Len(buf) >= HeaderLen + Plen(buf) + CrcLen
    BY <1>3, <1>5, <1>9, <2>1 DEF RxPayloadCrc, Processed, buf
  <2>2. CASE ~(Len(buf) >= HeaderLen + Plen(buf) + CrcLen)
    BY <1>6, <1>9, <2>2 DEF RxPayloadCrc, WaitOn, buf
  <2> QED BY <2>1, <2>2
<1> QED BY <1>7, <1>8, <1>9 DEF Rx

-----------------------------------------------------------------------------
LEMMA InitInv == Init => RxInv
<1> SUFFICES ASSUME Init PROVE RxInv
  OBVIOUS
<1>1. Len(frame) \in Nat
  <2>1. frame \in Seq(LineByte)
    BY FrameShape DEF Init
  <2> QED BY <2>1
<1>2. sent \in 0 .. Len(frame) /\ noise \in 0 .. MaxNoise /\ safety_evts \in 0 .. QueueLen
  BY <1>1, LinkAssumption DEF Init
<1>3. TypeOK
  BY <1>2 DEF Init, TypeOK
<1>4. Buffered
  BY DEF Init, Buffered
<1> QED BY <1>3, <1>4 DEF RxInv

(* The frames there may be are the same in every state.                    *)
LEMMA SameTypes == Frame' = Frame /\ NoFeedback' = NoFeedback
  BY DEF Frame, NoFeedback, Encode, Plain

(* A byte on the wire, from the frame or made of noise, keeps the state    *)
(* well formed, and only the frame's last byte makes a feedback.           *)
LEMMA ByteInv ==
  ASSUME RxInv, NEW byte \in LineByte, NEW k \in 1 .. Len(frame),
         byte = frame[k] \/ byte.of = <<>>, Rx(byte),
         frame' = frame, sent' \in 0 .. Len(frame), noise' \in 0 .. MaxNoise,
         clean' \in BOOLEAN, missed' = missed
  PROVE  RxInv'
<1>1. Buffered'
  BY RxBuffers
<1>2. latest_fb_' \in [1 .. FbLen -> PayloadByte] \cup {NoFeedback}
  <2>1. frame \in Frame /\ latest_fb_ \in [1 .. FbLen -> PayloadByte] \cup {NoFeedback}
    BY DEF RxInv, TypeOK
  <2>2. Id(frame) = MSG_MOTION_FB => Payload(frame) \in [1 .. FbLen -> PayloadByte]
    BY <2>1, FrameShape
  <2>3. latest_fb_' # latest_fb_ =>
          Id(frame) = MSG_MOTION_FB /\ latest_fb_' = Payload(frame)
    BY RxPublishes
  <2> QED BY <2>1, <2>2, <2>3, Zenon
<1>3. /\ rx_state_' \in {"WAIT_STX", "WAIT_HEADER", "WAIT_PAYLOAD_CRC"}
      /\ safety_evts' \in 0 .. QueueLen
      /\ heard' \in BOOLEAN
  BY RxPublishes
<1>4. frame' \in Frame /\ sent' \in 0 .. Len(frame') /\ missed' \in Nat
  BY DEF RxInv, TypeOK
<1>5. TypeOK'
  BY <1>2, <1>3, <1>4, SameTypes, Zenon DEF TypeOK
<1> QED BY <1>1, <1>5 DEF RxInv

(* The bytes of a frame, and those noise makes, are bytes of the line.     *)
LEMMA WireBytes ==
  ASSUME RxInv
  PROVE  /\ Len(frame) \in Nat \ {0} /\ sent \in 0 .. Len(frame)
         /\ \A k \in 1 .. Len(frame) : frame[k] \in LineByte
         /\ \A v \in NoiseByte : Plain(v) \in LineByte /\ Plain(v).of = <<>>
<1>1. frame \in Frame /\ sent \in 0 .. Len(frame)
  BY DEF RxInv, TypeOK
<1>2. /\ frame \in Seq(LineByte)
      /\ Plen(frame) \in 1 .. MaxPayload
      /\ Len(frame) = HeaderLen + Plen(frame) + CrcLen
  BY <1>1, FrameShape
<1>3. Len(frame) \in Nat \ {0}
  BY <1>2 DEF HeaderLen, CrcLen
<1>4. \A k \in 1 .. Len(frame) : frame[k] \in LineByte
  BY <1>2
<1>5. \A v \in NoiseByte : Plain(v) \in LineByte /\ Plain(v).of = <<>>
  BY LinkAssumption DEF Plain, LineByte
<1> QED BY <1>1, <1>3, <1>4, <1>5

LEMMA StepInv == RxInv /\ [Next]_vars => RxInv'
<1> SUFFICES ASSUME RxInv, [Next]_vars PROVE RxInv'
  OBVIOUS
<1>1. /\ Len(frame) \in Nat \ {0} /\ sent \in 0 .. Len(frame)
      /\ \A k \in 1 .. Len(frame) : frame[k] \in LineByte
      /\ \A v \in NoiseByte : Plain(v) \in LineByte /\ Plain(v).of = <<>>
  BY WireBytes
<1>2. noise \in 0 .. MaxNoise /\ MaxNoise \in Nat /\ clean \in BOOLEAN
  BY LinkAssumption DEF RxInv, TypeOK
<1>3. CASE Byte
  <2>1. sent + 1 \in 1 .. Len(frame) /\ sent' \in 0 .. Len(frame)
    BY <1>1, <1>3 DEF Byte
  <2> QED BY <1>1, <1>2, <1>3, <2>1, ByteInv DEF Byte
<1>4. ASSUME Disturbed PROVE noise' \in 0 .. MaxNoise /\ clean' \in BOOLEAN
  <2>1. noise < MaxNoise /\ noise' = noise + 1 /\ clean' = FALSE
    BY <1>4 DEF Disturbed
  <2>2. noise' \in 0 .. MaxNoise
    BY <1>2, <2>1
  <2> QED BY <2>1, <2>2
<1>5. CASE LoseByte
  <2>1. sent' \in 0 .. Len(frame)
    BY <1>1, <1>5 DEF LoseByte
  <2>2. /\ noise' \in 0 .. MaxNoise /\ clean' \in BOOLEAN
        /\ frame' = frame /\ UNCHANGED <<rxVars, heard, missed>>
    BY <1>4, <1>5 DEF LoseByte
  <2>3. TypeOK'
    BY <2>1, <2>2, SameTypes, Zenon DEF RxInv, TypeOK, rxVars
  <2>4. Buffered'
    BY <2>2 DEF RxInv, Buffered, rxVars, Plen
  <2> QED BY <2>3, <2>4 DEF RxInv
<1>6. CASE AlterByte
  <2>1. PICK v \in NoiseByte : Rx(Plain(v))
    BY <1>6 DEF AlterByte
  <2>2. /\ sent' \in 0 .. Len(frame) /\ frame' = frame /\ missed' = missed
        /\ 1 \in 1 .. Len(frame)
    BY <1>1, <1>6 DEF AlterByte
  <2>3. noise' \in 0 .. MaxNoise /\ clean' \in BOOLEAN
    BY <1>4, <1>6 DEF AlterByte
  <2> QED BY <1>1, <2>1, <2>2, <2>3, ByteInv
<1>7. CASE AddByte
  <2>1. PICK v \in NoiseByte : Rx(Plain(v))
    BY <1>7 DEF AddByte
  <2>2. /\ sent' \in 0 .. Len(frame) /\ frame' = frame /\ missed' = missed
        /\ 1 \in 1 .. Len(frame)
    BY <1>1, <1>7 DEF AddByte
  <2>3. noise' \in 0 .. MaxNoise /\ clean' \in BOOLEAN
    BY <1>4, <1>7 DEF AddByte
  <2> QED BY <1>1, <2>1, <2>2, <2>3, ByteInv
<1>8. CASE NextFrame
  <2>1. missed' \in Nat
    <3>1. missed \in Nat
      BY DEF RxInv, TypeOK
    <3>2. missed' \in {0, missed, missed + 1}
      BY <1>8, Zenon DEF NextFrame
    <3> QED BY <3>1, <3>2
  <2>2. frame' \in Frame /\ sent' \in 0 .. Len(frame')
    <3>1. frame' \in Frame /\ sent' = 0
      BY <1>8 DEF NextFrame
    <3>2. frame' \in Seq(LineByte)
      BY <3>1, FrameShape
    <3> QED BY <3>1, <3>2
  <2>3. clean' \in BOOLEAN /\ heard' \in BOOLEAN /\ UNCHANGED <<noise, rxVars>>
    BY <1>8 DEF NextFrame
  <2>4. TypeOK'
    BY <2>1, <2>2, <2>3, SameTypes, Zenon DEF RxInv, TypeOK, rxVars
  <2>5. Buffered'
    BY <2>3 DEF RxInv, Buffered, rxVars, Plen
  <2> QED BY <2>4, <2>5 DEF RxInv
<1>9. CASE UNCHANGED vars
  <2>1. TypeOK'
    BY <1>9, SameTypes, Zenon DEF RxInv, TypeOK, vars, wireVars, rxVars
  <2>2. Buffered'
    BY <1>9 DEF RxInv, Buffered, vars, rxVars, Plen
  <2> QED BY <2>1, <2>2 DEF RxInv
<1> QED BY <1>3, <1>5, <1>6, <1>7, <1>8, <1>9 DEF Next

LEMMA RxInvariant == Spec => []RxInv
  BY InitInv, StepInv, PTL DEF Spec

(* Wherever the task is in a frame, there is room for the next byte.       *)
LEMMA BufferFits == RxInv => BufferBound
<1> SUFFICES ASSUME RxInv PROVE BufferBound
  OBVIOUS
<1>1. MaxFrame = MaxPayload + 7 /\ MaxPayload \in Nat /\ HeaderLen = 5 /\ CrcLen = 2
  BY LinkAssumption DEF MaxFrame, HeaderLen, CrcLen
<1>2. CASE rx_state_ = "WAIT_STX"
  BY <1>1, <1>2 DEF RxInv, Buffered, BufferBound
<1>3. CASE rx_state_ = "WAIT_HEADER"
  <2>1. \A l \in 1 .. HeaderLen - 1 : l < MaxFrame
    BY <1>1
  <2> QED BY <1>3, <2>1 DEF RxInv, Buffered, BufferBound
<1>4. CASE rx_state_ = "WAIT_PAYLOAD_CRC"
  <2>1. \A p \in 1 .. MaxPayload : \A l \in HeaderLen .. HeaderLen + p + 1 :
          l < MaxFrame /\ l < HeaderLen + p + CrcLen
    BY <1>1
  <2> QED BY <1>4, <2>1 DEF RxInv, Buffered, BufferBound
<1> QED BY <1>2, <1>3, <1>4 DEF RxInv, TypeOK

-----------------------------------------------------------------------------
(* The receive task's state keeps its types; the latest feedback is one    *)
(* the STM32 may send, or none.                                            *)
THEOREM RxTypes == Spec => []TypeOK
<1>1. RxInv => TypeOK
  BY DEF RxInv
<1> QED BY <1>1, RxInvariant, PTL

(* For any noise and any longest payload, the task never writes past       *)
(* rx_buf_.                                                                *)
THEOREM BufferIsBound == Spec => []BufferBound
BY BufferFits, RxInvariant, PTL

(* For any payloads and any noise, with a CRC that matches its own bytes   *)
(* alone: a feedback the planner steers by was sent, whole.                *)
THEOREM FeedbackWasSent == Spec => FeedbackIsSent
<1> DEFINE Sent ==
      latest_fb_' # latest_fb_ =>
          /\ sent' = Len(frame)
          /\ Id(frame) = MSG_MOTION_FB
          /\ latest_fb_' = Payload(frame)
<1>1. RxInv /\ [Next]_vars => [Sent]_vars
  <2> SUFFICES ASSUME RxInv, Next, latest_fb_' # latest_fb_
               PROVE  /\ sent' = Len(frame)
                      /\ Id(frame) = MSG_MOTION_FB
                      /\ latest_fb_' = Payload(frame)
    BY Zenon
  <2>1. /\ Len(frame) \in Nat \ {0} /\ sent \in 0 .. Len(frame)
        /\ \A k \in 1 .. Len(frame) : frame[k] \in LineByte
        /\ \A v \in NoiseByte : Plain(v) \in LineByte /\ Plain(v).of = <<>>
    BY WireBytes
  <2>2. CASE Byte
    <3>1. sent + 1 \in 1 .. Len(frame) /\ sent' = sent + 1 /\ Rx(frame[sent + 1])
      BY <2>1, <2>2 DEF Byte
    <3> QED BY <2>1, <3>1, RxPublishes
  <2>3. ASSUME NEW v \in NoiseByte, Rx(Plain(v)) PROVE FALSE
    <3>1. 1 \in 1 .. Len(frame)
      BY <2>1
    <3>2. Plain(v) = frame[Len(frame)]
      BY <2>1, <2>3, <3>1, RxPublishes
    <3>3. frame[Len(frame)].of # <<>>
      <4>1. frame \in Frame
        BY DEF RxInv, TypeOK
      <4>2. /\ frame[Len(frame)].of = [i \in 1 .. Len(frame) - 1 |-> frame[i].val]
            /\ Len(frame) - 1 >= 1
        BY <4>1, FrameShape DEF HeaderLen, CrcLen
      <4>3. DOMAIN frame[Len(frame)].of = 1 .. Len(frame) - 1
        BY <4>2
      <4>4. 1 \in DOMAIN frame[Len(frame)].of
        BY <2>1, <4>2, <4>3
      <4> QED BY <4>4
    <3> QED BY <2>1, <3>2, <3>3
  <2> QED
    BY <2>2, <2>3 DEF Next, AlterByte, AddByte, LoseByte, NextFrame, rxVars
<1> QED BY <1>1, RxInvariant, PTL DEF Spec, FeedbackIsSent

-----------------------------------------------------------------------------
(* A wire that is clean again is heard again.                              *)

(* How many whole frames there is room for behind a start byte.            *)
LEMMA RoomForFrames ==
  /\ MinFrame \in Nat \ {0} /\ MaxFrame \in Nat /\ MissBound \in Nat /\ MissBound >= 1
  /\ \A n \in Nat : 1 + n * MinFrame < MaxFrame => n < MissBound
<1>1. MinFrame \in Nat \ {0} /\ MaxFrame \in Nat /\ MaxFrame >= MinFrame /\ MinFrame >= 8
  BY LinkAssumption DEF MinFrame, MaxFrame, HeaderLen, CrcLen
<1> DEFINE X == MaxFrame + MinFrame - 2
<1>2. X \in Nat /\ X >= MinFrame
  BY <1>1
<1>3. \A x \in Nat, d \in Nat \ {0} :
        /\ x \div d \in Nat
        /\ x < (x \div d) * d + d
  OBVIOUS
<1>4. MissBound \in Nat /\ X < MissBound * MinFrame + MinFrame
  BY <1>1, <1>2, <1>3 DEF MissBound
<1> HIDE DEF X
<1>5. ASSUME NEW n \in Nat, n * MinFrame + MinFrame <= X
      PROVE  n < MissBound
  <2> SUFFICES ASSUME n >= MissBound PROVE FALSE
    BY <1>4
  <2>1. PICK e \in Nat : n = MissBound + e
    BY <1>4
  <2>2. n * MinFrame = MissBound * MinFrame + e * MinFrame /\ e * MinFrame >= 0
    BY <1>1, <1>4, <2>1
  <2>3. n * MinFrame \in Int /\ MissBound * MinFrame \in Int /\ e * MinFrame \in Int
    BY <1>1, <1>4, <2>1
  <2> QED BY <1>1, <1>2, <1>4, <1>5, <2>2, <2>3
<1>6. \A n \in Nat : 1 + n * MinFrame < MaxFrame => n < MissBound
  <2> SUFFICES ASSUME NEW n \in Nat, 1 + n * MinFrame < MaxFrame PROVE n < MissBound
    OBVIOUS
  <2>1. n * MinFrame + MinFrame <= X
    <3>1. n * MinFrame \in Int
      BY <1>1
    <3> QED BY <1>1, <3>1 DEF X
  <2> QED BY <1>5, <2>1
<1>7. MissBound >= 1
  <2>1. 0 * MinFrame + MinFrame <= X
    BY <1>1, <1>2
  <2> QED BY <1>4, <1>5, <2>1
<1> QED BY <1>1, <1>4, <1>6, <1>7

(* A byte into a frame already begun joins it or ends it.                  *)
LEMMA RxJoinsOrEnds ==
  ASSUME RxInv, NEW byte \in LineByte, Rx(byte), rx_buf_ # <<>>
  PROVE  rx_buf_' = <<>> \/ rx_buf_' = Append(rx_buf_, byte)
<1> DEFINE buf == Append(rx_buf_, byte)
<1> HIDE DEF buf
<1>1. CASE RxStx(byte)
  BY <1>1 DEF RxStx, RxInv, Buffered
<1>2. CASE RxHeader(byte)
  <2>1. \E g, h \in BOOLEAN :
          CASE g -> WaitOn("WAIT_HEADER", buf)
            [] h /\ (Plen(buf) > MaxPayload) -> WaitOn("WAIT_STX", <<>>)
            [] h /\ (Plen(buf) = 0) -> Processed(buf)
            [] OTHER -> WaitOn("WAIT_PAYLOAD_CRC", buf)
    <3>1. (Len(buf) < HeaderLen) \in BOOLEAN /\ (Len(buf) >= HeaderLen) \in BOOLEAN
      OBVIOUS
    <3> QED BY <1>2, <3>1 DEF RxHeader, buf
  <2>2. rx_buf_' \in {<<>>, buf}
    BY <2>1 DEF WaitOn, Processed
  <2> QED BY <2>2 DEF buf
<1>3. CASE RxPayloadCrc(byte)
  BY <1>3 DEF RxPayloadCrc, WaitOn, Processed
<1> QED BY <1>1, <1>2, <1>3 DEF Rx

(* A frame read from its first byte to its last is accepted.               *)
LEMMA FrameIsHeard ==
  ASSUME NEW f \in Frame, NEW buf \in Seq(LineByte), Len(buf) = Len(f),
         \A i \in 1 .. Len(f) : buf[i] = f[i]
  PROVE  IsFeedback(buf) \/ IsSafetyEvent(buf)
<1>1. /\ f \in Seq(LineByte) /\ Len(f) = HeaderLen + Plen(f) + CrcLen
      /\ Plen(f) \in 1 .. MaxPayload
      /\ f[Len(f)].of = [i \in 1 .. Len(f) - 1 |-> f[i].val]
      /\ \/ Id(f) = MSG_MOTION_FB /\ Plen(f) = FbLen
         \/ Id(f) = MSG_SAFETY_EVENT /\ Plen(f) = SafetyLen
  BY FrameShape
<1>2. buf = f
  <2>1. buf = [i \in 1 .. Len(f) |-> buf[i]] /\ f = [i \in 1 .. Len(f) |-> f[i]]
    BY <1>1
  <2> QED BY <2>1
<1>3. Len(f) \in Nat /\ f # <<>>
  BY <1>1 DEF HeaderLen, CrcLen
<1>4. /\ Last(f) = f[Len(f)]
      /\ Front(f) = [i \in 1 .. Len(f) - 1 |-> f[i]]
  BY <1>1, <1>3, FrontLast
<1>5. Values(Front(f)) = [i \in 1 .. Len(f) - 1 |-> f[i].val]
  BY <1>4 DEF Values
<1>6. CrcOk(f)
  BY <1>1, <1>4, <1>5 DEF CrcOk
<1> QED BY <1>1, <1>2, <1>6 DEF IsFeedback, IsSafetyEvent

(* In step with the STM32, the task stays in step, and hears the frame at  *)
(* its last byte.                                                          *)
LEMMA AlignedByte ==
  ASSUME RxInv, Aligned, Rx(frame[sent + 1]), frame' = frame, sent' = sent + 1
  PROVE  Aligned' \/ heard'
<1> DEFINE byte == frame[sent + 1]
           buf == Append(rx_buf_, byte)
<1>1. /\ frame \in Frame /\ frame \in Seq(LineByte)
      /\ Len(frame) = HeaderLen + Plen(frame) + CrcLen /\ Plen(frame) \in 1 .. MaxPayload
      /\ frame[1].val = STX /\ MaxPayload \in Nat
  BY FrameShape, LinkAssumption DEF RxInv, TypeOK
<1>2. /\ sent \in Nat /\ sent + 1 \in 1 .. Len(frame) /\ Len(frame) \in Nat
      /\ byte \in LineByte /\ rx_buf_ \in Seq(LineByte)
      /\ Len(rx_buf_) = sent /\ \A i \in 1 .. sent : rx_buf_[i] = frame[i]
  <2>1. sent \in 0 .. Len(frame) /\ sent < Len(frame) /\ Len(frame) \in Nat
    BY <1>1 DEF RxInv, TypeOK, Aligned
  <2>2. sent \in Nat /\ sent + 1 \in 1 .. Len(frame)
    BY <2>1
  <2> QED BY <1>1, <2>1, <2>2 DEF RxInv, Buffered, Aligned
<1>3. /\ buf \in Seq(LineByte) /\ Len(buf) = sent + 1
      /\ \A i \in 1 .. sent + 1 : buf[i] = frame[i]
  <2>1. /\ buf \in Seq(LineByte) /\ Len(buf) = sent + 1 /\ buf[sent + 1] = byte
        /\ \A i \in 1 .. sent : buf[i] = rx_buf_[i]
    BY <1>2
  <2>2. ASSUME NEW i \in 1 .. sent + 1 PROVE buf[i] = frame[i]
    <3>1. i \in 1 .. sent \/ i = sent + 1
      BY <1>2
    <3> HIDE DEF buf
    <3> QED BY <1>2, <2>1, <3>1
  <2> QED BY <2>1, <2>2
<1> HIDE DEF byte, buf
<1>4. ASSUME rx_buf_' = buf, sent + 1 < Len(frame) PROVE Aligned'
  BY <1>3, <1>4 DEF Aligned
<1>5. CASE sent = 0
  <2>1. rx_state_ = "WAIT_STX"
    BY <1>2, <1>5 DEF RxInv, TypeOK, Buffered, HeaderLen, CrcLen
  <2>2. RxStx(byte)
    BY <2>1 DEF Rx, RxHeader, RxPayloadCrc, byte
  <2>3. rx_buf_' = <<byte>>
    BY <1>1, <1>5, <2>2 DEF RxStx, WaitOn, byte
  <2>4. buf = <<byte>>
    <3>1. rx_buf_ = <<>>
      BY <1>2, <1>5
    <3> QED BY <3>1 DEF buf
  <2>5. sent + 1 < Len(frame)
    BY <1>1, <1>5 DEF HeaderLen, CrcLen
  <2> QED BY <1>4, <2>3, <2>4, <2>5
<1>6. CASE sent \in 1 .. HeaderLen - 1
  <2>1. rx_state_ = "WAIT_HEADER"
    BY <1>2, <1>6 DEF RxInv, TypeOK, Buffered, HeaderLen, CrcLen
  <2>2. RxHeader(byte)
    BY <2>1 DEF Rx, RxStx, RxPayloadCrc, byte
  <2>3. sent + 1 < Len(frame)
    BY <1>1, <1>6 DEF HeaderLen, CrcLen
  <2>4. CASE sent \in 1 .. 3
    <3>1. Len(buf) < HeaderLen /\ ~(Len(buf) >= HeaderLen)
      BY <1>3, <2>4 DEF HeaderLen, CrcLen
    <3>2. rx_buf_' = buf
      BY <2>2, <3>1 DEF RxHeader, WaitOn, buf
    <3> QED BY <1>4, <2>3, <3>2
  <2>5. CASE sent = 4
    <3>1. ~(Len(buf) < HeaderLen) /\ Plen(buf) = Plen(frame)
      BY <1>3, <2>5 DEF HeaderLen, CrcLen, Plen
    <3>2. ~(Plen(buf) > MaxPayload) /\ Plen(buf) # 0
      BY <1>1, <3>1
    <3>3. rx_buf_' = buf
      BY <2>2, <3>1, <3>2 DEF RxHeader, WaitOn, buf
    <3> QED BY <1>4, <2>3, <3>3
  <2> QED BY <1>6, <2>4, <2>5 DEF HeaderLen, CrcLen
<1>7. CASE sent >= HeaderLen
  <2>1. rx_state_ = "WAIT_PAYLOAD_CRC"
    BY <1>2, <1>7 DEF RxInv, TypeOK, Buffered, HeaderLen, CrcLen
  <2>2. RxPayloadCrc(byte)
    BY <2>1 DEF Rx, RxStx, RxHeader, byte
  <2>3. Plen(buf) = Plen(frame)
    BY <1>2, <1>3, <1>7 DEF HeaderLen, CrcLen, Plen
  <2>4. CASE sent + 1 < Len(frame)
    <3>1. ~(Len(buf) >= HeaderLen + Plen(buf) + CrcLen)
      BY <1>1, <1>2, <1>3, <2>3, <2>4 DEF HeaderLen, CrcLen
    <3>2. rx_buf_' = buf
      BY <2>2, <3>1 DEF RxPayloadCrc, WaitOn, buf
    <3> QED BY <1>4, <2>4, <3>2
  <2>5. CASE sent + 1 = Len(frame)
    <3>1. Len(buf) >= HeaderLen + Plen(buf) + CrcLen
      BY <1>1, <1>2, <1>3, <2>3, <2>5 DEF HeaderLen, CrcLen
    <3>2. Processed(buf)
      BY <2>2, <3>1 DEF RxPayloadCrc, buf
    <3>3. IsFeedback(buf) \/ IsSafetyEvent(buf)
      BY <1>1, <1>3, <2>5, FrameIsHeard
    <3> QED BY <3>2, <3>3 DEF Processed, ProcessFrame
  <2> QED BY <1>2, <2>4, <2>5
<1>8. sent = 0 \/ sent \in 1 .. HeaderLen - 1 \/ sent >= HeaderLen
  BY <1>2 DEF HeaderLen, CrcLen
<1> QED BY <1>5, <1>6, <1>7, <1>8

(* A frame begun before the one on the wire has room for it, and for those *)
(* missed, or ends.                                                        *)
LEMMA SwallowingByte ==
  ASSUME RxInv, Swallowing, NEW byte \in LineByte, Rx(byte),
         sent' = sent + 1, missed' = missed
  PROVE  Swallowing' \/ Skipping'
<1>1. /\ sent \in Nat /\ missed \in Nat /\ rx_buf_ \in Seq(LineByte) /\ Len(rx_buf_) \in Nat
  <2>1. sent \in 0 .. Len(frame) /\ Len(frame) \in Nat
    BY WireBytes
  <2> QED BY <2>1 DEF RxInv, TypeOK, Buffered
<1>2. missed * MinFrame \in Nat /\ (missed * MinFrame)' = missed * MinFrame
  <2>1. MinFrame \in Nat
    BY RoomForFrames
  <2> QED BY <1>1, <2>1 DEF MinFrame, HeaderLen, CrcLen
<1>3. CASE rx_buf_' = Append(rx_buf_, byte)
  <2>1. Len(rx_buf_') = Len(rx_buf_) + 1 /\ rx_buf_' # <<>>
    BY <1>1, <1>3
  <2> QED BY <1>1, <1>2, <2>1 DEF Swallowing
<1>4. CASE rx_buf_' = <<>>
  <2>1. Len(rx_buf_) < MaxFrame
    BY BufferFits DEF BufferBound
  <2>2. 1 + missed * MinFrame < MaxFrame
    BY <1>1, <1>2, <2>1, RoomForFrames DEF Swallowing
  <2>3. missed < MissBound
    BY <1>1, <2>2, RoomForFrames
  <2>4. MissBound' = MissBound
    BY DEF MissBound, MaxFrame, MinFrame, HeaderLen, CrcLen
  <2> QED BY <1>1, <1>4, <2>3, <2>4 DEF Skipping
<1> QED BY <1>3, <1>4, RxJoinsOrEnds DEF Swallowing

(* A byte that starts no frame leaves the task waiting for the next one.   *)
LEMMA SkippingByte ==
  ASSUME RxInv, Skipping, ~TakenForStart, sent < Len(frame), Rx(frame[sent + 1]),
         sent' = sent + 1, missed' = missed
  PROVE  Skipping'
<1>1. sent \in Nat /\ sent + 1 \in 2 .. Len(frame)
  <2>1. sent \in 0 .. Len(frame) /\ Len(frame) \in Nat
    BY WireBytes
  <2> QED BY <2>1 DEF Skipping
<1>3. rx_state_ = "WAIT_STX"
  BY DEF RxInv, TypeOK, Buffered, Skipping, HeaderLen, CrcLen
<1>2. frame[sent + 1].val # STX
  BY <1>3 DEF TakenForStart, Skipping
<1>4. rx_buf_' = <<>>
  BY <1>2, <1>3 DEF Rx, RxStx, RxHeader, RxPayloadCrc, WaitOn
<1>5. MissBound' = MissBound
  BY DEF MissBound, MaxFrame, MinFrame, HeaderLen, CrcLen
<1> QED BY <1>1, <1>4, <1>5 DEF Skipping

LEMMA InitCounted == Init /\ RxInv => Counted
<1> SUFFICES ASSUME Init, RxInv PROVE Counted
  OBVIOUS
<1>1. Len(frame) > 0
  <2>1. Len(frame) \in Nat \ {0}
    BY WireBytes
  <2> QED BY <2>1
<1>2. missed <= MissBound
  BY RoomForFrames DEF Init
<1>3. Aligned
  BY <1>1 DEF Init, Aligned
<1> QED BY <1>2, <1>3 DEF Counted

(* A step of the wire within a frame.                                      *)
LEMMA ByteCounted ==
  ASSUME RxInv, Counted, Byte \/ LoseByte \/ AlterByte \/ AddByte
  PROVE  Counted'
<1>1. missed' = missed /\ MissBound' = MissBound
  BY DEF Byte, LoseByte, AlterByte, AddByte, MissBound, MaxFrame, MinFrame, HeaderLen, CrcLen
<1>2. CASE LoseByte \/ AlterByte \/ AddByte
  BY <1>1, <1>2 DEF LoseByte, AlterByte, AddByte, Disturbed, Counted
<1>3. CASE Byte
  <2>1. /\ sent < Len(frame) /\ Rx(frame[sent + 1]) /\ sent' = sent + 1
        /\ frame' = frame /\ clean' = (clean /\ ~TakenForStart)
    BY <1>3 DEF Byte
  <2>2. frame[sent + 1] \in LineByte
    <3>1. /\ sent \in 0 .. Len(frame) /\ Len(frame) \in Nat
          /\ \A k \in 1 .. Len(frame) : frame[k] \in LineByte
      BY WireBytes
    <3>2. sent + 1 \in 1 .. Len(frame)
      BY <2>1, <3>1
    <3> QED BY <3>1, <3>2
  <2>3. heard => heard'
    BY <2>1 DEF Rx, RxStx, RxHeader, RxPayloadCrc, WaitOn, Processed, ProcessFrame
  <2>4. CASE clean /\ ~heard /\ ~TakenForStart
    <3>1. CASE Aligned
      BY <1>1, <2>1, <3>1, AlignedByte DEF Counted
    <3>2. CASE Swallowing
      BY <1>1, <2>1, <2>2, <3>2, SwallowingByte DEF Counted
    <3>3. CASE Skipping
      BY <1>1, <2>1, <2>4, <3>3, SkippingByte DEF Counted
    <3> QED BY <2>4, <3>1, <3>2, <3>3 DEF Counted
  <2>5. CASE ~(clean /\ ~heard /\ ~TakenForStart)
    BY <1>1, <2>1, <2>3, <2>5 DEF Counted
  <2> QED BY <2>4, <2>5
<1> QED BY <1>2, <1>3

(* A frame that was heard or disturbed ends a count; one that was missed   *)
(* is one of those there was room for.                                     *)
LEMMA NextFrameCounted == RxInv /\ Counted /\ NextFrame => Counted'
<1> SUFFICES ASSUME RxInv, Counted, NextFrame PROVE Counted'
  OBVIOUS
<1>1. /\ sent = Len(frame) /\ sent' = 0 /\ rx_buf_' = rx_buf_
      /\ frame' \in Frame
  BY DEF NextFrame, rxVars
<1>2. /\ sent \in Nat /\ sent >= MinFrame /\ missed \in Nat
      /\ rx_buf_ \in Seq(LineByte) /\ Len(rx_buf_) \in Nat
      /\ Len(frame') > 0
  <2>1. frame \in Frame /\ missed \in Nat /\ rx_buf_ \in Seq(LineByte)
    BY DEF RxInv, TypeOK, Buffered
  <2>2. ASSUME NEW f \in Frame PROVE Len(f) \in Nat /\ Len(f) >= MinFrame /\ Len(f) > 0
    <3>1. Len(f) = HeaderLen + Plen(f) + CrcLen /\ (Plen(f) = FbLen \/ Plen(f) = SafetyLen)
      BY FrameShape
    <3> QED BY <3>1, LinkAssumption DEF MinFrame, HeaderLen, CrcLen
  <2> QED BY <1>1, <2>1, <2>2
<1>3. MissBound' = MissBound /\ MinFrame' = MinFrame
  BY DEF MissBound, MaxFrame, MinFrame, HeaderLen, CrcLen
<1>4. MissBound \in Nat /\ MissBound >= 1 /\ MinFrame \in Nat
  BY RoomForFrames
<1>5. CASE rx_buf_ = <<>> /\ missed' <= MissBound
  <2>1. Aligned'
    BY <1>1, <1>2, <1>5 DEF Aligned
  <2> QED BY <1>3, <1>5, <2>1 DEF Counted
<1>6. CASE rx_buf_ # <<>> /\ missed' = 0
  <2>1. Len(rx_buf_) >= 1 + (0 * MinFrame) + 0
    BY <1>2, <1>4, <1>6
  <2>2. Swallowing'
    BY <1>1, <1>3, <1>6, <2>1 DEF Swallowing
  <2> QED BY <1>3, <1>4, <1>6, <2>2 DEF Counted
<1>7. CASE heard \/ ~clean
  <2>1. missed' = 0
    BY <1>7 DEF NextFrame
  <2> QED BY <1>4, <1>5, <1>6, <2>1
<1>8. CASE clean /\ ~heard
  <2>1. missed <= MissBound /\ (Swallowing \/ Skipping)
    BY <1>1, <1>2, <1>8 DEF Counted, Aligned
  <2>2. missed' = missed + 1
    <3>1. ~(missed > MissBound) /\ ~(heard \/ ~clean)
      BY <1>2, <1>4, <1>8, <2>1
    <3> QED BY <3>1 DEF NextFrame
  <2>3. CASE Skipping
    BY <1>2, <1>4, <1>5, <2>2, <2>3 DEF Skipping
  <2>4. CASE Swallowing
    <3>1. /\ missed * MinFrame \in Nat
          /\ (missed + 1) * MinFrame = missed * MinFrame + MinFrame
      BY <1>2, <1>4
    <3>2. Len(rx_buf_) >= 1 + (missed + 1) * MinFrame /\ Len(rx_buf_) < MaxFrame
      BY <1>2, <1>4, <2>4, <3>1, BufferFits DEF Swallowing, BufferBound
    <3>3. missed + 1 < MissBound
      <4>1. 1 + (missed + 1) * MinFrame < MaxFrame
        <5>1. MaxFrame \in Nat /\ (missed + 1) * MinFrame \in Nat
          BY <1>2, <1>4, <3>1, RoomForFrames
        <5>2. \A m, l, f \in Nat : l >= 1 + m /\ l < f => 1 + m < f
          OBVIOUS
        <5> QED BY <1>2, <3>2, <5>1, <5>2
      <4>2. missed + 1 \in Nat
        BY <1>2
      <4> QED BY <4>1, <4>2, RoomForFrames, Zenon
    <3>4. Swallowing'
      <4>1. Len(rx_buf_) >= 1 + ((missed + 1) * MinFrame) + 0
        BY <1>2, <1>4, <3>1, <3>2
      <4> QED BY <1>1, <1>3, <2>2, <2>4, <4>1 DEF Swallowing
    <3> QED BY <1>2, <1>3, <1>4, <2>2, <3>3, <3>4 DEF Counted
  <2> QED BY <2>1, <2>3, <2>4
<1>9. clean \in BOOLEAN /\ heard \in BOOLEAN
  BY DEF RxInv, TypeOK
<1> QED BY <1>7, <1>8, <1>9

(* For any noise, any lengths and any bytes in the frames: no more frames  *)
(* in a row that were neither disturbed nor misread go unheard than fit a  *)
(* longest frame.  Noise or a start byte taken inside a frame begins one;  *)
(* how often start bytes are taken is the STM32's data's to say.           *)
THEOREM RecoversInTime == Spec => []RecoversWithin
<1>1. RxInv /\ Counted /\ [Next]_vars => Counted'
  <2>1. CASE UNCHANGED vars
    BY <2>1 DEF vars, wireVars, rxVars, Counted, Aligned, Swallowing, Skipping,
                MissBound, MaxFrame, MinFrame, HeaderLen, CrcLen
  <2> QED BY <2>1, ByteCounted, NextFrameCounted DEF Next
<1>2. Counted => RecoversWithin
  BY DEF Counted, RecoversWithin
<1> QED BY <1>1, <1>2, InitCounted, RxInvariant, PTL DEF Spec

-----------------------------------------------------------------------------
\* The clock read t when it was d milliseconds before it read c.
Before(t, d, c) == c - t = d \/ c - t = d - Wrap

Stamped ==
    /\ Before(last_rx_ms_, age, now)
    /\ reader = "clock" => /\ Before(rx_ms, copy_age, now)
                           /\ copy_age <= MaxSilence + stall
    /\ reader = "stamp" => Before(call_now, stall, now)

FeedbackInv == FbTypeOK /\ Stamped

-----------------------------------------------------------------------------
(* One millisecond on, round the end of the clock.                         *)
LEMMA ClockStep ==
  ASSUME NEW c \in Clock
  PROVE  /\ (c + 1) % Wrap \in Clock
         /\ \A t \in Clock, d \in 0 .. Wrap - 1 :
              Before(t, d, c) => Before(t, d + 1, (c + 1) % Wrap)
<1>1. Wrap \in Nat /\ c \in Int /\ 0 <= c /\ c < Wrap
  BY FeedbackAssumption DEF Clock
<1>2. CASE c + 1 < Wrap
  <2>1. (c + 1) % Wrap = c + 1
    BY <1>1, <1>2
  <2>2. c + 1 \in Clock
    BY <1>1, <1>2 DEF Clock
  <2>3. ASSUME NEW t \in Clock, NEW d \in 0 .. Wrap - 1, Before(t, d, c)
        PROVE  Before(t, d + 1, c + 1)
    BY <1>1, <2>3 DEF Clock, Before
  <2> QED BY <2>1, <2>2, <2>3
<1>3. CASE c + 1 = Wrap
  <2>1. (c + 1) % Wrap = 0
    BY <1>1, <1>3
  <2>2. 0 \in Clock
    BY <1>1, <1>3 DEF Clock
  <2>3. ASSUME NEW t \in Clock, NEW d \in 0 .. Wrap - 1, Before(t, d, c)
        PROVE  Before(t, d + 1, 0)
    <3>1. t \in 0 .. Wrap - 1 /\ (c - t = d \/ c - t = d - Wrap)
      BY <2>3 DEF Clock, Before
    <3>2. 0 - t = d + 1 \/ 0 - t = d + 1 - Wrap
      BY <1>1, <1>3, <3>1
    <3> QED BY <1>1, <3>1, <3>2 DEF Before
  <2> QED BY <2>1, <2>2, <2>3
<1> QED BY <1>1, <1>2, <1>3

(* The unsigned difference of clock and stamp is the age, if that is less  *)
(* than a turn.                                                            *)
LEMMA MinusIsAge ==
  ASSUME NEW c \in Clock, NEW t \in Clock, NEW d \in Nat, d < Wrap, Before(t, d, c)
  PROVE  Minus(c, t) = d
<1>1. Wrap \in Nat /\ c \in Int /\ t \in Int
  BY FeedbackAssumption DEF Clock
<1>2. CASE c - t = d
  BY <1>1, <1>2 DEF Minus
<1>3. CASE c - t = d - Wrap
  BY <1>1, <1>3 DEF Minus
<1> QED BY <1>2, <1>3 DEF Before

LEMMA FbInitInv == FbInit => FeedbackInv
<1> SUFFICES ASSUME FbInit PROVE FeedbackInv
  OBVIOUS
<1>1. 0 \in Clock /\ 0 \in 0 .. MaxSilence + MaxStall /\ 0 \in 0 .. MaxStall
  BY FeedbackAssumption DEF FbInit, Clock
<1>2. age \in 0 .. MaxSilence
  BY FeedbackAssumption DEF FbInit, Clock
<1>3. fb_valid \in BOOLEAN /\ link_ok \in BOOLEAN
  BY DEF FbInit
<1>4. FbTypeOK
  BY <1>1, <1>2, <1>3 DEF FbInit, FbTypeOK
<1>5. Stamped
  BY <1>2 DEF FbInit, Stamped, Before, Clock
<1> QED BY <1>4, <1>5 DEF FeedbackInv

LEMMA TickInv == FeedbackInv /\ Tick => FeedbackInv'
<1> SUFFICES ASSUME FeedbackInv, Tick PROVE FeedbackInv'
  OBVIOUS
<1>1. /\ now \in Clock /\ last_rx_ms_ \in Clock /\ rx_ms \in Clock /\ call_now \in Clock
      /\ age \in 0 .. MaxSilence /\ stall \in 0 .. MaxStall
      /\ copy_age \in 0 .. MaxSilence + MaxStall
      /\ Wrap \in Nat /\ MaxSilence \in Nat /\ MaxStall \in Nat
  BY FeedbackAssumption DEF FeedbackInv, FbTypeOK
<1>2. /\ now' = (now + 1) % Wrap /\ age' = age + 1 /\ age < MaxSilence
      /\ copy_age' = IF reader = "clock" THEN copy_age + 1 ELSE copy_age
      /\ stall' = IF reader = "idle" THEN 0 ELSE stall + 1
      /\ reader = "idle" \/ stall < MaxStall
      /\ UNCHANGED <<last_rx_ms_, reader, max_age, rx_ms, call_now, fb_valid, link_ok>>
  BY DEF Tick
<1>3. now' \in Clock
  BY <1>1, <1>2, ClockStep
<1>4. age' \in 0 .. MaxSilence /\ stall' \in 0 .. MaxStall
  BY <1>1, <1>2
<1>5. /\ copy_age' \in 0 .. MaxSilence + MaxStall
      /\ reader = "clock" => copy_age' <= MaxSilence + stall'
  BY <1>1, <1>2 DEF FeedbackInv, Stamped
<1>0. age \in 0 .. Wrap - 1 /\ copy_age \in 0 .. Wrap - 1 /\ stall \in 0 .. Wrap - 1
  BY <1>1, FeedbackAssumption
<1>6. Before(last_rx_ms_, age + 1, now')
  BY <1>0, <1>1, <1>2, ClockStep DEF FeedbackInv, Stamped
<1>7. reader = "clock" => Before(rx_ms, copy_age + 1, now')
  BY <1>0, <1>1, <1>2, ClockStep DEF FeedbackInv, Stamped
<1>8. reader = "stamp" => Before(call_now, stall + 1, now')
  BY <1>0, <1>1, <1>2, ClockStep DEF FeedbackInv, Stamped
<1>9. Stamped'
  BY <1>2, <1>5, <1>6, <1>7, <1>8 DEF Stamped, Before
<1>10. fb_valid' \in BOOLEAN /\ link_ok' \in BOOLEAN
  BY <1>2, Zenon DEF FeedbackInv, FbTypeOK
<1>11. reader' \in {"idle", "clock", "stamp"} /\ max_age' \in MaxAges
  BY <1>2 DEF FeedbackInv, FbTypeOK
<1>12. FbTypeOK'
  BY <1>1, <1>2, <1>3, <1>4, <1>5, <1>10, <1>11 DEF FbTypeOK, Clock
<1> QED BY <1>9, <1>12 DEF FeedbackInv

(* The steps that take no time.                                            *)
LEMMA TimelessInv ==
  FeedbackInv /\ (\/ Receive \/ CopyLatest \/ getLatestFeedback
                  \/ ReadClock \/ linkOk \/ UNCHANGED fbVars) => FeedbackInv'
<1> SUFFICES ASSUME FeedbackInv,
                    \/ Receive \/ CopyLatest \/ getLatestFeedback
                    \/ ReadClock \/ linkOk \/ UNCHANGED fbVars
             PROVE  FeedbackInv'
  OBVIOUS
<1> USE DEF Receive, CopyLatest, getLatestFeedback, ReadClock, linkOk, fbVars, callVars
<1>1. /\ now \in Clock /\ last_rx_ms_ \in Clock /\ rx_ms \in Clock /\ call_now \in Clock
      /\ age \in 0 .. MaxSilence /\ stall \in 0 .. MaxStall
      /\ copy_age \in 0 .. MaxSilence + MaxStall
      /\ MaxSilence \in Nat /\ MaxStall \in Nat
  BY FeedbackAssumption DEF FeedbackInv, FbTypeOK
<1>2. now' = now /\ now' \in Clock /\ last_rx_ms_' \in Clock
  BY <1>1
<1>3. rx_ms' \in Clock /\ call_now' \in Clock
  BY <1>1
<1>4. age' \in 0 .. MaxSilence /\ stall' \in 0 .. MaxStall
  BY <1>1
<1>5. copy_age' \in 0 .. MaxSilence + MaxStall
  BY <1>1
<1>6. reader' \in {"idle", "clock", "stamp"} /\ max_age' \in MaxAges
  BY DEF FeedbackInv, FbTypeOK
<1>7. fb_valid' \in BOOLEAN /\ link_ok' \in BOOLEAN
  <2>1. \A a, b : (a < b) \in BOOLEAN
    OBVIOUS
  <2>2. fb_valid' = fb_valid \/ fb_valid' = (Minus(now, rx_ms) < max_age)
    BY Zenon
  <2>3. link_ok' = link_ok \/ link_ok' = (Minus(call_now, last_rx_ms_) < LinkAge)
    BY Zenon
  <2> QED BY <2>1, <2>2, <2>3, Zenon DEF FeedbackInv, FbTypeOK
<1>8. Before(last_rx_ms_, age, now)'
  BY <1>1 DEF FeedbackInv, Stamped, Before, Clock
<1>9. reader' = "clock" => Before(rx_ms, copy_age, now)' /\ copy_age' <= MaxSilence + stall'
  BY <1>1 DEF FeedbackInv, Stamped, Before
<1>10. reader' = "stamp" => Before(call_now, stall, now)'
  BY <1>1 DEF FeedbackInv, Stamped, Before, Clock
<1>11. Stamped'
  BY <1>8, <1>9, <1>10 DEF Stamped, Before
<1>12. FbTypeOK'
  <2>1. Clock' = Clock
    BY DEF Clock
  <2> QED BY <2>1, <1>2, <1>3, <1>4, <1>5, <1>6, <1>7, Zenon DEF FbTypeOK
<1> QED BY <1>11, <1>12 DEF FeedbackInv

LEMMA FeedbackInvariant == FbSpec => []FeedbackInv
<1>1. FeedbackInv /\ [FbNext]_fbVars => FeedbackInv'
  BY TickInv, TimelessInv DEF FbNext
<1> QED BY <1>1, FbInitInv, PTL DEF FbSpec

-----------------------------------------------------------------------------
(* Clocks, stamps and ages keep their types.                               *)
THEOREM FeedbackTypes == FbSpec => []FbTypeOK
<1>1. FeedbackInv => FbTypeOK
  BY DEF FeedbackInv
<1> QED BY <1>1, FeedbackInvariant, PTL

(* getLatestFeedback() says valid exactly when the copy is younger than    *)
(* asked, at any limit and across any wrap.                                *)
THEOREM FreshIsExact == FbSpec => FreshExactly
<1>1. FeedbackInv /\ [FbNext]_fbVars =>
        [getLatestFeedback => (fb_valid' <=> copy_age < max_age)]_fbVars
  <2> SUFFICES ASSUME FeedbackInv, getLatestFeedback
               PROVE  fb_valid' <=> copy_age < max_age
    OBVIOUS
  <2>1. /\ copy_age \in Nat /\ copy_age < Wrap /\ Before(rx_ms, copy_age, now)
        /\ now \in Clock /\ rx_ms \in Clock
    <3>1. /\ copy_age \in 0 .. MaxSilence + MaxStall /\ MaxSilence + MaxStall < Wrap
          /\ MaxSilence \in Nat /\ MaxStall \in Nat /\ Wrap \in Nat
      BY FeedbackAssumption DEF FeedbackInv, FbTypeOK
    <3>2. copy_age \in Nat /\ copy_age < Wrap
      BY <3>1
    <3> QED BY <3>2 DEF FeedbackInv, FbTypeOK, Stamped, getLatestFeedback
  <2>2. Minus(now, rx_ms) = copy_age
    BY <2>1, MinusIsAge
  <2> QED BY <2>2, Zenon DEF getLatestFeedback
<1> QED BY <1>1, FeedbackInvariant, PTL DEF FbSpec, FreshExactly

(* linkOk() is true only of a stamp within LinkAge of its clock reading.   *)
THEOREM LinkOkIsHonest == FbSpec => LinkOkHonest
<1>1. FeedbackInv /\ [FbNext]_fbVars => [linkOk /\ link_ok' => age < LinkAge + stall]_fbVars
  <2> SUFFICES ASSUME FeedbackInv, linkOk, link_ok'
               PROVE  age < LinkAge + stall
    OBVIOUS
  <2>1. /\ age \in Nat /\ age < Wrap /\ stall \in Nat
        /\ LinkAge \in Nat /\ Wrap \in Nat
        /\ last_rx_ms_ \in Clock /\ call_now \in Clock /\ now \in Clock
    BY FeedbackAssumption DEF FeedbackInv, FbTypeOK
  <2>2. Minus(call_now, last_rx_ms_) < LinkAge
    BY Zenon DEF linkOk
  <2>3. CASE age >= stall
    <3>1. age - stall \in Nat /\ age - stall < Wrap
      BY <2>1, <2>3
    <3>2. Before(last_rx_ms_, age - stall, call_now)
      BY <2>1, <2>3 DEF FeedbackInv, Stamped, Before, Clock, linkOk
    <3>3. Minus(call_now, last_rx_ms_) = age - stall
      BY <2>1, <3>1, <3>2, MinusIsAge
    <3> QED BY <2>1, <2>2, <3>3
  <2>4. CASE age < stall
    BY <2>1, <2>4
  <2> QED BY <2>1, <2>3, <2>4
<1> QED BY <1>1, FeedbackInvariant, PTL DEF FbSpec, LinkOkHonest

=============================================================================
