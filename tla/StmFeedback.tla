----------------------------- MODULE StmFeedback -----------------------------
(***************************************************************************)
(* The age of the STM32's feedback (components/stm_link/stm_uart_link.cpp).*)
(* The receive task stores each motion feedback with the millisecond clock *)
(* at which it came; getLatestFeedback() and linkOk() compare that stamp   *)
(* with the clock, in unsigned arithmetic that wraps.  getLatestFeedback() *)
(* copies the stamp under the spinlock and reads the clock after it;       *)
(* linkOk() reads the clock first and the stamp, with no lock, after it.   *)
(* The clock and the receive task go on between the two reads.             *)
(***************************************************************************)
EXTENDS Integers

CONSTANTS Wrap,        \* 2^32: the clock counts modulo Wrap
          LinkAge,     \* 300: linkOk() is true of a younger stamp
          MaxAges,     \* {300, 500}: what getLatestFeedback() is called with
          MaxSilence,  \* bound: the longest the STM32 says nothing
          MaxStall     \* bound: the longest a reader waits between its reads

ASSUME FeedbackAssumption ==
    /\ Wrap \in Nat /\ LinkAge \in Nat /\ MaxSilence \in Nat /\ MaxStall \in Nat
    /\ MaxAges \subseteq Nat
    /\ LinkAge < Wrap /\ \A a \in MaxAges : a < Wrap
    \* the code takes it for granted: a longer silence is a fresh feedback
    /\ MaxSilence + MaxStall < Wrap

VARIABLES
    now,          \* xTaskGetTickCount() * portTICK_PERIOD_MS
    last_rx_ms_,
    age,          \* history: the true time since the stamp, or the start
    reader,       \* "idle", or the clock or the stamp is to be read next
    max_age,      \* the parameter of the call
    rx_ms,        \* the stamp copied by getLatestFeedback()
    copy_age,     \* history: the true age of the copy
    call_now,     \* the clock read by linkOk()
    stall,        \* history: the time since the reader's first read
    fb_valid, link_ok    \* what the last calls returned

fbVars == <<now, last_rx_ms_, age, reader, max_age, rx_ms, copy_age, call_now,
            stall, fb_valid, link_ok>>
callVars == <<max_age, rx_ms, copy_age, call_now>>

Clock == 0 .. Wrap - 1

FbTypeOK ==
    /\ now \in Clock /\ last_rx_ms_ \in Clock
    /\ age \in 0 .. MaxSilence
    /\ reader \in {"idle", "clock", "stamp"}
    /\ max_age \in MaxAges
    /\ rx_ms \in Clock /\ call_now \in Clock
    /\ copy_age \in 0 .. MaxSilence + MaxStall
    /\ stall \in 0 .. MaxStall
    /\ fb_valid \in BOOLEAN /\ link_ok \in BOOLEAN

(* Before the first feedback the stamp is 0, as if one (of zeros) had come *)
(* when the clock started; the tasks start once WiFi is up or has timed    *)
(* out, some time later, and initialized_ is set before them.              *)
FbInit ==
    /\ now \in Clock /\ now <= MaxSilence
    /\ last_rx_ms_ = 0
    /\ age = now
    /\ reader = "idle"
    /\ max_age \in MaxAges
    /\ rx_ms = 0 /\ copy_age = 0 /\ call_now = 0 /\ stall = 0
    /\ fb_valid = FALSE /\ link_ok = FALSE

\* Mutant: the ages are compared in signed arithmetic.
MinusSigned(a, b) == a - b

\* uint32_t arithmetic
Minus(a, b) == (a - b) % Wrap

-----------------------------------------------------------------------------
\* Mutant: a clock wider than the stamp.
TickWide ==
    /\ age < MaxSilence
    /\ reader = "idle" \/ stall < MaxStall
    /\ now' = now + 1
    /\ age' = age + 1
    /\ copy_age' = IF reader = "clock" THEN copy_age + 1 ELSE copy_age
    /\ stall' = IF reader = "idle" THEN 0 ELSE stall + 1
    /\ UNCHANGED <<last_rx_ms_, reader, max_age, rx_ms, call_now, fb_valid, link_ok>>

Tick ==
    /\ age < MaxSilence
    /\ reader = "idle" \/ stall < MaxStall
    /\ now' = (now + 1) % Wrap
    /\ age' = age + 1
    /\ copy_age' = IF reader = "clock" THEN copy_age + 1 ELSE copy_age
    /\ stall' = IF reader = "idle" THEN 0 ELSE stall + 1
    /\ UNCHANGED <<last_rx_ms_, reader, max_age, rx_ms, call_now, fb_valid, link_ok>>

\* processFrame() on a motion feedback.
Receive ==
    /\ last_rx_ms_' = now
    /\ age' = 0
    /\ UNCHANGED <<now, reader, callVars, stall, fb_valid, link_ok>>

CopyLatest ==
    /\ reader = "idle"
    /\ max_age' \in MaxAges
    /\ rx_ms' = last_rx_ms_
    /\ copy_age' = age
    /\ reader' = "clock"
    /\ stall' = 0
    /\ UNCHANGED <<now, last_rx_ms_, age, call_now, fb_valid, link_ok>>

\* Mutant: a feedback of exactly the age asked for still counts.
getLatestFeedbackAtLimit ==
    /\ reader = "clock"
    /\ fb_valid' = (Minus(now, rx_ms) <= max_age)
    /\ reader' = "idle"
    /\ UNCHANGED <<now, last_rx_ms_, age, callVars, stall, link_ok>>

getLatestFeedback ==
    /\ reader = "clock"
    /\ fb_valid' = (Minus(now, rx_ms) < max_age)
    /\ reader' = "idle"
    /\ UNCHANGED <<now, last_rx_ms_, age, callVars, stall, link_ok>>

ReadClock ==
    /\ reader = "idle"
    /\ call_now' = now
    /\ reader' = "stamp"
    /\ stall' = 0
    /\ UNCHANGED <<now, last_rx_ms_, age, max_age, rx_ms, copy_age, fb_valid, link_ok>>

linkOk ==
    /\ reader = "stamp"
    /\ link_ok' = (Minus(call_now, last_rx_ms_) < LinkAge)
    /\ reader' = "idle"
    /\ UNCHANGED <<now, last_rx_ms_, age, callVars, stall, fb_valid>>

FbNext == Tick \/ Receive \/ CopyLatest \/ getLatestFeedback \/ ReadClock \/ linkOk

FbSpec == FbInit /\ [][FbNext]_fbVars

-----------------------------------------------------------------------------
(* The planner steers by a feedback, and the publisher reports it, exactly *)
(* when it is younger than asked at the moment of the verdict, across the  *)
(* wrap of the clock and however long the caller was preempted between the *)
(* copy and the clock: provided the STM32 is never silent for a whole turn *)
(* of the clock.                                                           *)
FreshExactly ==
    [][getLatestFeedback => (fb_valid' <=> copy_age < max_age)]_fbVars

(* linkOk() never vouches for a link that has been silent too long: true   *)
(* means a feedback within LinkAge of the clock reading, and the caller's  *)
(* own stall is all that may be added to it.                               *)
LinkOkHonest == [][linkOk /\ link_ok' => age < LinkAge + stall]_fbVars

=============================================================================
