------------------------------- MODULE NanTx -------------------------------
(***************************************************************************)
(* Transmission of NAN frames on Linux: pkg/l2/wifi/nan.go, the Nan record *)
(* of client_linux.go and ScheduleBeacon of nan_driver.go.                 *)
(*                                                                         *)
(* Every interface has a Nan and a goroutine that sends a beacon and a     *)
(* discovery frame at each tick.  A frame is given up when the last one    *)
(* was sent less than 100 ms ago and the kernel has not reported its       *)
(* status.  The goroutine that receives the reports resets LastSent        *)
(* without the mutex of the Nan.  Frame contents are left out.             *)
(***************************************************************************)
EXTENDS Naturals

CONSTANTS
    Nans,       \* the interfaces NanClients knows
    MaxReports  \* bound: frames of a Nan without a report

VARIABLES
    LastSent,   \* [Nans -> Times]
    sending,    \* [Nans -> place of the goroutine of ScheduleBeacon]
    reports,    \* [Nans -> Nat], TX status messages that may still come
    panicked    \* StartReceive has ended the process

txVars == <<LastSent, sending, reports, panicked>>

\* What SendFrameRaw can tell of a time: the zero value, less than 100 ms ago, at
\* least 100 ms ago.  "half" has one of the words wall and ext of a new time.
\* "future" has wall of a reset, without the monotonic flag, and ext of a time in
\* nanoseconds, which are then read as seconds.
Times == {"zero", "recent", "old", "half", "future"}

Frames == {"beacon", "discovery"}
StoreOf(f) == IF f = "beacon" THEN "beacon store" ELSE "discovery store"
After(f) == IF f = "beacon" THEN "discovery" ELSE "wait"

Go(i, place) == sending' = [sending EXCEPT ![i] = place]

\* NewNan for each interface; StartReceive starts after all of them.
Started ==
    /\ LastSent = [i \in Nans |-> "zero"]
    /\ sending = [i \in Nans |-> "wait"]
    /\ reports = [i \in Nans |-> 0]

TxInit == Started /\ panicked = FALSE

\* A process without NAN, for a composition: no goroutine of it does anything.
TxEnded == Started /\ panicked = TRUE

-----------------------------------------------------------------------------
(* ScheduleBeacon and SendBeacon *)

\* A tick starts SendBeacon, which takes the mutex nobody else takes.  A tick that
\* waited may follow the previous call at once.
Tick(i) ==
    /\ sending[i] = "wait"
    /\ Go(i, "beacon")
    /\ UNCHANGED <<LastSent, reports, panicked>>

TooEarlyMutant(i) == LastSent[i] # "zero"

\* !c.LastSent.IsZero() && time.Since(c.LastSent) < 100*time.Millisecond
TooEarly(i) == LastSent[i] \in {"recent", "future"}

\* SendFrameRaw gives the frame up, and its caller goes on.
GiveUp(i, f) ==
    /\ sending[i] = f /\ TooEarly(i)
    /\ Go(i, After(f))
    /\ UNCHANGED <<LastSent, reports, panicked>>

\* c.LastSent = t0 stores the words of the time one by one, in either order.
StoreFirst(i, f) ==
    /\ sending[i] = f /\ ~TooEarly(i)
    /\ LastSent' = [LastSent EXCEPT ![i] = "half"]
    /\ Go(i, StoreOf(f))
    /\ UNCHANGED <<reports, panicked>>

\* The other word, beside that of a reset in between (the flag in wall with ext 0 is
\* the start of the process), and Send: the kernel accepts the frame, with a report
\* to come unless it gets lost, or refuses it.
Transmit(i, f) ==
    /\ sending[i] = StoreOf(f)
    /\ \E t \in IF LastSent[i] = "half" THEN {"recent"} ELSE {"old", "future"} :
           LastSent' = [LastSent EXCEPT ![i] = t]
    /\ \/ reports[i] < MaxReports /\ reports' = [reports EXCEPT ![i] = @ + 1]
       \/ UNCHANGED reports
    /\ Go(i, After(f))
    /\ UNCHANGED panicked

\* 100 ms since the last frame.
Elapse(i) ==
    /\ LastSent[i] = "recent"
    /\ LastSent' = [LastSent EXCEPT ![i] = "old"]
    /\ UNCHANGED <<sending, reports, panicked>>

-----------------------------------------------------------------------------
(* StartReceive *)

\* CmdFrameTxStatus of a known interface, whichever frame it is about.  Of other
\* interfaces, and of the other commands, only a line is logged.
TxStatus(i) ==
    /\ reports[i] > 0
    /\ reports' = [reports EXCEPT ![i] = @ - 1]
    /\ LastSent' = [LastSent EXCEPT ![i] = "zero"]
    /\ UNCHANGED <<sending, panicked>>

\* CmdFrameWaitCancel of an interface made since, such as that of a P2P group on
\* which wpa_supplicant sends: the nil of NanClients is dereferenced.
WaitCancelUnknown ==
    /\ panicked' = TRUE
    /\ UNCHANGED <<LastSent, sending, reports>>

TxNext ==
    /\ ~panicked
    /\ \/ \E i \in Nans : Tick(i) \/ Elapse(i) \/ TxStatus(i)
       \/ \E i \in Nans, f \in Frames : GiveUp(i, f) \/ StoreFirst(i, f) \/ Transmit(i, f)
       \/ WaitCancelUnknown

\* Tickers tick, goroutines run and time passes.  Nothing is assumed of reports.
TxFairness ==
    \A i \in Nans :
        /\ WF_txVars(~panicked /\ Tick(i))
        /\ WF_txVars(~panicked /\ \E f \in Frames :
                         GiveUp(i, f) \/ StoreFirst(i, f) \/ Transmit(i, f))
        /\ WF_txVars(~panicked /\ Elapse(i))

TxSpec == TxInit /\ [][TxNext]_txVars /\ TxFairness

-----------------------------------------------------------------------------
(* Property *)

\* Reports that are lost or late do not silence an interface: it transmits again
\* and again, unless StartReceive has ended the process, or a report was handled in
\* the middle of the store of LastSent and no other report follows.
FramesContinue ==
    \A i \in Nans :
        \/ []<><<\E f \in Frames : Transmit(i, f)>>_txVars
        \/ <>panicked
        \/ <>[](LastSent[i] = "future")
=============================================================================
