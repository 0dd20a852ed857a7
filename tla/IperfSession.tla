----------------------------- MODULE IperfSession -----------------------------
(***************************************************************************)
(* What the control plane of bats_iperf promises, as the state machine     *)
(* drawn in iperf_test.h: how the states of the two peers of one test may  *)
(* move relative to each other.  Messages, threads and streams are left    *)
(* out.  Two entries of the code that the drawing does not have are kept:  *)
(* a peer that gives up goes to DONE, and a sender that gave up because    *)
(* its streams died still reports (DONE back to EXCHANGE_REPORTS).         *)
(***************************************************************************)

VARIABLES
    s,         \* state_ of the sender's test
    r,         \* state_ of the receiver's test
    finished,  \* the sender has stopped its streams
    broken,    \* the control connection is lost
    quitting   \* the sender is tearing down

vars == <<s, r, finished, broken, quitting>>

Init ==
    /\ s = "NONE" /\ r = "NONE"
    /\ finished = FALSE /\ broken = FALSE /\ quitting = FALSE

(* The sender opens the session.                                           *)
SendParameters ==
    /\ s \in {"NONE", "DONE"} /\ r = "NONE"
    /\ s' = "EXCHANGE_PARAMETERS"
    /\ UNCHANGED <<r, finished, broken, quitting>>

(* The receiver joins once the sender has opened it.                       *)
StartReceiving ==
    /\ s # "NONE" /\ r = "NONE"
    /\ r' = "START"
    /\ UNCHANGED <<s, finished, broken, quitting>>

(* (ack): the sender sends data only to a receiver that joined.            *)
StartSending ==
    /\ s = "EXCHANGE_PARAMETERS" /\ r # "NONE"
    /\ s' = "START"
    /\ UNCHANGED <<r, finished, broken, quitting>>

(* Sending ends.                                                           *)
Finish ==
    /\ quitting \/ (s # "EXCHANGE_PARAMETERS" /\ r # "NONE")
    /\ finished' = TRUE
    /\ UNCHANGED <<s, r, broken, quitting>>

Report ==
    /\ finished /\ r # "NONE"
    /\ s' = "EXCHANGE_REPORTS"
    /\ UNCHANGED <<r, finished, broken, quitting>>

(* The receiver is done when it gets the summary of a sender that          *)
(* finished, ...                                                           *)
ReceiveReport ==
    /\ r = "START" /\ finished
    /\ r' = "DONE"
    /\ UNCHANGED <<s, finished, broken, quitting>>

(* ... and (ack) the sender is done after it.                              *)
AckReport ==
    /\ s = "EXCHANGE_REPORTS" /\ r = "DONE"
    /\ s' = "DONE"
    /\ UNCHANGED <<r, finished, broken, quitting>>

(* Giving up.  While the connection holds and nobody quits, a report that  *)
(* is out is not given up on, and a receiver never gives up.               *)
Break == broken' = TRUE /\ UNCHANGED <<s, r, finished, quitting>>

Quit ==
    /\ quitting' = TRUE
    /\ s' \in {s, "DONE"} /\ finished' \in {finished, TRUE}
    /\ UNCHANGED <<r, broken>>

SenderGivesUp ==
    /\ broken \/ quitting \/ s # "EXCHANGE_REPORTS"
    /\ s' = "DONE"
    /\ UNCHANGED <<r, finished, broken, quitting>>

ReceiverGivesUp ==
    /\ broken
    /\ r' = "DONE"
    /\ UNCHANGED <<s, finished, broken, quitting>>

(* The server process goes away: it gives up and takes the connection      *)
(* along.                                                                  *)
ServerLeaves ==
    /\ broken' = TRUE
    /\ r' \in {r, "DONE"}
    /\ UNCHANGED <<s, finished, quitting>>

Next ==
    \/ SendParameters \/ StartReceiving \/ StartSending \/ Finish \/ Report
    \/ ReceiveReport \/ AckReport
    \/ Break \/ Quit \/ SenderGivesUp \/ ReceiverGivesUp \/ ServerLeaves

Spec == Init /\ [][Next]_vars
===============================================================================
