------------------------------ MODULE Congestion ------------------------------
(***************************************************************************)
(* congestion.c and the window half of bt_server.c, as operators on the    *)
(* CongestCtrl record of one outgoing transfer (transfer.h).  Sequence     *)
(* numbers run from 1 to MAX_SEQ_NUM; begin is the last number             *)
(* acknowledged and index the last number sent.                            *)
(*                                                                         *)
(* In congestion avoidance the code computes the window from the clock:    *)
(* the window at entry plus the round-trip times elapsed since.  The       *)
(* model has no clock: between two acknowledgements any number of          *)
(* round-trip times up to MAX_RTTS passes.                                 *)
(***************************************************************************)
EXTENDS Naturals

CONSTANTS
    MAX_SEQ_NUM,        \* DATA packets in a chunk (525 in chunk.h)
    DEFAULT_SS_THRESH,  \* first slow start threshold (64 in congestion.h)
    MAX_DUP_ACKS,       \* duplicate ACKs that count as a loss (3 in bt_server.c)
    MAX_TO_COUNTS,      \* timeouts before a peer is taken for dead (5 in transfer.h)
    MAX_RTTS            \* bound: round-trip times between two ACKs

ASSUME CongestionAssumption ==
    /\ MAX_SEQ_NUM \in Nat \ {0}
    /\ DEFAULT_SS_THRESH \in Nat \ {0}
    /\ MAX_DUP_ACKS \in Nat \ {0}
    /\ MAX_TO_COUNTS \in Nat \ {0}
    /\ MAX_RTTS \in Nat

SeqNums == 1..MAX_SEQ_NUM

CongestCtrl ==
    [congest_state : {"SS", "CA"}, begin : 0..MAX_SEQ_NUM, index : 0..MAX_SEQ_NUM,
     wind_size : Nat \ {0}, ssthresh : Nat, dup_count : Nat, timeout_count : Nat]

\* The control block create_transfer fills in.
NewCongestCtrl ==
    [congest_state |-> "SS", begin |-> 0, index |-> 0, wind_size |-> 1,
     ssthresh |-> DEFAULT_SS_THRESH, dup_count |-> 0, timeout_count |-> 0]

------------------------------------------------------------------------------

\* Mutant: one doubling too many.
slow_start_OffByOne(k) ==
    IF k.wind_size <= k.ssthresh THEN [k EXCEPT !.wind_size = 2 * @]
                                 ELSE [k EXCEPT !.congest_state = "CA"]

slow_start(k) ==
    IF k.wind_size < k.ssthresh THEN [k EXCEPT !.wind_size = 2 * @]
                                ELSE [k EXCEPT !.congest_state = "CA"]

congestion_avoidance(k) == {[k EXCEPT !.wind_size = @ + r] : r \in 0..MAX_RTTS}

congestion_control(k) ==
    IF k.congest_state = "SS" THEN {slow_start(k)} ELSE congestion_avoidance(k)

\* Mutant: the window is halved with its threshold, without a floor.
detected_first_loss_Halves(k) ==
    [k EXCEPT !.ssthresh = k.wind_size \div 2, !.wind_size = @ \div 2,
              !.congest_state = IF @ = "SS" THEN "CA" ELSE "SS"]

\* A loss in slow start keeps the window and enters congestion avoidance, a
\* loss there starts again from a window of one.
detected_first_loss(k) ==
    LET half   == k.wind_size \div 2
        thresh == IF half < 2 THEN 2 ELSE half
    IN  IF k.congest_state = "SS"
          THEN [k EXCEPT !.ssthresh = thresh, !.congest_state = "CA"]
          ELSE [k EXCEPT !.ssthresh = thresh, !.congest_state = "SS", !.wind_size = 1]

\* The window begins at the ACK; what is before it need not be sent.
adjust_window(k, ack) ==
    [k EXCEPT !.begin = ack, !.index = IF ack > @ THEN ack ELSE @]

\* The last sequence number the window allows to be sent.
WindowEnd(k) ==
    IF k.begin + k.wind_size < MAX_SEQ_NUM THEN k.begin + k.wind_size ELSE MAX_SEQ_NUM

\* The loop of send_DATA: the numbers it sends, and the control block after it.
SentByWindow(k) == (k.index + 1) .. WindowEnd(k)

AfterSend(k) ==
    [k EXCEPT !.dup_count = 0, !.index = IF WindowEnd(k) > @ THEN WindowEnd(k) ELSE @]

------------------------------------------------------------------------------

\* The sliding window: nothing is acknowledged before it is sent, the transfer
\* ends before the window does, slow start never runs far past its threshold,
\* and the duplicates that count as a loss start a new count.
WindowOK(k) ==
    /\ k.begin <= k.index
    /\ k.begin < MAX_SEQ_NUM
    /\ k.congest_state = "SS" => k.wind_size < 2 * k.ssthresh
    /\ k.dup_count < MAX_DUP_ACKS
==============================================================================
