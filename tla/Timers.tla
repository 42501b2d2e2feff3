-------------------------------- MODULE Timers --------------------------------
(***************************************************************************)
(* The select loop of peer.c with its clock: mytime.c, the timestamps of   *)
(* the transfers, transfer_has_timeout, and the windows of congestion.c    *)
(* that are computed from the time.  One peer process is modelled; what    *)
(* the other peers send it is arbitrary.                                   *)
(*                                                                         *)
(* time is the real time in ticks and millitime what the code sees of it.  *)
(* time only advances while select waits, and select waits no longer than  *)
(* SELECT_TIMEOUT; any number of inputs can arrive at one time.  The       *)
(* fields heard, born and ca_since and the variable last_input are real    *)
(* times kept for the properties: the code does not have them.             *)
(***************************************************************************)
EXTENDS Congestion, Lists

CONSTANTS
    Remotes,            \* the other peers
    CLOCK_WRAP,         \* millitime goes back to 0 here (2^20 seconds)
    START,              \* what millitime returns when the peer starts
    ULONG, UINT,        \* values of unsigned long (mytime_t) and unsigned int
    RTT,                \* the fixed round-trip time (200 ms in transfer.c)
    TIMEOUT_THRESHOLD,  \* 3000 ms in transfer.h
    SELECT_TIMEOUT,     \* 5 s in peer.c
    MAX_UPLOADS,        \* bound: uploads at a time (the -m option)
    MAX_DOWNLOADS,      \* bound: downloads at a time
    MAX_TIME            \* bound: ticks

ASSUME TimersAssumption ==
    /\ RTT \in Nat \ {0}
    /\ CLOCK_WRAP \in Nat \ {0} /\ START \in 0..(CLOCK_WRAP - 1)
    /\ UINT \in Nat /\ UINT > MAX_SEQ_NUM /\ UINT >= 4
    /\ 2 * DEFAULT_SS_THRESH <= UINT
    /\ \A d, e \in 1..UINT : d * e = UINT => d = 1 \/ d % 2 = 0  \* a power of two
    /\ 2 * (CLOCK_WRAP \div RTT) < UINT
    /\ ULONG \in Nat /\ ULONG > CLOCK_WRAP + TIMEOUT_THRESHOLD
    /\ TIMEOUT_THRESHOLD \in Nat /\ SELECT_TIMEOUT \in Nat
    /\ TIMEOUT_THRESHOLD < SELECT_TIMEOUT
    /\ MAX_UPLOADS \in Nat /\ MAX_DOWNLOADS \in Nat
    /\ MAX_TIME \in 0..(CLOCK_WRAP - 1)

VARIABLES
    time,       \* real time
    waited,     \* how long select has been waiting
    uploads,    \* the transfers of bt_server.c, with their control blocks
    downloads,  \* the transfers of bt_client.c
    eof,        \* standard input is at its end
    last_input  \* real time of the last input

vars == <<time, waited, uploads, downloads, eof, last_input>>

millitime == (START + time) % CLOCK_WRAP

\* Subtraction of mytime_t values.
Since(t) == (millitime + ULONG - t) % ULONG

\* Mutant: the times are compared as if the clock never went back.
transfer_has_timeout_NoWrap(t) == millitime > t.timestamp + TIMEOUT_THRESHOLD

transfer_has_timeout(t) == Since(t.timestamp) > TIMEOUT_THRESHOLD

Init ==
    /\ time = 0 /\ waited = 0
    /\ uploads = << >> /\ downloads = << >>
    /\ eof = FALSE
    /\ last_input = 0

------------------------------------------------------------------------------
(* congestion.c with the clock: k is a control block that also has the     *)
(* rtt_timer and the window at entry of congestion avoidance, and the real *)
(* time of that entry.                                                     *)

Timed(k) == [congest_state |-> k.congest_state, begin |-> k.begin, index |-> k.index,
             wind_size |-> k.wind_size, ssthresh |-> k.ssthresh, dup_count |-> k.dup_count,
             timeout_count |-> k.timeout_count, rtt_timer |-> 0, start_wind_size |-> 0,
             ca_since |-> 0]

\* slow_start and detected_first_loss start the timer when they enter CA.
StartCA(k) ==
    IF k.congest_state = "CA"
      THEN [k EXCEPT !.rtt_timer = millitime, !.start_wind_size = k.wind_size, !.ca_since = time]
      ELSE k

\* Mutant: each ACK adds the round-trip times since CA was entered.
congestion_avoidance_timed_Sums(k) ==
    [k EXCEPT !.wind_size = (Since(k.rtt_timer) \div RTT + k.wind_size) % UINT]

congestion_avoidance_timed(k) ==
    [k EXCEPT !.wind_size = (Since(k.rtt_timer) \div RTT + k.start_wind_size) % UINT]

congestion_control_timed(k) ==
    IF k.congest_state = "SS" THEN StartCA(slow_start(k)) ELSE congestion_avoidance_timed(k)

\* The loop of send_DATA, with the width of begin + wind_size.
send_DATA_timed(k) ==
    LET limit == (k.begin + k.wind_size) % UINT
        last  == IF limit < MAX_SEQ_NUM THEN limit ELSE MAX_SEQ_NUM
    IN  [k EXCEPT !.dup_count = 0, !.index = IF last > @ THEN last ELSE @]

------------------------------------------------------------------------------
(* Inputs.  Whatever arrives ends the wait of select.                      *)

Arrival == last_input' = time /\ waited' = 0 /\ UNCHANGED time

Input == Arrival /\ UNCHANGED eof

First(list, q) == node_find({i \in DOMAIN list : list[i].peer = q})

\* receive_GET opens a transfer: create_transfer and the first DATA packets.
receive_GET(q) ==
    /\ Input
    /\ Len(uploads) < MAX_UPLOADS
    /\ uploads' = node_insert(uploads,
                    [peer |-> q, timestamp |-> millitime, heard |-> time,
                     cctrl |-> send_DATA_timed(Timed(NewCongestCtrl))])
    /\ UNCHANGED downloads

\* The control block after an ACK that does not end the transfer.
AfterAck(k, ack) ==
    [ (IF ack > k.begin
         THEN send_DATA_timed(congestion_control_timed(adjust_window(k, ack)))
         ELSE IF ack = k.begin /\ k.dup_count + 1 >= MAX_DUP_ACKS
           THEN send_DATA_timed(StartCA(detected_first_loss([k EXCEPT !.index = k.begin])))
           ELSE [k EXCEPT !.dup_count = IF ack = k.begin THEN @ + 1 ELSE @])
      EXCEPT !.timeout_count = 0 ]

\* Mutant: the timeouts are not counted from zero again.
Refreshed_CountKept(t, ack) ==
    [t EXCEPT !.cctrl = [AfterAck(@, ack) EXCEPT !.timeout_count = t.cctrl.timeout_count],
              !.timestamp = millitime, !.heard = time]

Refreshed(t, ack) ==
    [t EXCEPT !.cctrl = AfterAck(@, ack), !.timestamp = millitime, !.heard = time]

receive_ACK(q, ack) ==
    /\ Input
    /\ \E i \in First(uploads, q) :
          uploads' = IF ack = MAX_SEQ_NUM
                       THEN node_delete(uploads, i)
                       ELSE [uploads EXCEPT ![i] = Refreshed(@, ack)]
    /\ UNCHANGED downloads

\* get_chunk_data opens a transfer, and send_GET stamps the first one with q:
\* that is the new one.
NewDownload(q) == [peer |-> q, timestamp |-> millitime, born |-> time, timeout_count |-> 0]

\* init_data_transfer, for any number of chunks and any available peers.
Started(list) ==
    {s \o list : s \in SeqOf({NewDownload(q) : q \in Remotes}, MAX_DOWNLOADS - Len(list))}

receive_IHAVE ==
    /\ Input
    /\ downloads' \in Started(downloads)
    /\ UNCHANGED uploads

\* A packet that leaves the chunk incomplete is acknowledged, and send_ACK
\* stamps the transfer.
store_DATA(q) ==
    /\ Input
    /\ \E i \in First(downloads, q) : downloads' = [downloads EXCEPT ![i].timestamp = millitime]
    /\ UNCHANGED uploads

\* The last packet ends the transfer and new ones are looked for.
complete_DATA(q) ==
    /\ Input
    /\ \E i \in First(downloads, q) : downloads' \in Started(node_delete(downloads, i))
    /\ UNCHANGED uploads

receive_DENIED(q) ==
    /\ Input
    /\ \E i \in First(downloads, q) : downloads' = node_delete(downloads, i)
    /\ UNCHANGED uploads

\* A datagram that touches no transfer, or a line from the user.
other_input == Input /\ UNCHANGED <<uploads, downloads>>

\* Standard input ends.
close_stdin ==
    /\ Arrival
    /\ ~eof /\ eof' = TRUE
    /\ UNCHANGED <<uploads, downloads>>

------------------------------------------------------------------------------
(* The wait, and what is done when it was in vain.                         *)

\* At the end of standard input select returns at once, time after time.
Tick ==
    /\ time < MAX_TIME /\ waited < SELECT_TIMEOUT
    /\ time' = time + 1
    /\ waited' = IF eof THEN 0 ELSE waited + 1
    /\ UNCHANGED <<uploads, downloads, eof, last_input>>

\* Mutant: one timeout more.
Survivors_OneMore(list, counts) ==
    {i \in DOMAIN list : transfer_has_timeout(list[i]) => counts[i] + 1 <= MAX_TO_COUNTS}

\* The positions of the transfers that live on, with the timeouts each had.
Survivors(list, counts) ==
    {i \in DOMAIN list : transfer_has_timeout(list[i]) => counts[i] + 1 < MAX_TO_COUNTS}

\* Mutant: the timeout is not counted.
TimedOut_NotCounted(k) == StartCA(detected_first_loss(k))

TimedOut(k) == StartCA(detected_first_loss([k EXCEPT !.timeout_count = @ + 1]))

handle_server_timeout ==
    node_keep([i \in DOMAIN uploads |->
                  IF transfer_has_timeout(uploads[i])
                    THEN [uploads[i] EXCEPT !.cctrl = TimedOut(@)] ELSE uploads[i]],
              Survivors(uploads, [i \in DOMAIN uploads |-> uploads[i].cctrl.timeout_count]))

\* A surviving transfer that has timed out asks again, and send_GET or send_ACK
\* stamps the first transfer with its peer.  There is a missing chunk as long
\* as there is a download, so the early return changes nothing here.
handle_client_timeout ==
    LET alive    == Survivors(downloads, [i \in DOMAIN downloads |-> downloads[i].timeout_count])
        with(q)  == {i \in alive : downloads[i].peer = q}
        stamped  == UNION {node_find(with(q)) : q \in
                        {downloads[i].peer : i \in {j \in alive : transfer_has_timeout(downloads[j])}}}
    IN  Started(node_keep([i \in DOMAIN downloads |->
                    [downloads[i] EXCEPT
                       !.timeout_count = IF transfer_has_timeout(downloads[i]) THEN @ + 1 ELSE @,
                       !.timestamp = IF i \in stamped THEN millitime ELSE @]], alive))

\* select has waited for SELECT_TIMEOUT.
handle_timeout ==
    /\ waited = SELECT_TIMEOUT
    /\ waited' = 0
    /\ uploads' = handle_server_timeout
    /\ downloads' \in handle_client_timeout
    /\ UNCHANGED <<time, eof, last_input>>

Next ==
    \/ \E q \in Remotes : receive_GET(q) \/ store_DATA(q) \/ complete_DATA(q) \/ receive_DENIED(q)
    \/ \E q \in Remotes, ack \in 0..MAX_SEQ_NUM : receive_ACK(q, ack)
    \/ receive_IHAVE \/ other_input \/ close_stdin
    \/ Tick \/ handle_timeout

Spec == Init /\ [][Next]_vars

------------------------------------------------------------------------------

TimedCtrl ==
    [congest_state : {"SS", "CA"}, begin : 0..MAX_SEQ_NUM, index : 0..MAX_SEQ_NUM,
     wind_size : 0..(UINT - 1), ssthresh : 0..(UINT - 1), dup_count : 0..(MAX_DUP_ACKS - 1),
     timeout_count : 0..(MAX_TO_COUNTS - 1), rtt_timer : 0..(CLOCK_WRAP - 1),
     start_wind_size : 0..(UINT - 1), ca_since : 0..MAX_TIME]

\* Types, and the counters' bounds: a transfer whose count reaches the limit is
\* gone in the same step.
TypeOK ==
    /\ time \in 0..MAX_TIME /\ last_input \in 0..time
    /\ waited \in 0..SELECT_TIMEOUT
    /\ eof \in BOOLEAN
    /\ uploads \in Seq([peer : Remotes, timestamp : 0..(CLOCK_WRAP - 1), heard : 0..time,
                         cctrl : TimedCtrl])
    /\ downloads \in Seq([peer : Remotes, timestamp : 0..(CLOCK_WRAP - 1), born : 0..time,
                           timeout_count : 0..(MAX_TO_COUNTS - 1)])

\* handle_timeout never meets a transfer that is too young to have timed out:
\* when select has waited in vain, transfer_has_timeout is true of all of them,
\* also when the clock went back to zero in between.
AllTimedOut ==
    waited = SELECT_TIMEOUT =>
        /\ \A i \in DOMAIN uploads : transfer_has_timeout(uploads[i])
        /\ \A i \in DOMAIN downloads : transfer_has_timeout(downloads[i])

PATIENCE == MAX_TO_COUNTS * SELECT_TIMEOUT

\* Transfers do not hang: once nothing has arrived for PATIENCE, no upload is
\* left and no download that was there before.  Only while standard input is
\* open: at its end handle_timeout is never called again.
DeadTransfersFreed ==
    ~eof /\ time - last_input > PATIENCE =>
        /\ uploads = << >>
        /\ \A i \in DOMAIN downloads : downloads[i].born > last_input

\* A peer is not given up too early: a timeout ends an upload only when nothing
\* was heard of the peer for PATIENCE, and a download only when it is that old.
\* (receive_DATA does not reset the count of a download, so it may die younger
\* than PATIENCE after its last packet.)
PatientWithPeers ==
    [][handle_timeout =>
        /\ \A i \in DOMAIN uploads : uploads[i].heard + PATIENCE > time =>
              \E j \in DOMAIN uploads' : uploads'[j].heard = uploads[i].heard
                                           /\ uploads'[j].peer = uploads[i].peer
        /\ \A i \in DOMAIN downloads : downloads[i].born + PATIENCE > time =>
              \E j \in DOMAIN downloads' : downloads'[j].born = downloads[i].born
                                             /\ downloads'[j].peer = downloads[i].peer]_vars

\* In congestion avoidance the window grows by at most one packet for each
\* round-trip time since it was entered, and does not shrink below the window
\* at entry.
LinearGrowth(k) ==
    k.congest_state = "CA" =>
        k.wind_size \in k.start_wind_size .. (k.start_wind_size + (time - k.ca_since) \div RTT)

\* The clock has not gone back to zero since real time t.
SameLap(t) == (START + t) \div CLOCK_WRAP = (START + time) \div CLOCK_WRAP

\* The comment of congestion_avoidance, "at most by one packet per RRT", holds
\* until the clock goes back to zero; the window is a huge number after that.
LinearWithinLap ==
    \A i \in DOMAIN uploads :
        SameLap(uploads[i].cctrl.ca_since) => LinearGrowth(uploads[i].cctrl)
==============================================================================
