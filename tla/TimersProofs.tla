----------------------------- MODULE TimersProofs -----------------------------
(***************************************************************************)
(* The select loop with its clock, proved for every timeout, every width   *)
(* of the clock and of the counters and every number of transfers.  The    *)
(* inductive invariant ties what the code keeps, a timestamp read from a   *)
(* clock that goes back to zero and a count of timeouts, to the real time  *)
(* that has passed.                                                        *)
(***************************************************************************)
EXTENDS Timers, ListsProofs

(* Arithmetic. *)

\* What div and % are.
LEMMA Division ==
  ASSUME NEW a \in Nat, NEW b \in Nat \ {0}
  PROVE  /\ a \div b \in Nat /\ a % b \in 0..(b - 1)
         /\ a = b * (a \div b) + (a % b)
  OBVIOUS

\* Products with a common factor are ordered as the other factors.
LEMMA TimesMonotone ==
  ASSUME NEW a \in Nat, NEW b \in Nat, NEW c \in Nat, a <= b
  PROVE  a * c \in Nat /\ b * c \in Nat /\ a * c <= b * c
  OBVIOUS

\* Division is monotone.
LEMMA DivMonotone ==
  ASSUME NEW a \in Nat, NEW b \in Nat, NEW c \in Nat \ {0}, a <= b
  PROVE  a \div c <= b \div c
<1> DEFINE p == a \div c
           q == b \div c
<1>1. p \in Nat /\ q \in Nat /\ c * p <= a /\ b < c * q + c
  BY Division
<1> HIDE DEF p, q
<1> SUFFICES ASSUME q + 1 <= p PROVE FALSE
  BY <1>1 DEF p, q
<1>2. (q + 1) * c <= p * c
  BY <1>1, TimesMonotone
<1>3. (q + 1) * c = c * q + c /\ p * c = c * p
  BY <1>1
<1> QED  BY <1>1, <1>2, <1>3


------------------------------------------------------------------------------
(* The clock. *)

\* What the clock shows at real time t.
Stamp(t) == (START + t) % CLOCK_WRAP

\* The clock goes back to zero at most once.
LEMMA Laps ==
  ASSUME NEW t \in 0..MAX_TIME
  PROVE  /\ Stamp(t) \in 0..(CLOCK_WRAP - 1)
         /\ START + t < CLOCK_WRAP => Stamp(t) = START + t /\ (START + t) \div CLOCK_WRAP = 0
         /\ START + t >= CLOCK_WRAP =>
              Stamp(t) = START + t - CLOCK_WRAP /\ (START + t) \div CLOCK_WRAP = 1
<1> DEFINE n == START + t
           q == n \div CLOCK_WRAP
           r == n % CLOCK_WRAP
<1>1. n \in Nat /\ CLOCK_WRAP \in Nat \ {0} /\ n < 2 * CLOCK_WRAP
  BY TimersAssumption
<1>2. q \in Nat /\ r \in 0..(CLOCK_WRAP - 1) /\ n = CLOCK_WRAP * q + r
  BY <1>1, Division
<1>3. Stamp(t) = r
  BY DEF Stamp
<1> HIDE DEF n, q, r
<1>4. CASE q = 0
  BY <1>1, <1>2, <1>3, <1>4 DEF n, q
<1>5. CASE q = 1
  <2>1. CLOCK_WRAP * q = CLOCK_WRAP
    BY <1>1, <1>5
  <2>2. n = CLOCK_WRAP + r /\ r = n - CLOCK_WRAP /\ n >= CLOCK_WRAP
    BY <1>1, <1>2, <2>1
  <2>3. ~(START + t < CLOCK_WRAP) /\ START + t - CLOCK_WRAP = r
    BY <1>1, <1>2, <2>2, TimersAssumption DEF n
  <2>4. (START + t) \div CLOCK_WRAP = 1
    BY <1>5 DEF n, q
  <2> QED  BY <1>2, <1>3, <2>3, <2>4
<1>6. CASE q >= 2
  <2>1. 2 * CLOCK_WRAP <= q * CLOCK_WRAP /\ q * CLOCK_WRAP = CLOCK_WRAP * q
    BY <1>1, <1>2, <1>6, TimesMonotone
  <2> QED  BY <1>1, <1>2, <2>1
<1> QED  BY <1>2, <1>4, <1>5, <1>6

\* What the code computes as the time since t: the real one in the same lap of
\* the clock, and more than the threshold of a timeout in a later one.
LEMMA Elapsed ==
  ASSUME time \in 0..MAX_TIME, NEW t \in 0..time
  PROVE  /\ Since(Stamp(t)) \in Nat
         /\ SameLap(t) => Since(Stamp(t)) = time - t
         /\ ~SameLap(t) => Since(Stamp(t)) > TIMEOUT_THRESHOLD
         /\ time - t > TIMEOUT_THRESHOLD => Since(Stamp(t)) > TIMEOUT_THRESHOLD
<1> DEFINE n == millitime + ULONG - Stamp(t)
<1>1. t \in 0..MAX_TIME /\ time - t \in 0..MAX_TIME /\ millitime = Stamp(time)
  BY TimersAssumption DEF millitime, Stamp
<1>2. Since(Stamp(t)) = n % ULONG /\ ULONG \in Nat \ {0}
  BY TimersAssumption DEF Since
<1> DEFINE turned(x) == START + x >= CLOCK_WRAP
           lap(x) == (START + x) \div CLOCK_WRAP
<1>5. ASSUME NEW x \in 0..MAX_TIME
      PROVE  /\ turned(x) => lap(x) = 1 /\ Stamp(x) = START + x - CLOCK_WRAP
             /\ ~turned(x) => lap(x) = 0 /\ Stamp(x) = START + x
  BY Laps, TimersAssumption
<1>6. SameLap(t) <=> lap(t) = lap(time)
  BY DEF SameLap
<1> HIDE DEF lap
<1>7. SameLap(t) <=> (turned(t) <=> turned(time))
  BY <1>1, <1>5, <1>6
<1>8. turned(t) => turned(time)
  BY <1>1, TimersAssumption
<1>3. CASE SameLap(t)
  <2>1. n = time - t + ULONG
    BY <1>1, <1>3, <1>5, <1>7, TimersAssumption
  <2> HIDE DEF n
  <2>2. time - t < ULONG /\ time - t \in Nat
    BY <1>1, TimersAssumption
  <2>3. n % ULONG = time - t
    BY <1>2, <2>1, <2>2
  <2> QED  BY <1>2, <1>3, <2>2, <2>3
<1>4. CASE ~SameLap(t)
  <2>1. n = (ULONG - CLOCK_WRAP) + (time - t)
    BY <1>1, <1>4, <1>5, <1>7, <1>8, TimersAssumption
  <2> HIDE DEF n
  <2>2. n \in Nat /\ n < ULONG /\ n > TIMEOUT_THRESHOLD
    BY <1>1, <2>1, TimersAssumption
  <2>3. n % ULONG = n
    BY <1>2, <2>2
  <2> QED  BY <1>2, <1>4, <2>2, <2>3
<1> QED  BY <1>3, <1>4

------------------------------------------------------------------------------
(* The windows.  In slow start a window is a power of two, and it stops    *)
(* growing before unsigned int overflows.                                  *)

\* w is a power of two and at most half of the values of unsigned int.
Halves(w) == \E e \in 2..UINT : w * e = UINT

\* Such a window can be doubled and is no larger than that.
LEMMA HalfRange ==
  ASSUME NEW w \in Nat, Halves(w)
  PROVE  w \in 1..(UINT - 1) /\ 2 * w <= UINT
<1>1. PICK e \in 2..UINT : w * e = UINT
  BY DEF Halves
<1>2. UINT \in Nat /\ UINT >= 4 /\ e \in Nat
  BY TimersAssumption
<1>3. w # 0
  BY <1>1, <1>2
<1>4. 2 * w <= e * w
  BY <1>2, TimesMonotone
<1>5. e * w = UINT
  BY <1>1, <1>2
<1> QED  BY <1>2, <1>3, <1>4, <1>5

\* Doubling a window below the threshold gives another one: unsigned int does
\* not overflow in slow start.
LEMMA Doubling ==
  ASSUME NEW w \in Nat, Halves(w), NEW s \in Nat, 2 * s <= UINT, w < s
  PROVE  Halves(2 * w)
<1>1. PICK e \in 2..UINT : w * e = UINT
  BY DEF Halves
<1>2. UINT \in Nat /\ UINT >= 4 /\ e \in 1..UINT /\ w \in 1..UINT
  BY TimersAssumption, HalfRange
<1>3. e * w = UINT
  BY <1>1, <1>2
<1>4. e # 2 /\ e # 1
  BY <1>1, <1>2
<1>5. e % 2 = 0
  BY <1>2, <1>3, <1>4, TimersAssumption
<1>6. PICK d \in Nat : e = 2 * d
  <2>1. e = 2 * (e \div 2) + (e % 2) /\ e \div 2 \in Nat
    BY <1>2, Division
  <2> QED  BY <1>5, <2>1
<1>7. d \in 2..UINT
  BY <1>2, <1>4, <1>6
<1>8. (2 * w) * d = UINT
  <2>1. (2 * w) * d = w * (2 * d)
    OBVIOUS
  <2> QED  BY <1>1, <1>6, <2>1
<1> QED  BY <1>7, <1>8 DEF Halves

\* The first window of a transfer, and of slow start after a loss.
LEMMA OneHalves == Halves(1)
  BY TimersAssumption DEF Halves


\* The invariant of a control block: the threshold and the windows leave room
\* for unsigned int, and in congestion avoidance the timer is what the clock
\* showed at entry, and the growth is linear until the clock turns.
CtrlOK(k) ==
    /\ k.ca_since <= time
    /\ 2 * k.ssthresh <= UINT
    /\ k.congest_state = "SS" => Halves(k.wind_size)
    /\ k.congest_state = "CA" =>
          /\ k.rtt_timer = Stamp(k.ca_since)
          /\ 2 * k.start_wind_size <= UINT
          /\ SameLap(k.ca_since) => LinearGrowth(k)

\* The fields CtrlOK is about.
SameWindow(j, k) ==
    /\ j.congest_state = k.congest_state
    /\ j.wind_size = k.wind_size /\ j.ssthresh = k.ssthresh
    /\ j.rtt_timer = k.rtt_timer /\ j.start_wind_size = k.start_wind_size
    /\ j.ca_since = k.ca_since

\* CtrlOK depends on no other field.
LEMMA CtrlFrame ==
  ASSUME NEW j, NEW k, SameWindow(j, k), CtrlOK(k)
  PROVE  CtrlOK(j)
  BY DEF SameWindow, CtrlOK, LinearGrowth

\* The control block of a new transfer.
LEMMA NewTimed ==
  ASSUME time \in 0..MAX_TIME
  PROVE  Timed(NewCongestCtrl) \in TimedCtrl /\ CtrlOK(Timed(NewCongestCtrl))
<1> DEFINE k == Timed(NewCongestCtrl)
<1>1. k = [congest_state |-> "SS", begin |-> 0, index |-> 0, wind_size |-> 1,
           ssthresh |-> DEFAULT_SS_THRESH, dup_count |-> 0, timeout_count |-> 0,
           rtt_timer |-> 0, start_wind_size |-> 0, ca_since |-> 0]
  BY DEF Timed, NewCongestCtrl
<1> HIDE DEF k
<1>2. k \in TimedCtrl
  BY <1>1, CongestionAssumption, TimersAssumption DEF TimedCtrl
<1>3. CtrlOK(k)
  BY <1>1, OneHalves, TimersAssumption DEF CtrlOK
<1> QED  BY <1>2, <1>3 DEF k

\* The loop of send_DATA moves index inside the chunk, also when the sum of
\* begin and wind_size overflows.
LEMMA TimedSend ==
  ASSUME NEW k \in TimedCtrl, CtrlOK(k)
  PROVE  /\ send_DATA_timed(k) \in TimedCtrl /\ CtrlOK(send_DATA_timed(k))
         /\ send_DATA_timed(k).timeout_count = k.timeout_count
<1> DEFINE limit == (k.begin + k.wind_size) % UINT
           last  == IF limit < MAX_SEQ_NUM THEN limit ELSE MAX_SEQ_NUM
           x     == IF last > k.index THEN last ELSE k.index
           j     == send_DATA_timed(k)
<1>1. k.begin \in Nat /\ k.wind_size \in Nat /\ k.index \in 0..MAX_SEQ_NUM
        /\ UINT \in Nat \ {0} /\ MAX_SEQ_NUM \in Nat
  BY CongestionAssumption, TimersAssumption DEF TimedCtrl
<1>2. limit \in Nat
  BY <1>1, Division
<1> HIDE DEF limit
<1>3. x \in 0..MAX_SEQ_NUM
  BY <1>1, <1>2
<1>4. j = [[k EXCEPT !.dup_count = 0] EXCEPT !.index = x]
  BY DEF send_DATA_timed, TimedCtrl, limit
<1> HIDE DEF x, j
<1>5. 0 \in 0..(MAX_DUP_ACKS - 1)
  BY CongestionAssumption
<1>6. j \in TimedCtrl
  BY <1>3, <1>4, <1>5 DEF TimedCtrl
<1>7. SameWindow(j, k) /\ j.timeout_count = k.timeout_count
  BY <1>4 DEF TimedCtrl, SameWindow
<1> QED  BY <1>6, <1>7, CtrlFrame DEF j

\* Moving the window to an acknowledgement.
LEMMA TimedMove ==
  ASSUME NEW k \in TimedCtrl, CtrlOK(k), NEW ack \in 0..MAX_SEQ_NUM
  PROVE  /\ adjust_window(k, ack) \in TimedCtrl /\ CtrlOK(adjust_window(k, ack))
<1> DEFINE x == IF ack > k.index THEN ack ELSE k.index
           j == adjust_window(k, ack)
<1>1. x \in 0..MAX_SEQ_NUM
  BY CongestionAssumption DEF TimedCtrl
<1>2. j = [[k EXCEPT !.begin = ack] EXCEPT !.index = x]
  BY DEF adjust_window, TimedCtrl
<1> HIDE DEF x, j
<1>3. j \in TimedCtrl /\ SameWindow(j, k)
  BY <1>1, <1>2 DEF TimedCtrl, SameWindow
<1> QED  BY <1>3, CtrlFrame DEF j

\* Entering congestion avoidance with a window of slow start.
LEMMA EnterCA ==
  ASSUME time \in 0..MAX_TIME, NEW k \in TimedCtrl, k.congest_state = "CA",
         Halves(k.wind_size), 2 * k.ssthresh <= UINT
  PROVE  /\ StartCA(k) \in TimedCtrl /\ CtrlOK(StartCA(k))
         /\ StartCA(k).timeout_count = k.timeout_count
<1> DEFINE j == StartCA(k)
<1>1. j = [[[k EXCEPT !.rtt_timer = millitime] EXCEPT !.start_wind_size = k.wind_size]
             EXCEPT !.ca_since = time]
  BY DEF StartCA, TimedCtrl
<1>2. millitime = Stamp(time) /\ millitime \in 0..(CLOCK_WRAP - 1)
  BY Laps DEF millitime, Stamp
<1> HIDE DEF j
<1>3. j \in TimedCtrl /\ j.rtt_timer = Stamp(time) /\ j.ca_since = time
        /\ j.start_wind_size = k.wind_size /\ j.wind_size = k.wind_size
        /\ j.ssthresh = k.ssthresh /\ j.congest_state = "CA"
        /\ j.timeout_count = k.timeout_count
  BY <1>1, <1>2 DEF TimedCtrl
<1>4. k.wind_size \in Nat /\ 2 * k.wind_size <= UINT
  BY HalfRange DEF TimedCtrl
<1>5. LinearGrowth(j)
  <2>1. time - j.ca_since = 0 /\ RTT \in Nat \ {0}
    BY <1>3, TimersAssumption
  <2>2. 0 \div RTT \in Nat
    BY <2>1, Division
  <2> QED  BY <1>3, <1>4, <2>1, <2>2 DEF LinearGrowth
<1>6. CtrlOK(j)
  BY <1>3, <1>4, <1>5 DEF CtrlOK
<1> QED  BY <1>3, <1>6 DEF j


\* A loss: the new threshold is at most half of a window, whatever that window
\* is, and slow start begins again from one.
LEMMA TimedLoss ==
  ASSUME time \in 0..MAX_TIME, NEW k \in TimedCtrl, CtrlOK(k)
  PROVE  /\ StartCA(detected_first_loss(k)) \in TimedCtrl
         /\ CtrlOK(StartCA(detected_first_loss(k)))
         /\ StartCA(detected_first_loss(k)).timeout_count = k.timeout_count
<1> DEFINE half == k.wind_size \div 2
           thresh == IF half < 2 THEN 2 ELSE half
           j == detected_first_loss(k)
<1>1. half \in Nat /\ 2 * half <= k.wind_size /\ k.wind_size \in 0..(UINT - 1)
        /\ UINT \in Nat /\ UINT >= 4
  <2>1. k.wind_size \in 0..(UINT - 1) /\ UINT \in Nat /\ UINT >= 4
    BY TimersAssumption DEF TimedCtrl
  <2>2. half \in Nat /\ k.wind_size % 2 \in 0..(2 - 1)
          /\ k.wind_size = 2 * half + (k.wind_size % 2)
    <3>1. k.wind_size \in Nat /\ 2 \in Nat \ {0}
      BY <2>1
    <3> QED  BY <3>1, Division, Zenon
  <2> HIDE DEF half
  <2> QED  BY <2>1, <2>2
<1> HIDE DEF half
<1>2. thresh \in 0..(UINT - 1) /\ 2 * thresh <= UINT
  BY <1>1
<1>3. CASE k.congest_state = "SS"
  <2>1. j = [[k EXCEPT !.ssthresh = thresh] EXCEPT !.congest_state = "CA"]
    BY <1>3 DEF detected_first_loss, TimedCtrl, half
  <2> HIDE DEF j, thresh
  <2>2. j \in TimedCtrl /\ j.congest_state = "CA" /\ j.ssthresh = thresh
          /\ j.wind_size = k.wind_size /\ j.timeout_count = k.timeout_count
    BY <1>2, <2>1 DEF TimedCtrl
  <2>3. Halves(j.wind_size)
    BY <1>3, <2>2 DEF CtrlOK
  <2> QED  BY <1>2, <2>2, <2>3, EnterCA DEF j
<1>4. CASE k.congest_state = "CA"
  <2>1. j = [[[k EXCEPT !.ssthresh = thresh] EXCEPT !.congest_state = "SS"] EXCEPT !.wind_size = 1]
    BY <1>4 DEF detected_first_loss, TimedCtrl, half
  <2> HIDE DEF j, thresh
  <2>5. 1 \in 0..(UINT - 1)
    BY <1>1
  <2>2. j \in TimedCtrl /\ j.congest_state = "SS" /\ j.ssthresh = thresh
          /\ j.wind_size = 1 /\ j.timeout_count = k.timeout_count /\ j.ca_since = k.ca_since
    BY <1>2, <2>1, <2>5 DEF TimedCtrl
  <2>3. CtrlOK(j)
    BY <1>2, <2>2, OneHalves DEF CtrlOK
  <2>4. StartCA(j) = j
    BY <2>2 DEF StartCA
  <2> QED  BY <2>2, <2>3, <2>4 DEF j
<1> QED  BY <1>3, <1>4 DEF TimedCtrl

\* The window in congestion avoidance, in the lap of the clock in which it was
\* entered, is the one at entry and the round-trip times since: there is room.
LEMMA TimedAvoidance ==
  ASSUME time \in 0..MAX_TIME, NEW k \in TimedCtrl, CtrlOK(k), k.congest_state = "CA"
  PROVE  congestion_avoidance_timed(k) \in TimedCtrl /\ CtrlOK(congestion_avoidance_timed(k))
<1> DEFINE r == Since(k.rtt_timer) \div RTT
           w == (r + k.start_wind_size) % UINT
           j == congestion_avoidance_timed(k)
<1>1. k.ca_since \in 0..time /\ k.rtt_timer = Stamp(k.ca_since)
        /\ k.start_wind_size \in Nat /\ 2 * k.start_wind_size <= UINT
        /\ UINT \in Nat \ {0} /\ RTT \in Nat \ {0}
  BY TimersAssumption DEF CtrlOK, TimedCtrl
<1>2. r \in Nat
  BY <1>1, Elapsed, Division
<1>3. w \in 0..(UINT - 1)
  <2> HIDE DEF r
  <2>1. r + k.start_wind_size \in Nat
    BY <1>1, <1>2
  <2> QED  BY <1>1, <2>1, Division
<1>4. j = [k EXCEPT !.wind_size = w]
  BY DEF congestion_avoidance_timed
<1>5. ASSUME SameLap(k.ca_since)
      PROVE  w \in k.start_wind_size .. (k.start_wind_size + (time - k.ca_since) \div RTT)
  <2>1. r = (time - k.ca_since) \div RTT
    BY <1>1, <1>5, Elapsed
  <2>2. r <= CLOCK_WRAP \div RTT
    <3>1. time - k.ca_since \in Nat /\ CLOCK_WRAP \in Nat /\ time - k.ca_since <= CLOCK_WRAP
      BY <1>1, TimersAssumption
    <3> QED  BY <1>1, <2>1, <3>1, DivMonotone
  <2>3. 2 * r < UINT
    <3> DEFINE c == CLOCK_WRAP \div RTT
    <3>1. c \in Nat /\ 2 * c < UINT
      BY <1>1, Division, TimersAssumption
    <3> HIDE DEF c, r
    <3> QED  BY <1>1, <1>2, <2>2, <3>1 DEF c
  <2> HIDE DEF r
  <2>4. r + k.start_wind_size < UINT
    BY <1>1, <1>2, <2>3
  <2>5. w = r + k.start_wind_size
    BY <1>1, <1>2, <2>4
  <2> HIDE DEF w
  <2>6. w = k.start_wind_size + r
    BY <1>1, <1>2, <2>5
  <2>7. w \in k.start_wind_size .. (k.start_wind_size + r)
    BY <1>1, <1>2, <2>6
  <2> QED  BY <2>1, <2>7
<1> HIDE DEF w, j
<1>6. j \in TimedCtrl /\ j.congest_state = "CA" /\ j.wind_size = w
        /\ j.ssthresh = k.ssthresh /\ j.rtt_timer = k.rtt_timer
        /\ j.start_wind_size = k.start_wind_size /\ j.ca_since = k.ca_since
  BY <1>3, <1>4 DEF TimedCtrl
<1>7. SameLap(j.ca_since) => LinearGrowth(j)
  BY <1>5, <1>6 DEF LinearGrowth
<1>8. CtrlOK(j)
  BY <1>6, <1>7 DEF CtrlOK
<1> QED  BY <1>6, <1>8 DEF j

\* The window grows by doubling in slow start and with the clock after that.
LEMMA TimedGrowth ==
  ASSUME time \in 0..MAX_TIME, NEW k \in TimedCtrl, CtrlOK(k)
  PROVE  congestion_control_timed(k) \in TimedCtrl /\ CtrlOK(congestion_control_timed(k))
<1>1. CASE k.congest_state = "SS" /\ k.wind_size < k.ssthresh
  <2> DEFINE j == [k EXCEPT !.wind_size = 2 * k.wind_size]
  <2>1. slow_start(k) = j
    BY <1>1 DEF slow_start
  <2>2. k.wind_size \in Nat /\ k.ssthresh \in Nat /\ Halves(k.wind_size) /\ 2 * k.ssthresh <= UINT
    BY <1>1 DEF CtrlOK, TimedCtrl
  <2>3. Halves(2 * k.wind_size) /\ 2 * k.wind_size \in Nat
    BY <1>1, <2>2, Doubling
  <2>4. 2 * k.wind_size \in 0..(UINT - 1)
    BY <2>3, HalfRange
  <2>5. j \in TimedCtrl /\ j.congest_state = "SS" /\ j.wind_size = 2 * k.wind_size
          /\ j.ssthresh = k.ssthresh /\ j.ca_since = k.ca_since
    BY <1>1, <2>4 DEF TimedCtrl
  <2> HIDE DEF j
  <2>6. CtrlOK(j)
    BY <2>3, <2>5 DEF CtrlOK
  <2>7. congestion_control_timed(k) = j
    BY <1>1, <2>1, <2>5 DEF congestion_control_timed, StartCA
  <2> QED  BY <2>5, <2>6, <2>7
<1>2. CASE k.congest_state = "SS" /\ ~(k.wind_size < k.ssthresh)
  <2> DEFINE j == [k EXCEPT !.congest_state = "CA"]
  <2>1. congestion_control_timed(k) = StartCA(j)
    BY <1>2 DEF slow_start, congestion_control_timed
  <2>2. j \in TimedCtrl /\ j.congest_state = "CA" /\ j.wind_size = k.wind_size
          /\ j.ssthresh = k.ssthresh
    BY DEF TimedCtrl
  <2> HIDE DEF j
  <2>3. Halves(j.wind_size) /\ 2 * j.ssthresh <= UINT
    BY <1>2, <2>2 DEF CtrlOK
  <2> QED  BY <2>1, <2>2, <2>3, EnterCA
<1>3. CASE k.congest_state = "CA"
  <2>1. congestion_control_timed(k) = congestion_avoidance_timed(k)
    BY <1>3 DEF congestion_control_timed
  <2> QED  BY <1>3, <2>1, TimedAvoidance
<1> QED  BY <1>1, <1>2, <1>3 DEF TimedCtrl


\* The control block after an acknowledgement.
LEMMA TimedAck ==
  ASSUME time \in 0..MAX_TIME, NEW k \in TimedCtrl, CtrlOK(k), NEW ack \in 0..MAX_SEQ_NUM
  PROVE  /\ AfterAck(k, ack) \in TimedCtrl /\ CtrlOK(AfterAck(k, ack))
         /\ AfterAck(k, ack).timeout_count = 0
<1> DEFINE moved == send_DATA_timed(congestion_control_timed(adjust_window(k, ack)))
           back == [k EXCEPT !.index = k.begin]
           lost == send_DATA_timed(StartCA(detected_first_loss(back)))
           dup == IF ack = k.begin THEN k.dup_count + 1 ELSE k.dup_count
           counted == [k EXCEPT !.dup_count = dup]
           Sound(j) == j \in TimedCtrl /\ CtrlOK(j)
<1>1. Sound(moved)
  BY TimedMove, TimedGrowth, TimedSend
<1>2. Sound(lost)
  <2>1. back \in TimedCtrl /\ SameWindow(back, k)
    BY DEF TimedCtrl, SameWindow
  <2> HIDE DEF back
  <2> QED  BY <2>1, CtrlFrame, TimedLoss, TimedSend
<1>3. ASSUME ~(ack > k.begin), ~(ack = k.begin /\ k.dup_count + 1 >= MAX_DUP_ACKS)
      PROVE  Sound(counted)
  <2>1. dup \in 0..(MAX_DUP_ACKS - 1)
    BY <1>3, CongestionAssumption DEF TimedCtrl
  <2> HIDE DEF dup
  <2>2. counted \in TimedCtrl /\ SameWindow(counted, k)
    BY <2>1 DEF TimedCtrl, SameWindow
  <2> QED  BY <2>2, CtrlFrame
<1>4. ASSUME NEW j, Sound(j), AfterAck(k, ack) = [j EXCEPT !.timeout_count = 0]
      PROVE  AfterAck(k, ack) \in TimedCtrl /\ CtrlOK(AfterAck(k, ack))
               /\ AfterAck(k, ack).timeout_count = 0
  <2> DEFINE a == [j EXCEPT !.timeout_count = 0]
  <2>1. 0 \in 0..(MAX_TO_COUNTS - 1)
    BY CongestionAssumption
  <2>2. a \in TimedCtrl /\ SameWindow(a, j) /\ a.timeout_count = 0
    BY <1>4, <2>1 DEF TimedCtrl, SameWindow
  <2> HIDE DEF a
  <2>3. CtrlOK(a)
    BY <1>4, <2>2, CtrlFrame
  <2> QED  BY <1>4, <2>2, <2>3 DEF a
<1> HIDE DEF Sound
<1>5. CASE ack > k.begin
  <2>1. AfterAck(k, ack) = [moved EXCEPT !.timeout_count = 0]
    BY <1>5 DEF AfterAck
  <2> HIDE DEF moved
  <2> QED  BY <1>1, <1>4, <2>1
<1>6. CASE ~(ack > k.begin) /\ ack = k.begin /\ k.dup_count + 1 >= MAX_DUP_ACKS
  <2>1. AfterAck(k, ack) = [lost EXCEPT !.timeout_count = 0]
    BY <1>6 DEF AfterAck
  <2> HIDE DEF lost
  <2> QED  BY <1>2, <1>4, <2>1
<1>7. CASE ~(ack > k.begin) /\ ~(ack = k.begin /\ k.dup_count + 1 >= MAX_DUP_ACKS)
  <2>1. AfterAck(k, ack) = [counted EXCEPT !.timeout_count = 0]
    BY <1>7 DEF AfterAck
  <2>2. Sound(counted)
    BY <1>3, <1>7
  <2> HIDE DEF counted
  <2> QED  BY <1>4, <2>1, <2>2
<1> QED  BY <1>5, <1>6, <1>7

\* The control block after a timeout that is not the last one.
LEMMA TimedTimeout ==
  ASSUME time \in 0..MAX_TIME, NEW k \in TimedCtrl, CtrlOK(k),
         k.timeout_count + 1 < MAX_TO_COUNTS
  PROVE  /\ TimedOut(k) \in TimedCtrl /\ CtrlOK(TimedOut(k))
         /\ TimedOut(k).timeout_count = k.timeout_count + 1
<1> DEFINE j == [k EXCEPT !.timeout_count = @ + 1]
<1>1. k.timeout_count + 1 \in 0..(MAX_TO_COUNTS - 1)
  BY CongestionAssumption DEF TimedCtrl
<1>2. j \in TimedCtrl /\ SameWindow(j, k) /\ j.timeout_count = k.timeout_count + 1
  BY <1>1 DEF TimedCtrl, SameWindow
<1>3. TimedOut(k) = StartCA(detected_first_loss(j))
  BY DEF TimedOut
<1> HIDE DEF j
<1> QED  BY <1>2, <1>3, CtrlFrame, TimedLoss

\* A control block when time passes.
LEMMA CtrlLater ==
  ASSUME time \in 0..MAX_TIME, time' \in 0..MAX_TIME, time' >= time,
         NEW k \in TimedCtrl, CtrlOK(k)
  PROVE  CtrlOK(k)'
<1>1. k.ca_since \in 0..time /\ k.ca_since \in 0..MAX_TIME /\ k.start_wind_size \in Nat
        /\ k.wind_size \in Nat
  BY DEF CtrlOK, TimedCtrl
<1>2. ASSUME SameLap(k.ca_since)' PROVE SameLap(k.ca_since)
  <2> DEFINE lap(x) == (START + x) \div CLOCK_WRAP
  <2>1. lap(k.ca_since) \in Nat /\ lap(time) \in Nat /\ lap(time') \in Nat
          /\ lap(k.ca_since) <= lap(time) /\ lap(time) <= lap(time')
    <3> START \in Nat /\ CLOCK_WRAP \in Nat \ {0}
      BY TimersAssumption
    <3>1. /\ START + k.ca_since \in Nat /\ START + time \in Nat /\ START + time' \in Nat
          /\ START + k.ca_since <= START + time /\ START + time <= START + time'
      <4> DEFINE c == k.ca_since
                 u == time'
      <4>1. c \in Nat /\ time \in Nat /\ u \in Nat /\ c <= time /\ time <= u
        BY <1>1
      <4> HIDE DEF c, u
      <4>2. START + c \in Nat /\ START + time \in Nat /\ START + u \in Nat
              /\ START + c <= START + time /\ START + time <= START + u
        BY <4>1
      <4> QED  BY <4>2 DEF c, u
    <3>2. lap(k.ca_since) \in Nat /\ lap(time) \in Nat /\ lap(time') \in Nat
      BY <3>1, Division
    <3>3. lap(k.ca_since) <= lap(time)
      BY <3>1, DivMonotone
    <3>4. lap(time) <= lap(time')
      BY <3>1, DivMonotone
    <3> QED  BY <3>2, <3>3, <3>4
  <2>2. lap(k.ca_since) = lap(time')
    BY <1>2 DEF SameLap
  <2>3. SameLap(k.ca_since) <=> lap(k.ca_since) = lap(time)
    BY DEF SameLap
  <2> HIDE DEF lap
  <2> QED  BY <2>1, <2>2, <2>3
<1>3. ASSUME LinearGrowth(k) PROVE LinearGrowth(k)'
  <2> DEFINE p == (time - k.ca_since) \div RTT
             q == (time' - k.ca_since) \div RTT
  <2>1. p \in Nat /\ q \in Nat /\ p <= q
    <3>1. /\ time - k.ca_since \in Nat /\ time' - k.ca_since \in Nat
          /\ time - k.ca_since <= time' - k.ca_since
          /\ RTT \in Nat \ {0}
      BY <1>1, TimersAssumption
    <3> QED  BY <3>1, Division, DivMonotone
  <2>2. k.congest_state = "CA" => k.wind_size \in k.start_wind_size .. (k.start_wind_size + p)
    BY <1>3 DEF LinearGrowth
  <2>3. LinearGrowth(k)' <=>
          (k.congest_state = "CA" => k.wind_size \in k.start_wind_size .. (k.start_wind_size + q))
    BY DEF LinearGrowth
  <2> HIDE DEF p, q
  <2> QED  BY <1>1, <2>1, <2>2, <2>3
<1>4. k.ca_since <= time'
  BY <1>1
<1> QED  BY <1>2, <1>3, <1>4 DEF CtrlOK, TimedCtrl


------------------------------------------------------------------------------
(* The inductive invariant.                                                *)

\* An upload was stamped when its peer was last heard; each timeout it counts
\* took a whole wait of select since then, and while standard input is open
\* there was no other wait since the last input.
UploadOK(u) ==
    LET spent == u.cctrl.timeout_count * SELECT_TIMEOUT
    IN  /\ u.timestamp = Stamp(u.heard)
        /\ u.heard + spent + waited <= time
        /\ ~eof => time <= last_input + spent + waited
        /\ CtrlOK(u.cctrl)

\* A download was stamped before the present wait; its count is never reset, so
\* the waits are counted from its birth.
DownloadOK(d) ==
    LET spent == d.timeout_count * SELECT_TIMEOUT
    IN  /\ \E t \in 0..time : d.timestamp = Stamp(t) /\ t + waited <= time
        /\ d.born + spent + waited <= time
        /\ ~eof /\ d.born <= last_input => time <= last_input + spent + waited

Uploads == [peer : Remotes, timestamp : 0..(CLOCK_WRAP - 1), heard : 0..MAX_TIME,
            cctrl : TimedCtrl]

Downloads == [peer : Remotes, timestamp : 0..(CLOCK_WRAP - 1), born : 0..MAX_TIME,
              timeout_count : 0..(MAX_TO_COUNTS - 1)]

GoodUploads == {u \in Uploads : UploadOK(u)}
GoodDownloads == {d \in Downloads : DownloadOK(d)}

\* The variables of the loop itself.
LoopOK ==
    /\ time \in 0..MAX_TIME
    /\ last_input \in 0..time
    /\ waited \in 0..SELECT_TIMEOUT
    /\ last_input + waited <= time
    /\ eof \in BOOLEAN

TimersInv ==
    /\ LoopOK
    /\ uploads \in Seq(GoodUploads)
    /\ downloads \in Seq(GoodDownloads)

\* The waits that a count stands for.
LEMMA Spent ==
  ASSUME NEW n \in 0..(MAX_TO_COUNTS - 1)
  PROVE  /\ n * SELECT_TIMEOUT \in Nat
         /\ (n + 1) * SELECT_TIMEOUT = n * SELECT_TIMEOUT + SELECT_TIMEOUT
         /\ n * SELECT_TIMEOUT + SELECT_TIMEOUT <= PATIENCE
         /\ 0 * SELECT_TIMEOUT = 0
         /\ n + 1 >= MAX_TO_COUNTS => n * SELECT_TIMEOUT + SELECT_TIMEOUT = PATIENCE
<1> DEFINE S == SELECT_TIMEOUT
           M == MAX_TO_COUNTS
<1>1. S \in Nat /\ M \in Nat \ {0} /\ n \in Nat /\ n + 1 <= M
  BY CongestionAssumption, TimersAssumption
<1>2. PATIENCE = M * S
  BY DEF PATIENCE
<1> HIDE DEF S, M
<1>3. n * S \in Nat /\ (n + 1) * S = n * S + S /\ 0 * S = 0
  BY <1>1
<1>4. (n + 1) * S <= M * S
  BY <1>1, TimesMonotone
<1>5. n + 1 >= M => n + 1 = M
  BY <1>1
<1> QED  BY <1>2, <1>3, <1>4, <1>5, <1>1 DEF S, M

\* The fields of a good upload.
LEMMA UploadFields ==
  ASSUME NEW u \in GoodUploads
  PROVE  /\ u \in Uploads /\ UploadOK(u)
         /\ u.peer \in Remotes /\ u.heard \in 0..MAX_TIME /\ u.timestamp \in 0..(CLOCK_WRAP - 1)
         /\ u.cctrl \in TimedCtrl /\ CtrlOK(u.cctrl)
         /\ u.cctrl.timeout_count \in 0..(MAX_TO_COUNTS - 1)
         /\ u.cctrl.timeout_count * SELECT_TIMEOUT \in Nat
<1>1. u \in Uploads /\ UploadOK(u)
  BY DEF GoodUploads
<1>2. u.peer \in Remotes /\ u.heard \in 0..MAX_TIME /\ u.timestamp \in 0..(CLOCK_WRAP - 1)
        /\ u.cctrl \in TimedCtrl
  BY <1>1 DEF Uploads
<1>3. u.cctrl.timeout_count \in 0..(MAX_TO_COUNTS - 1)
  BY <1>2 DEF TimedCtrl
<1>4. u.cctrl.timeout_count * SELECT_TIMEOUT \in Nat
  BY <1>3, Spent
<1>5. CtrlOK(u.cctrl)
  BY <1>1 DEF UploadOK
<1> QED  BY <1>1, <1>2, <1>3, <1>4, <1>5

\* The fields of a good download.
LEMMA DownloadFields ==
  ASSUME NEW d \in GoodDownloads
  PROVE  /\ d \in Downloads /\ DownloadOK(d)
         /\ d.peer \in Remotes /\ d.born \in 0..MAX_TIME /\ d.timestamp \in 0..(CLOCK_WRAP - 1)
         /\ d.timeout_count \in 0..(MAX_TO_COUNTS - 1)
         /\ d.timeout_count * SELECT_TIMEOUT \in Nat
<1>1. d \in Downloads /\ DownloadOK(d)
  BY DEF GoodDownloads
<1>2. d.peer \in Remotes /\ d.born \in 0..MAX_TIME /\ d.timestamp \in 0..(CLOCK_WRAP - 1)
        /\ d.timeout_count \in 0..(MAX_TO_COUNTS - 1)
  BY <1>1 DEF Downloads
<1>3. d.timeout_count * SELECT_TIMEOUT \in Nat
  BY <1>2, Spent
<1> QED  BY <1>1, <1>2, <1>3

\* When select has waited in vain every transfer has timed out.
LEMMA OldEnough ==
  ASSUME LoopOK, waited = SELECT_TIMEOUT
  PROVE  /\ \A u \in GoodUploads : transfer_has_timeout(u)
         /\ \A d \in GoodDownloads : transfer_has_timeout(d)
<1> time \in 0..MAX_TIME /\ waited \in Nat /\ waited > TIMEOUT_THRESHOLD /\ TIMEOUT_THRESHOLD \in Nat
  BY TimersAssumption DEF LoopOK
<1>1. ASSUME NEW t \in 0..time, t + waited <= time PROVE Since(Stamp(t)) > TIMEOUT_THRESHOLD
  BY <1>1, Elapsed
<1>2. ASSUME NEW u \in GoodUploads PROVE transfer_has_timeout(u)
  <2> DEFINE spent == u.cctrl.timeout_count * SELECT_TIMEOUT
  <2>1. u.timestamp = Stamp(u.heard) /\ u.heard + spent + waited <= time
    BY UploadFields DEF UploadOK
  <2>2. spent \in Nat /\ u.heard \in 0..MAX_TIME
    BY UploadFields
  <2> HIDE DEF spent
  <2>3. u.heard \in 0..time /\ u.heard + waited <= time
    BY <2>1, <2>2
  <2> QED  BY <1>1, <2>1, <2>3 DEF transfer_has_timeout
<1>3. ASSUME NEW d \in GoodDownloads PROVE transfer_has_timeout(d)
  <2>1. PICK t \in 0..time : d.timestamp = Stamp(t) /\ t + waited <= time
    BY DownloadFields DEF DownloadOK
  <2> QED  BY <1>1, <2>1 DEF transfer_has_timeout
<1> QED  BY <1>2, <1>3


------------------------------------------------------------------------------
(* The steps. *)

\* A peer that has just started has no transfers.
LEMMA TimersInit == Init => TimersInv
<1> SUFFICES ASSUME Init PROVE TimersInv
  OBVIOUS
<1>1. LoopOK
  <2>1. MAX_TIME \in Nat /\ SELECT_TIMEOUT \in Nat
    BY TimersAssumption
  <2>2. time = 0 /\ waited = 0 /\ last_input = 0 /\ eof \in BOOLEAN
    BY DEF Init
  <2> QED  BY <2>1, <2>2 DEF LoopOK
<1> QED  BY <1>1 DEF Init, TimersInv

\* An input ends the wait: what was good before it is good after it.
LEMMA ArrivalKeeps ==
  ASSUME LoopOK, Arrival, eof' \in BOOLEAN
  PROVE  /\ LoopOK' /\ time' = time /\ waited' = 0
         /\ GoodUploads \subseteq GoodUploads'
         /\ GoodDownloads \subseteq GoodDownloads'
<1>1. /\ time' = time /\ waited' = 0 /\ last_input' = time
      /\ time \in Nat /\ time \in 0..MAX_TIME /\ waited \in Nat /\ SELECT_TIMEOUT \in Nat
  BY TimersAssumption DEF Arrival, LoopOK
<1>2. LoopOK'
  BY <1>1 DEF LoopOK
<1>3. ASSUME NEW u \in GoodUploads PROVE u \in GoodUploads'
  <2> DEFINE spent == u.cctrl.timeout_count * SELECT_TIMEOUT
  <2>1. u.timestamp = Stamp(u.heard) /\ u.heard + spent + waited <= time /\ CtrlOK(u.cctrl)
    BY UploadFields DEF UploadOK
  <2>2. spent \in Nat /\ u.heard \in Nat /\ u \in Uploads
    BY UploadFields
  <2> HIDE DEF spent
  <2>3. u.heard + spent + waited' <= time' /\ time' <= last_input' + spent + waited'
    BY <1>1, <2>1, <2>2
  <2>4. CtrlOK(u.cctrl)'
    BY <1>1, <2>1 DEF CtrlOK, SameLap, LinearGrowth
  <2>5. UploadOK(u)'
    BY <2>1, <2>3, <2>4 DEF UploadOK, spent
  <2> QED  BY <2>2, <2>5 DEF GoodUploads
<1>4. ASSUME NEW d \in GoodDownloads PROVE d \in GoodDownloads'
  <2> DEFINE spent == d.timeout_count * SELECT_TIMEOUT
  <2>1. d.born + spent + waited <= time
    BY DownloadFields DEF DownloadOK
  <2>2. PICK t \in 0..time : d.timestamp = Stamp(t) /\ t + waited <= time
    BY DownloadFields DEF DownloadOK
  <2>3. spent \in Nat /\ d.born \in Nat /\ d \in Downloads
    BY DownloadFields
  <2> HIDE DEF spent
  <2>4. d.born + spent + waited' <= time' /\ time' <= last_input' + spent + waited'
          /\ t \in 0..time' /\ t + waited' <= time'
    BY <1>1, <2>1, <2>2, <2>3
  <2>5. DownloadOK(d)'
    BY <2>2, <2>4 DEF DownloadOK, spent
  <2> QED  BY <2>3, <2>5 DEF GoodDownloads
<1> QED  BY <1>1, <1>2, <1>3, <1>4

\* Waiting: the transfers grow old with the wait.
LEMMA TickKeeps ==
  ASSUME LoopOK, Tick
  PROVE  /\ LoopOK'
         /\ GoodUploads \subseteq GoodUploads'
         /\ GoodDownloads \subseteq GoodDownloads'
<1>1. /\ time' = time + 1 /\ last_input' = last_input /\ eof' = eof /\ eof \in BOOLEAN
      /\ waited' = (IF eof THEN 0 ELSE waited + 1) /\ waited < SELECT_TIMEOUT
      /\ time \in Nat /\ time \in 0..MAX_TIME /\ time' \in 0..MAX_TIME
      /\ last_input \in 0..time /\ last_input + waited <= time
      /\ waited \in Nat /\ SELECT_TIMEOUT \in Nat
  BY TimersAssumption DEF Tick, LoopOK
<1>2. LoopOK'
  BY <1>1 DEF LoopOK
<1>3. waited' \in Nat /\ waited' <= waited + 1 /\ (~eof => waited' = waited + 1)
  BY <1>1
<1>4. ASSUME NEW u \in GoodUploads PROVE u \in GoodUploads'
  <2> DEFINE spent == u.cctrl.timeout_count * SELECT_TIMEOUT
  <2>1. u.timestamp = Stamp(u.heard) /\ u.heard + spent + waited <= time /\ CtrlOK(u.cctrl)
          /\ (~eof => time <= last_input + spent + waited)
    BY UploadFields DEF UploadOK
  <2>2. spent \in Nat /\ u.heard \in Nat /\ u \in Uploads /\ u.cctrl \in TimedCtrl
    BY UploadFields
  <2> HIDE DEF spent
  <2>3. u.heard + spent + waited' <= time' /\ (~eof' => time' <= last_input' + spent + waited')
    BY <1>1, <1>3, <2>1, <2>2
  <2>4. time' >= time
    BY <1>1
  <2>5. CtrlOK(u.cctrl)'
    BY <1>1, <2>1, <2>2, <2>4, CtrlLater
  <2>6. UploadOK(u)'
    BY <2>1, <2>3, <2>5 DEF UploadOK, spent
  <2> QED  BY <2>2, <2>6 DEF GoodUploads
<1>5. ASSUME NEW d \in GoodDownloads PROVE d \in GoodDownloads'
  <2> DEFINE spent == d.timeout_count * SELECT_TIMEOUT
  <2>1. d.born + spent + waited <= time
          /\ (~eof /\ d.born <= last_input => time <= last_input + spent + waited)
    BY DownloadFields DEF DownloadOK
  <2>2. PICK t \in 0..time : d.timestamp = Stamp(t) /\ t + waited <= time
    BY DownloadFields DEF DownloadOK
  <2>3. spent \in Nat /\ d.born \in Nat /\ d \in Downloads
    BY DownloadFields
  <2> HIDE DEF spent
  <2>4. d.born + spent + waited' <= time'
          /\ (~eof' /\ d.born <= last_input' => time' <= last_input' + spent + waited')
          /\ t \in 0..time' /\ t + waited' <= time'
    BY <1>1, <1>3, <2>1, <2>2, <2>3
  <2>5. DownloadOK(d)'
    BY <2>2, <2>4 DEF DownloadOK, spent
  <2> QED  BY <2>3, <2>5 DEF GoodDownloads
<1> QED  BY <1>2, <1>4, <1>5

\* A new download is good at the time at which it starts.
LEMMA NewDownloadGood ==
  ASSUME LoopOK, time' = time, waited' = 0, last_input' \in Nat, NEW q \in Remotes
  PROVE  NewDownload(q) \in GoodDownloads'
<1>1. PICK d : d = NewDownload(q)
  OBVIOUS
<1>2. time \in 0..MAX_TIME /\ time \in Nat
  BY DEF LoopOK
<1>3. millitime = Stamp(time) /\ millitime \in 0..(CLOCK_WRAP - 1)
  BY <1>2, Laps DEF millitime, Stamp
<1>4. d \in Downloads
  <2>1. 0 \in 0..(MAX_TO_COUNTS - 1)
    BY CongestionAssumption
  <2> QED  BY <1>1, <1>2, <1>3, <2>1 DEF NewDownload, Downloads
<1>5. d.timestamp = Stamp(time) /\ d.born = time /\ d.timeout_count = 0
  BY <1>1, <1>3 DEF NewDownload
<1>6. d.timeout_count * SELECT_TIMEOUT = 0
  <2>1. SELECT_TIMEOUT \in Nat
    BY TimersAssumption
  <2> QED  BY <1>5, <2>1
<1>7. d.born + 0 + waited' <= time' /\ d.born \in 0..time' /\ d.born + waited' <= time'
        /\ (d.born <= last_input' => time' <= last_input' + 0 + waited')
  <2> DEFINE b == d.born
             v == last_input'
  <2>1. b \in Nat /\ v \in Nat /\ time' = b /\ waited' = 0
    BY <1>2, <1>5
  <2> HIDE DEF b, v
  <2>2. b + 0 + 0 <= b /\ b \in 0..b /\ b + 0 <= b /\ (b <= v => b <= v + 0 + 0)
    BY <2>1
  <2> QED  BY <2>1, <2>2 DEF b, v
<1>8. DownloadOK(d)'
  BY <1>5, <1>6, <1>7 DEF DownloadOK
<1> QED  BY <1>1, <1>4, <1>8 DEF GoodDownloads

\* init_data_transfer puts new downloads in front of the others.
LEMMA StartedKeeps ==
  ASSUME NEW S, NEW list \in Seq(S), \A q \in Remotes : NewDownload(q) \in S,
         NEW new \in Started(list)
  PROVE  /\ new \in Seq(S)
         /\ \A i \in DOMAIN list : \E j \in DOMAIN new : new[j] = list[i]
<1> DEFINE N == {NewDownload(q) : q \in Remotes}
<1>1. PICK s \in SeqOf(N, MAX_DOWNLOADS - Len(list)) : new = s \o list
  BY DEF Started
<1>2. PICK m \in 0..(MAX_DOWNLOADS - Len(list)) : s \in [1..m -> N]
  BY <1>1 DEF SeqOf
<1>3. s \in Seq(S)
  <2>1. m \in Nat /\ N \subseteq S
    OBVIOUS
  <2>2. s \in [1..m -> S]
    BY <1>2, <2>1
  <2> QED  BY <2>1, <2>2, SeqDef
<1> HIDE DEF N
<1>4. \A i \in DOMAIN list : Len(s) + i \in DOMAIN (s \o list) /\ (s \o list)[Len(s) + i] = list[i]
  BY <1>3, ConcatAt
<1>5. s \o list \in Seq(S)
  BY <1>3, ConcatAt
<1> QED  BY <1>1, <1>4, <1>5


\* A list is a list over a larger set.
LEMMA Wider ==
  ASSUME NEW S, NEW T, S \subseteq T, NEW list \in Seq(S)
  PROVE  list \in Seq(T)
<1>1. \A i \in DOMAIN list : list[i] \in T
  BY LenProperties
<1> QED  BY <1>1, Retype

\* Replacing one node of a list.
LEMMA Replaced ==
  ASSUME NEW S, NEW list \in Seq(S), NEW i \in DOMAIN list, NEW d \in S
  PROVE  [list EXCEPT ![i] = d] \in Seq(S)
<1> DEFINE new == [list EXCEPT ![i] = d]
<1>1. \A j \in DOMAIN list : list[j] \in S
  BY LenProperties
<1>2. new \in [DOMAIN list -> S]
  BY <1>1
<1> HIDE DEF new
<1>3. new \in Seq(S)
  BY <1>2, FunctionSeq
<1> QED  BY <1>3 DEF new

\* An upload that was just stamped, with no timeout counted.
LEMMA StampedUpload ==
  ASSUME LoopOK, time' = time, waited' = 0, last_input' = time,
         NEW u \in Uploads, u.timestamp = millitime, u.heard = time,
         u.cctrl.timeout_count = 0, CtrlOK(u.cctrl)
  PROVE  u \in GoodUploads'
<1>1. time \in 0..MAX_TIME /\ time \in Nat /\ SELECT_TIMEOUT \in Nat
  BY TimersAssumption DEF LoopOK
<1>2. u.timestamp = Stamp(u.heard)
  BY DEF millitime, Stamp
<1>3. CtrlOK(u.cctrl)'
  BY DEF CtrlOK, SameLap, LinearGrowth
<1>4. u.cctrl.timeout_count * SELECT_TIMEOUT = 0
  BY <1>1
<1>5. u.heard + 0 + waited' <= time' /\ time' <= last_input' + 0 + waited'
  BY <1>1
<1>6. UploadOK(u)'
  BY <1>2, <1>3, <1>4, <1>5 DEF UploadOK
<1> QED  BY <1>6 DEF GoodUploads

\* receive_GET opens an upload that is stamped at once.
LEMMA GetKeeps ==
  ASSUME TimersInv, NEW q \in Remotes, receive_GET(q)
  PROVE  TimersInv'
<1>1. LoopOK /\ Arrival /\ eof' \in BOOLEAN /\ downloads' = downloads
  BY DEF TimersInv, receive_GET, Input, LoopOK
<1>2. /\ LoopOK' /\ time' = time /\ waited' = 0 /\ last_input' = time
      /\ GoodUploads \subseteq GoodUploads' /\ GoodDownloads \subseteq GoodDownloads'
  BY <1>1, ArrivalKeeps DEF Arrival
<1> DEFINE k0 == Timed(NewCongestCtrl)
           k1 == send_DATA_timed(k0)
           new == [peer |-> q, timestamp |-> millitime, heard |-> time, cctrl |-> k1]
<1>3. PICK u : u = new
  OBVIOUS
<1>4. time \in 0..MAX_TIME
  BY <1>1 DEF LoopOK
<1>5. millitime \in 0..(CLOCK_WRAP - 1)
  BY <1>4, Laps DEF millitime, Stamp
<1>6. k0 \in TimedCtrl /\ CtrlOK(k0) /\ k0.timeout_count = 0
  BY <1>4, NewTimed DEF Timed, NewCongestCtrl
<1> HIDE DEF k0
<1>7. k1 \in TimedCtrl /\ CtrlOK(k1) /\ k1.timeout_count = 0
  BY <1>6, TimedSend
<1> HIDE DEF k1
<1>8. u \in Uploads /\ u.timestamp = millitime /\ u.heard = time /\ u.cctrl = k1
  BY <1>3, <1>4, <1>5, <1>7 DEF Uploads
<1>9. u \in GoodUploads'
  BY <1>1, <1>2, <1>7, <1>8, StampedUpload
<1>10. uploads' = node_insert(uploads, u)
  BY <1>3 DEF receive_GET, k0, k1
<1>11. uploads' \in Seq(GoodUploads')
  BY <1>2, <1>9, <1>10, Wider, NodeInsert DEF TimersInv
<1>12. downloads' \in Seq(GoodDownloads')
  BY <1>1, <1>2, Wider DEF TimersInv
<1> QED  BY <1>2, <1>11, <1>12 DEF TimersInv

\* receive_ACK stamps an upload and forgets its timeouts, or ends it.
LEMMA AckKeeps ==
  ASSUME TimersInv, NEW q \in Remotes, NEW ack \in 0..MAX_SEQ_NUM, receive_ACK(q, ack)
  PROVE  TimersInv'
<1>1. LoopOK /\ Arrival /\ eof' \in BOOLEAN /\ downloads' = downloads
  BY DEF TimersInv, receive_ACK, Input, LoopOK
<1>2. /\ LoopOK' /\ time' = time /\ waited' = 0 /\ last_input' = time
      /\ GoodUploads \subseteq GoodUploads' /\ GoodDownloads \subseteq GoodDownloads'
  BY <1>1, ArrivalKeeps DEF Arrival
<1>3. PICK i \in First(uploads, q) :
        uploads' = IF ack = MAX_SEQ_NUM THEN node_delete(uploads, i)
                   ELSE [uploads EXCEPT ![i] = Refreshed(@, ack)]
  BY DEF receive_ACK
<1>4. i \in DOMAIN uploads /\ uploads[i] \in GoodUploads /\ uploads \in Seq(GoodUploads')
  <2>1. i \in DOMAIN uploads
    BY NodeFind DEF First
  <2>2. uploads \in Seq(GoodUploads) /\ uploads \in Seq(GoodUploads')
    BY <1>2, Wider DEF TimersInv
  <2> QED  BY <2>1, <2>2, LenProperties
<1>5. downloads' \in Seq(GoodDownloads')
  BY <1>1, <1>2, Wider DEF TimersInv
<1>6. uploads' \in Seq(GoodUploads')
  <2>1. CASE ack = MAX_SEQ_NUM
    BY <1>3, <1>4, <2>1, NodeDelete
  <2>2. CASE ack # MAX_SEQ_NUM
    <3>1. PICK u : u = Refreshed(uploads[i], ack)
      OBVIOUS
    <3> DEFINE old == uploads[i]
               k == AfterAck(old.cctrl, ack)
    <3>2. time \in 0..MAX_TIME
      BY <1>1 DEF LoopOK
    <3>3. millitime \in 0..(CLOCK_WRAP - 1)
      BY <3>2, Laps DEF millitime, Stamp
    <3>4. old \in Uploads /\ old.cctrl \in TimedCtrl /\ CtrlOK(old.cctrl)
      BY <1>4, UploadFields
    <3>5. k \in TimedCtrl /\ CtrlOK(k) /\ k.timeout_count = 0
      BY <3>2, <3>4, TimedAck
    <3>6. u = [[[old EXCEPT !.cctrl = k] EXCEPT !.timestamp = millitime] EXCEPT !.heard = time]
      BY <3>1 DEF Refreshed
    <3> HIDE DEF k, old
    <3>7. u \in Uploads /\ u.timestamp = millitime /\ u.heard = time /\ u.cctrl = k
      BY <3>2, <3>3, <3>4, <3>5, <3>6 DEF Uploads
    <3>8. u \in GoodUploads'
      BY <1>1, <1>2, <3>5, <3>7, StampedUpload
    <3>9. uploads' = [uploads EXCEPT ![i] = u]
      BY <1>3, <2>2, <3>1
    <3> QED  BY <1>4, <3>8, <3>9, Replaced
  <2> QED  BY <2>1, <2>2
<1> QED  BY <1>2, <1>5, <1>6 DEF TimersInv

\* The downloads after any of the inputs of bt_client.c.
LEMMA DownloadInputs ==
  ASSUME TimersInv, Input, UNCHANGED uploads,
         \/ downloads' = downloads
         \/ downloads' \in Started(downloads)
         \/ \E i \in DOMAIN downloads :
               \/ downloads' = node_delete(downloads, i)
               \/ downloads' \in Started(node_delete(downloads, i))
               \/ downloads' = [downloads EXCEPT ![i].timestamp = millitime]
  PROVE  TimersInv'
<1>1. LoopOK /\ Arrival /\ eof' \in BOOLEAN
  BY DEF TimersInv, Input, LoopOK
<1>2. /\ LoopOK' /\ time' = time /\ waited' = 0 /\ last_input' = time
      /\ GoodUploads \subseteq GoodUploads' /\ GoodDownloads \subseteq GoodDownloads'
  BY <1>1, ArrivalKeeps DEF Arrival
<1>3. uploads' \in Seq(GoodUploads')
  BY <1>2, Wider DEF TimersInv
<1>4. downloads \in Seq(GoodDownloads) /\ downloads \in Seq(GoodDownloads')
  BY <1>2, Wider DEF TimersInv
<1>5. time \in 0..MAX_TIME /\ last_input' \in Nat
  BY <1>1, <1>2 DEF LoopOK
<1>6. \A q \in Remotes : NewDownload(q) \in GoodDownloads'
  BY <1>1, <1>2, <1>5, NewDownloadGood
<1>7. CASE downloads' = downloads
  BY <1>2, <1>3, <1>4, <1>7 DEF TimersInv
<1>8. CASE downloads' \in Started(downloads)
  <2>1. downloads' \in Seq(GoodDownloads')
    BY <1>4, <1>6, <1>8, StartedKeeps
  <2> QED  BY <1>2, <1>3, <2>1 DEF TimersInv
<1>9. ASSUME NEW i \in DOMAIN downloads, downloads' = node_delete(downloads, i)
      PROVE  downloads' \in Seq(GoodDownloads')
  BY <1>4, <1>9, NodeDelete
<1>10. ASSUME NEW i \in DOMAIN downloads, downloads' \in Started(node_delete(downloads, i))
       PROVE  downloads' \in Seq(GoodDownloads')
  BY <1>4, <1>6, <1>10, NodeDelete, StartedKeeps
<1>11. ASSUME NEW i \in DOMAIN downloads, downloads' = [downloads EXCEPT ![i].timestamp = millitime]
       PROVE  downloads' \in Seq(GoodDownloads')
  <2>1. downloads[i] \in GoodDownloads'
    BY <1>4, LenProperties
  <2>2. PICK old : old = downloads[i]
    OBVIOUS
  <2>3. PICK d : d = [old EXCEPT !.timestamp = millitime]
    OBVIOUS
  <2>4. old \in Downloads /\ DownloadOK(old)'
    BY <2>1, <2>2 DEF GoodDownloads
  <2>5. millitime = Stamp(time) /\ millitime \in 0..(CLOCK_WRAP - 1)
    BY <1>5, Laps DEF millitime, Stamp
  <2>6. d \in Downloads /\ d.timestamp = Stamp(time) /\ d.born = old.born
          /\ d.timeout_count = old.timeout_count
    BY <2>3, <2>4, <2>5 DEF Downloads
  <2>7. time \in 0..time' /\ time + waited' <= time'
    BY <1>2, <1>5
  <2>8. DownloadOK(d)'
    BY <2>4, <2>6, <2>7 DEF DownloadOK
  <2>9. d \in GoodDownloads'
    BY <2>6, <2>8 DEF GoodDownloads
  <2>10. downloads' = [downloads EXCEPT ![i] = d]
    BY <1>11, <2>2, <2>3
  <2> QED  BY <1>4, <2>9, <2>10, Replaced
<1> QED  BY <1>2, <1>3, <1>7, <1>8, <1>9, <1>10, <1>11 DEF TimersInv


\* What handle_timeout does to the clock and the wait.
Waited ==
    /\ LoopOK /\ waited = SELECT_TIMEOUT /\ waited' = 0
    /\ UNCHANGED <<time, eof, last_input>>

\* An upload that survives a timeout has counted it.
LEMMA UploadTimesOut ==
  ASSUME Waited, NEW u \in GoodUploads, u.cctrl.timeout_count + 1 < MAX_TO_COUNTS,
         NEW v, v = [u EXCEPT !.cctrl = TimedOut(@)]
  PROVE  v \in GoodUploads' /\ v.heard = u.heard /\ v.peer = u.peer
<1>1. /\ time' = time /\ waited' = 0 /\ last_input' = last_input /\ eof' = eof
      /\ time \in 0..MAX_TIME /\ time \in Nat /\ last_input \in Nat
      /\ waited = SELECT_TIMEOUT /\ SELECT_TIMEOUT \in Nat
  BY TimersAssumption DEF Waited, LoopOK
<1> DEFINE c == u.cctrl.timeout_count
           k == TimedOut(u.cctrl)
<1>2. u \in Uploads /\ u.cctrl \in TimedCtrl /\ CtrlOK(u.cctrl) /\ c \in 0..(MAX_TO_COUNTS - 1)
        /\ u.heard \in Nat
  BY UploadFields
<1>3. k \in TimedCtrl /\ CtrlOK(k) /\ k.timeout_count = c + 1
  BY <1>1, <1>2, TimedTimeout
<1>4. u.timestamp = Stamp(u.heard) /\ u.heard + c * SELECT_TIMEOUT + waited <= time
        /\ (~eof => time <= last_input + c * SELECT_TIMEOUT + waited)
  BY UploadFields DEF UploadOK
<1>5. (c + 1) * SELECT_TIMEOUT = c * SELECT_TIMEOUT + SELECT_TIMEOUT /\ c * SELECT_TIMEOUT \in Nat
  BY <1>2, Spent
<1> HIDE DEF k
<1>6. v \in Uploads /\ v.heard = u.heard /\ v.peer = u.peer /\ v.timestamp = u.timestamp
        /\ v.cctrl = k
  BY <1>2, <1>3 DEF Uploads, k
<1>7. CtrlOK(v.cctrl)'
  BY <1>1, <1>3, <1>6 DEF CtrlOK, SameLap, LinearGrowth
<1> DEFINE spent == c * SELECT_TIMEOUT
<1>8. v.cctrl.timeout_count * SELECT_TIMEOUT = spent + SELECT_TIMEOUT
  BY <1>3, <1>5, <1>6
<1>9. spent \in Nat /\ u.heard + spent + waited <= time
        /\ (~eof => time <= last_input + spent + waited)
  BY <1>4, <1>5
<1> HIDE DEF spent, c
<1>10. u.heard + (spent + SELECT_TIMEOUT) + 0 <= time
        /\ (~eof => time <= last_input + (spent + SELECT_TIMEOUT) + 0)
  BY <1>1, <1>2, <1>9
<1>11. UploadOK(v)'
  BY <1>1, <1>4, <1>6, <1>7, <1>8, <1>10 DEF UploadOK
<1> QED  BY <1>6, <1>11 DEF GoodUploads

\* A download that survives a timeout has counted it, and may be stamped.
LEMMA DownloadTimesOut ==
  ASSUME Waited, NEW d \in GoodDownloads, d.timeout_count + 1 < MAX_TO_COUNTS,
         NEW s, s = d.timestamp \/ s = millitime,
         NEW e, e = [d EXCEPT !.timeout_count = @ + 1, !.timestamp = s]
  PROVE  e \in GoodDownloads' /\ e.born = d.born /\ e.peer = d.peer
<1>1. /\ time' = time /\ waited' = 0 /\ last_input' = last_input /\ eof' = eof
      /\ time \in 0..MAX_TIME /\ time \in Nat /\ last_input \in Nat
      /\ waited = SELECT_TIMEOUT /\ SELECT_TIMEOUT \in Nat
  BY TimersAssumption DEF Waited, LoopOK
<1> DEFINE c == d.timeout_count
           spent == c * SELECT_TIMEOUT
<1>2. d \in Downloads /\ c \in 0..(MAX_TO_COUNTS - 1) /\ d.born \in Nat
        /\ d.timestamp \in 0..(CLOCK_WRAP - 1)
  BY DownloadFields
<1>3. PICK t0 \in 0..time : d.timestamp = Stamp(t0) /\ t0 + waited <= time
  BY DownloadFields DEF DownloadOK
<1>4. millitime = Stamp(time) /\ millitime \in 0..(CLOCK_WRAP - 1)
  BY <1>1, Laps DEF millitime, Stamp
<1>5. s \in 0..(CLOCK_WRAP - 1) /\ \E t \in 0..time' : s = Stamp(t) /\ t + waited' <= time'
  <2>1. time \in 0..time' /\ time + waited' <= time' /\ t0 \in 0..time' /\ t0 + waited' <= time'
    BY <1>1, <1>3
  <2> QED  BY <1>2, <1>3, <1>4, <2>1
<1>6. c + 1 \in 0..(MAX_TO_COUNTS - 1)
  BY <1>2, CongestionAssumption
<1>7. e \in Downloads /\ e.born = d.born /\ e.peer = d.peer /\ e.timestamp = s
        /\ e.timeout_count = c + 1
  BY <1>2, <1>5, <1>6 DEF Downloads
<1>8. spent \in Nat /\ e.timeout_count * SELECT_TIMEOUT = spent + SELECT_TIMEOUT
  BY <1>2, <1>7, Spent
<1>9. d.born + spent + waited <= time
        /\ (~eof /\ d.born <= last_input => time <= last_input + spent + waited)
  BY DownloadFields DEF DownloadOK
<1> HIDE DEF spent, c
<1>10. d.born + (spent + SELECT_TIMEOUT) + 0 <= time
        /\ (~eof /\ d.born <= last_input => time <= last_input + (spent + SELECT_TIMEOUT) + 0)
  BY <1>1, <1>2, <1>8, <1>9
<1>11. DownloadOK(e)'
  BY <1>1, <1>5, <1>7, <1>8, <1>10 DEF DownloadOK
<1> QED  BY <1>7, <1>11 DEF GoodDownloads

\* The uploads after handle_server_timeout: those whose count is below the limit
\* survive.
LEMMA ServerTimeout ==
  ASSUME TimersInv, Waited
  PROVE  /\ handle_server_timeout \in Seq(GoodUploads')
         /\ \A i \in DOMAIN uploads : uploads[i].cctrl.timeout_count + 1 < MAX_TO_COUNTS =>
               \E j \in DOMAIN handle_server_timeout :
                  /\ handle_server_timeout[j].heard = uploads[i].heard
                  /\ handle_server_timeout[j].peer = uploads[i].peer
<1> DEFINE counts == [i \in DOMAIN uploads |-> uploads[i].cctrl.timeout_count]
           K == Survivors(uploads, counts)
           mapped == [i \in DOMAIN uploads |->
                        IF transfer_has_timeout(uploads[i])
                          THEN [uploads[i] EXCEPT !.cctrl = TimedOut(@)] ELSE uploads[i]]
           S == {mapped[i] : i \in DOMAIN uploads}
           new == node_keep(mapped, K)
<1>1. uploads \in Seq(GoodUploads) /\ \A i \in DOMAIN uploads : uploads[i] \in GoodUploads
  BY LenProperties DEF TimersInv
<1>2. \A i \in DOMAIN uploads : transfer_has_timeout(uploads[i])
  BY <1>1, OldEnough DEF Waited
<1>3. K \in SUBSET (DOMAIN uploads)
        /\ \A i \in DOMAIN uploads : i \in K <=> uploads[i].cctrl.timeout_count + 1 < MAX_TO_COUNTS
  BY <1>2 DEF Survivors
<1>4. DOMAIN mapped = DOMAIN uploads
        /\ \A i \in DOMAIN uploads : mapped[i] = [uploads[i] EXCEPT !.cctrl = TimedOut(@)]
  BY <1>2
<1>5. mapped \in [DOMAIN uploads -> S]
  OBVIOUS
<1> HIDE DEF counts, K, mapped, S
<1>6. mapped \in Seq(S)
  BY <1>1, <1>5, FunctionSeq
<1>7. ASSUME NEW i \in K
      PROVE  mapped[i] \in GoodUploads' /\ mapped[i].heard = uploads[i].heard
               /\ mapped[i].peer = uploads[i].peer
  <2>1. PICK u : u = uploads[i]
    OBVIOUS
  <2>2. PICK v : v = mapped[i]
    OBVIOUS
  <2>3. u \in GoodUploads /\ u.cctrl.timeout_count + 1 < MAX_TO_COUNTS
          /\ v = [u EXCEPT !.cctrl = TimedOut(@)]
    BY <1>1, <1>3, <1>4, <1>7, <2>1, <2>2
  <2>4. v \in GoodUploads' /\ v.heard = u.heard /\ v.peer = u.peer
    BY <2>3, UploadTimesOut
  <2> QED  BY <2>1, <2>2, <2>4
<1>8. new \in Seq(GoodUploads')
  BY <1>3, <1>4, <1>6, <1>7, NodeKept
<1>9. ASSUME NEW i \in K PROVE \E j \in DOMAIN new : new[j] = mapped[i]
  <2>1. Selects(new, mapped, K)
    BY <1>3, <1>4, <1>6, KeepSelects
  <2> QED  BY <2>1 DEF Selects, Picks
<1>10. handle_server_timeout = new
  BY DEF handle_server_timeout, new, mapped, K, counts
<1> HIDE DEF new
<1> QED  BY <1>3, <1>7, <1>8, <1>9, <1>10


\* The downloads after handle_client_timeout, with new ones in front.
LEMMA ClientTimeout ==
  ASSUME TimersInv, Waited, NEW new \in handle_client_timeout
  PROVE  /\ new \in Seq(GoodDownloads')
         /\ \A i \in DOMAIN downloads : downloads[i].timeout_count + 1 < MAX_TO_COUNTS =>
               \E j \in DOMAIN new : new[j].born = downloads[i].born
                                       /\ new[j].peer = downloads[i].peer
<1> DEFINE counts == [i \in DOMAIN downloads |-> downloads[i].timeout_count]
           K == Survivors(downloads, counts)
           with(q) == {i \in K : downloads[i].peer = q}
           stamped == UNION {node_find(with(q)) : q \in
                        {downloads[i].peer : i \in {j \in K : transfer_has_timeout(downloads[j])}}}
           mapped == [i \in DOMAIN downloads |->
                        [downloads[i] EXCEPT
                           !.timeout_count = IF transfer_has_timeout(downloads[i]) THEN @ + 1 ELSE @,
                           !.timestamp = IF i \in stamped THEN millitime ELSE @]]
           S == {mapped[i] : i \in DOMAIN downloads}
           kept == node_keep(mapped, K)
<1>1. downloads \in Seq(GoodDownloads) /\ \A i \in DOMAIN downloads : downloads[i] \in GoodDownloads
  BY LenProperties DEF TimersInv
<1>2. \A i \in DOMAIN downloads : transfer_has_timeout(downloads[i])
  BY <1>1, OldEnough DEF Waited
<1>3. K \in SUBSET (DOMAIN downloads)
        /\ \A i \in DOMAIN downloads : i \in K <=> downloads[i].timeout_count + 1 < MAX_TO_COUNTS
  BY <1>2 DEF Survivors
<1>4. new \in Started(kept)
  BY DEF handle_client_timeout
<1> DEFINE stamp(i) == IF i \in stamped THEN millitime ELSE downloads[i].timestamp
<1>5. DOMAIN mapped = DOMAIN downloads
  OBVIOUS
<1>6. ASSUME NEW i \in DOMAIN downloads
      PROVE  mapped[i] = [downloads[i] EXCEPT !.timeout_count = @ + 1, !.timestamp = stamp(i)]
  <2>1. downloads[i] \in Downloads
    BY <1>1, DownloadFields
  <2> HIDE DEF stamped
  <2> QED  BY <1>2, <2>1 DEF Downloads
<1>7. mapped \in [DOMAIN downloads -> S]
  OBVIOUS
<1>8. \A i \in DOMAIN downloads : stamp(i) = downloads[i].timestamp \/ stamp(i) = millitime
  OBVIOUS
<1> HIDE DEF counts, K, stamped, mapped, S, stamp
<1>9. mapped \in Seq(S)
  BY <1>1, <1>7, FunctionSeq
<1>10. ASSUME NEW i \in K
       PROVE  mapped[i] \in GoodDownloads' /\ mapped[i].born = downloads[i].born
                /\ mapped[i].peer = downloads[i].peer
  <2>1. PICK d : d = downloads[i]
    OBVIOUS
  <2>2. PICK e : e = mapped[i]
    OBVIOUS
  <2>3. PICK s : s = stamp(i)
    OBVIOUS
  <2>4. i \in DOMAIN downloads
    BY <1>3
  <2>5. d \in GoodDownloads /\ d.timeout_count + 1 < MAX_TO_COUNTS
    BY <1>1, <1>3, <2>1, <2>4
  <2>6. s = d.timestamp \/ s = millitime
    BY <1>8, <2>1, <2>3, <2>4
  <2>7. e = [d EXCEPT !.timeout_count = @ + 1, !.timestamp = s]
    BY <1>6, <2>1, <2>2, <2>3, <2>4
  <2>8. e \in GoodDownloads' /\ e.born = d.born /\ e.peer = d.peer
    BY <2>5, <2>6, <2>7, DownloadTimesOut
  <2> QED  BY <2>1, <2>2, <2>8
<1>11. kept \in Seq(GoodDownloads')
  BY <1>3, <1>5, <1>9, <1>10, NodeKept
<1>12. ASSUME NEW i \in K PROVE \E j \in DOMAIN kept : kept[j] = mapped[i]
  <2>1. Selects(kept, mapped, K)
    BY <1>3, <1>5, <1>9, KeepSelects
  <2> QED  BY <2>1 DEF Selects, Picks
<1> HIDE DEF kept
<1>13. \A q \in Remotes : NewDownload(q) \in GoodDownloads'
  <2>1. LoopOK /\ time' = time /\ waited' = 0 /\ last_input' \in Nat
    BY DEF Waited, LoopOK
  <2> QED  BY <2>1, NewDownloadGood
<1>14. new \in Seq(GoodDownloads')
         /\ \A i \in DOMAIN kept : \E j \in DOMAIN new : new[j] = kept[i]
  BY <1>4, <1>11, <1>13, StartedKeeps
<1>15. ASSUME NEW i \in K
       PROVE  \E j \in DOMAIN new : new[j].born = downloads[i].born /\ new[j].peer = downloads[i].peer
  <2>1. PICK n \in DOMAIN kept : kept[n] = mapped[i]
    BY <1>12
  <2>2. PICK j \in DOMAIN new : new[j] = kept[n]
    BY <1>14
  <2> QED  BY <1>10, <2>1, <2>2
<1> QED  BY <1>3, <1>14, <1>15

\* handle_timeout counts a timeout for every transfer it leaves.
LEMMA TimeoutKeeps ==
  ASSUME TimersInv, handle_timeout
  PROVE  TimersInv'
<1>1. Waited /\ uploads' = handle_server_timeout /\ downloads' \in handle_client_timeout
  BY DEF handle_timeout, Waited, TimersInv
<1>2. uploads' \in Seq(GoodUploads') /\ downloads' \in Seq(GoodDownloads')
  BY <1>1, ServerTimeout, ClientTimeout
<1>3. LoopOK'
  <2>1. time' = time /\ last_input' = last_input /\ eof' = eof /\ waited' = 0
          /\ time \in 0..MAX_TIME /\ last_input \in 0..time /\ eof \in BOOLEAN
          /\ SELECT_TIMEOUT \in Nat
    BY <1>1, TimersAssumption DEF Waited, LoopOK
  <2> QED  BY <2>1 DEF LoopOK
<1> QED  BY <1>2, <1>3 DEF TimersInv

\* Every step of the select loop keeps the invariant.
LEMMA TimersStep == TimersInv /\ [Next]_vars => TimersInv'
<1> SUFFICES ASSUME TimersInv, [Next]_vars PROVE TimersInv'
  OBVIOUS
<1>1. CASE \E q \in Remotes : receive_GET(q)
  BY <1>1, GetKeeps
<1>2. CASE \E q \in Remotes : store_DATA(q)
  <2>1. PICK q \in Remotes : store_DATA(q)
    BY <1>2
  <2>2. Input /\ UNCHANGED uploads
          /\ \E i \in First(downloads, q) : downloads' = [downloads EXCEPT ![i].timestamp = millitime]
    BY <2>1 DEF store_DATA
  <2>3. First(downloads, q) \subseteq DOMAIN downloads
    BY NodeFind DEF First
  <2> QED  BY <2>2, <2>3, DownloadInputs
<1>3. CASE \E q \in Remotes : complete_DATA(q)
  <2>1. PICK q \in Remotes : complete_DATA(q)
    BY <1>3
  <2>2. First(downloads, q) \subseteq DOMAIN downloads
    BY NodeFind DEF First
  <2> QED  BY <2>1, <2>2, DownloadInputs DEF complete_DATA
<1>4. CASE \E q \in Remotes : receive_DENIED(q)
  <2>1. PICK q \in Remotes : receive_DENIED(q)
    BY <1>4
  <2>2. First(downloads, q) \subseteq DOMAIN downloads
    BY NodeFind DEF First
  <2> QED  BY <2>1, <2>2, DownloadInputs DEF receive_DENIED
<1>5. CASE \E q \in Remotes, ack \in 0..MAX_SEQ_NUM : receive_ACK(q, ack)
  BY <1>5, AckKeeps
<1>6. CASE receive_IHAVE
  BY <1>6, DownloadInputs DEF receive_IHAVE
<1>7. CASE other_input
  BY <1>7, DownloadInputs DEF other_input
<1>8. CASE close_stdin
  <2>1. LoopOK /\ Arrival /\ eof' \in BOOLEAN /\ uploads' = uploads /\ downloads' = downloads
    BY <1>8 DEF close_stdin, TimersInv
  <2>2. LoopOK' /\ GoodUploads \subseteq GoodUploads' /\ GoodDownloads \subseteq GoodDownloads'
    BY <2>1, ArrivalKeeps
  <2> QED  BY <2>1, <2>2, Wider DEF TimersInv
<1>9. CASE Tick
  <2>1. LoopOK' /\ GoodUploads \subseteq GoodUploads' /\ GoodDownloads \subseteq GoodDownloads'
    BY <1>9, TickKeeps DEF TimersInv
  <2>2. uploads' = uploads /\ downloads' = downloads
    BY <1>9 DEF Tick
  <2> QED  BY <2>1, <2>2, Wider DEF TimersInv
<1>10. CASE handle_timeout
  BY <1>10, TimeoutKeeps
<1>11. CASE UNCHANGED vars
  <2>1. LoopOK' /\ GoodUploads' = GoodUploads /\ GoodDownloads' = GoodDownloads
          /\ uploads' = uploads /\ downloads' = downloads
    BY <1>11 DEF vars, TimersInv, LoopOK, GoodUploads, GoodDownloads, UploadOK, DownloadOK,
                 CtrlOK, SameLap, LinearGrowth
  <2> QED  BY <2>1 DEF TimersInv
<1> QED  BY <1>1, <1>2, <1>3, <1>4, <1>5, <1>6, <1>7, <1>8, <1>9, <1>10, <1>11 DEF Next


------------------------------------------------------------------------------
(* The theorems. *)

\* What the invariant says of the states.
LEMMA TimersInvFacts ==
  ASSUME TimersInv
  PROVE  TypeOK /\ AllTimedOut /\ DeadTransfersFreed /\ LinearWithinLap
<1>1. LoopOK /\ uploads \in Seq(GoodUploads) /\ downloads \in Seq(GoodDownloads)
        /\ (\A i \in DOMAIN uploads : uploads[i] \in GoodUploads)
        /\ (\A i \in DOMAIN downloads : downloads[i] \in GoodDownloads)
  BY LenProperties DEF TimersInv
<1>2. /\ time \in 0..MAX_TIME /\ time \in Nat /\ last_input \in 0..time
      /\ waited \in 0..SELECT_TIMEOUT /\ waited \in Nat /\ SELECT_TIMEOUT \in Nat
      /\ eof \in BOOLEAN /\ PATIENCE \in Nat
  <2>1. MAX_TO_COUNTS \in Nat /\ SELECT_TIMEOUT \in Nat
    BY CongestionAssumption, TimersAssumption
  <2>2. PATIENCE \in Nat
    BY <2>1 DEF PATIENCE
  <2> QED  BY <1>1, <2>1, <2>2 DEF LoopOK
<1>3. ASSUME NEW u \in GoodUploads
      PROVE  u \in [peer : Remotes, timestamp : 0..(CLOCK_WRAP - 1), heard : 0..time,
                    cctrl : TimedCtrl]
  <2> DEFINE spent == u.cctrl.timeout_count * SELECT_TIMEOUT
  <2>1. u \in Uploads /\ u.heard \in Nat /\ spent \in Nat
    BY UploadFields
  <2>2. u.heard + spent + waited <= time
    BY UploadFields DEF UploadOK
  <2> HIDE DEF spent
  <2>3. u.heard \in 0..time
    BY <1>2, <2>1, <2>2
  <2> QED  BY <2>1, <2>3 DEF Uploads
<1>4. ASSUME NEW d \in GoodDownloads
      PROVE  d \in [peer : Remotes, timestamp : 0..(CLOCK_WRAP - 1), born : 0..time,
                    timeout_count : 0..(MAX_TO_COUNTS - 1)]
  <2> DEFINE spent == d.timeout_count * SELECT_TIMEOUT
  <2>1. d \in Downloads /\ d.born \in Nat /\ spent \in Nat
    BY DownloadFields
  <2>2. d.born + spent + waited <= time
    BY DownloadFields DEF DownloadOK
  <2> HIDE DEF spent
  <2>3. d.born \in 0..time
    BY <1>2, <2>1, <2>2
  <2> QED  BY <2>1, <2>3 DEF Downloads
<1>5. TypeOK
  <2>1. uploads \in Seq([peer : Remotes, timestamp : 0..(CLOCK_WRAP - 1), heard : 0..time,
                         cctrl : TimedCtrl])
    BY <1>1, <1>3, Retype
  <2>2. downloads \in Seq([peer : Remotes, timestamp : 0..(CLOCK_WRAP - 1), born : 0..time,
                           timeout_count : 0..(MAX_TO_COUNTS - 1)])
    BY <1>1, <1>4, Retype
  <2> QED  BY <1>2, <2>1, <2>2 DEF TypeOK
<1>6. AllTimedOut
  BY <1>1, OldEnough DEF AllTimedOut
<1>7. ASSUME ~eof, time - last_input > PATIENCE, NEW c \in 0..(MAX_TO_COUNTS - 1),
             time <= last_input + c * SELECT_TIMEOUT + waited
      PROVE  FALSE
  <2> DEFINE spent == c * SELECT_TIMEOUT
  <2>1. spent \in Nat /\ spent + SELECT_TIMEOUT <= PATIENCE
    BY Spent
  <2>2. time <= last_input + spent + waited
    BY <1>7
  <2> HIDE DEF spent
  <2> QED  BY <1>2, <1>7, <2>1, <2>2
<1>8. DeadTransfersFreed
  <2> SUFFICES ASSUME ~eof, time - last_input > PATIENCE
               PROVE  uploads = << >> /\ \A i \in DOMAIN downloads : downloads[i].born > last_input
    BY DEF DeadTransfersFreed
  <2>1. ASSUME NEW u \in GoodUploads PROVE FALSE
    <3>1. u.cctrl.timeout_count \in 0..(MAX_TO_COUNTS - 1)
            /\ time <= last_input + u.cctrl.timeout_count * SELECT_TIMEOUT + waited
      BY UploadFields DEF UploadOK
    <3> QED  BY <1>7, <3>1
  <2>2. uploads = << >>
    <3>1. DOMAIN uploads = {}
      BY <1>1, <2>1
    <3>2. Len(uploads) \in Nat /\ DOMAIN uploads = 1..Len(uploads)
      BY <1>1, LenProperties
    <3>3. Len(uploads) = 0
      BY <3>1, <3>2
    <3> QED  BY <1>1, <3>3, EmptySeq
  <2>3. ASSUME NEW i \in DOMAIN downloads PROVE downloads[i].born > last_input
    <3>1. PICK d : d = downloads[i]
      OBVIOUS
    <3>2. d \in GoodDownloads
      BY <1>1, <3>1
    <3>3. d.timeout_count \in 0..(MAX_TO_COUNTS - 1) /\ d.born \in Nat
      BY <3>2, DownloadFields
    <3>4. d.born <= last_input =>
            time <= last_input + d.timeout_count * SELECT_TIMEOUT + waited
      BY <3>2, DownloadFields DEF DownloadOK
    <3>5. ~(d.born <= last_input)
      BY <1>7, <3>3, <3>4
    <3> QED  BY <1>2, <3>1, <3>3, <3>5
  <2> QED  BY <2>2, <2>3
<1>9. LinearWithinLap
  <2> SUFFICES ASSUME NEW i \in DOMAIN uploads, SameLap(uploads[i].cctrl.ca_since)
               PROVE  LinearGrowth(uploads[i].cctrl)
    BY DEF LinearWithinLap
  <2>1. CtrlOK(uploads[i].cctrl)
    BY <1>1, UploadFields
  <2> QED  BY <2>1 DEF CtrlOK, LinearGrowth
<1> QED  BY <1>5, <1>6, <1>8, <1>9

\* A timeout ends no transfer that is younger than PATIENCE.
LEMMA PatientStep ==
  ASSUME TimersInv, handle_timeout
  PROVE  /\ \A i \in DOMAIN uploads : uploads[i].heard + PATIENCE > time =>
              \E j \in DOMAIN uploads' : uploads'[j].heard = uploads[i].heard
                                           /\ uploads'[j].peer = uploads[i].peer
         /\ \A i \in DOMAIN downloads : downloads[i].born + PATIENCE > time =>
              \E j \in DOMAIN downloads' : downloads'[j].born = downloads[i].born
                                             /\ downloads'[j].peer = downloads[i].peer
<1>1. Waited /\ uploads' = handle_server_timeout /\ downloads' \in handle_client_timeout
  BY DEF handle_timeout, Waited, TimersInv
<1>2. waited = SELECT_TIMEOUT /\ SELECT_TIMEOUT \in Nat /\ time \in Nat
  BY <1>1, TimersAssumption DEF Waited, LoopOK
<1>3. ASSUME NEW c \in 0..(MAX_TO_COUNTS - 1), NEW b \in Nat,
             b + c * SELECT_TIMEOUT + waited <= time, b + PATIENCE > time
      PROVE  c + 1 < MAX_TO_COUNTS
  <2> SUFFICES ASSUME ~(c + 1 < MAX_TO_COUNTS) PROVE FALSE
    OBVIOUS
  <2> DEFINE spent == c * SELECT_TIMEOUT
  <2>1. c + 1 >= MAX_TO_COUNTS
    BY CongestionAssumption
  <2>2. spent \in Nat /\ spent + SELECT_TIMEOUT = PATIENCE
    BY <2>1, Spent
  <2>3. b + spent + waited <= time
    BY <1>3
  <2> HIDE DEF spent
  <2> QED  BY <1>2, <1>3, <2>2, <2>3
<1>4. ASSUME NEW i \in DOMAIN uploads, uploads[i].heard + PATIENCE > time
      PROVE  uploads[i].cctrl.timeout_count + 1 < MAX_TO_COUNTS
  <2>1. PICK u : u = uploads[i]
    OBVIOUS
  <2>2. u \in GoodUploads
    BY <2>1, LenProperties DEF TimersInv
  <2>3. u.cctrl.timeout_count \in 0..(MAX_TO_COUNTS - 1) /\ u.heard \in Nat
          /\ u.heard + u.cctrl.timeout_count * SELECT_TIMEOUT + waited <= time
    BY <2>2, UploadFields DEF UploadOK
  <2> QED  BY <1>3, <1>4, <2>1, <2>3
<1>5. ASSUME NEW i \in DOMAIN downloads, downloads[i].born + PATIENCE > time
      PROVE  downloads[i].timeout_count + 1 < MAX_TO_COUNTS
  <2>1. PICK d : d = downloads[i]
    OBVIOUS
  <2>2. d \in GoodDownloads
    BY <2>1, LenProperties DEF TimersInv
  <2>3. d.timeout_count \in 0..(MAX_TO_COUNTS - 1) /\ d.born \in Nat
          /\ d.born + d.timeout_count * SELECT_TIMEOUT + waited <= time
    BY <2>2, DownloadFields DEF DownloadOK
  <2> QED  BY <1>3, <1>5, <2>1, <2>3
<1> QED  BY <1>1, <1>4, <1>5, ServerTimeout, ClientTimeout

\* The timers are typed, and a count that reaches its limit ends the transfer in
\* the same step; slow start never overflows unsigned int.
THEOREM TimersTypeCorrect == Spec => []TypeOK
<1>1. TimersInv => TypeOK
  BY TimersInvFacts
<1> QED  BY TimersInit, TimersStep, <1>1, PTL DEF Spec

\* Whenever handle_timeout runs, transfer_has_timeout is true of every transfer,
\* for every timeout and every width of the clock, also over a turn of the clock.
THEOREM EveryoneTimedOut == Spec => []AllTimedOut
<1>1. TimersInv => AllTimedOut
  BY TimersInvFacts
<1> QED  BY TimersInit, TimersStep, <1>1, PTL DEF Spec

\* A silent transfer is freed after at most PATIENCE, while standard input is
\* open.
THEOREM SilentTransfersFreed == Spec => []DeadTransfersFreed
<1>1. TimersInv => DeadTransfersFreed
  BY TimersInvFacts
<1> QED  BY TimersInit, TimersStep, <1>1, PTL DEF Spec

\* In one lap of the clock the window of congestion avoidance grows by at most
\* one packet per round-trip time and does not shrink.
THEOREM GrowthIsLinear == Spec => []LinearWithinLap
<1>1. TimersInv => LinearWithinLap
  BY TimersInvFacts
<1> QED  BY TimersInit, TimersStep, <1>1, PTL DEF Spec

\* No timeout ends a transfer too early.
THEOREM TimeoutsArePatient == Spec => PatientWithPeers
<1> DEFINE Patient ==
      handle_timeout =>
        /\ \A i \in DOMAIN uploads : uploads[i].heard + PATIENCE > time =>
              \E j \in DOMAIN uploads' : uploads'[j].heard = uploads[i].heard
                                           /\ uploads'[j].peer = uploads[i].peer
        /\ \A i \in DOMAIN downloads : downloads[i].born + PATIENCE > time =>
              \E j \in DOMAIN downloads' : downloads'[j].born = downloads[i].born
                                             /\ downloads'[j].peer = downloads[i].peer
<1>1. TimersInv /\ [Next]_vars => [Patient]_vars
  <2>1. TimersInv => Patient
    BY PatientStep
  <2> HIDE DEF Patient
  <2> QED  BY <2>1
<1>2. Spec => []TimersInv
  BY TimersInit, TimersStep, PTL DEF Spec
<1>3. Spec => [][Patient]_vars
  <2> HIDE DEF Patient
  <2> QED  BY <1>1, <1>2, PTL DEF Spec
<1> QED  BY <1>3 DEF PatientWithPeers
==============================================================================
