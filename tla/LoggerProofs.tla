---------------------------- MODULE LoggerProofs ----------------------------
(***************************************************************************)
(* The ring of logger.c for any number of threads and any length: the mutex *)
(* excludes, every line is freed once, and the ring is a window on the last *)
(* lines written.                                                           *)
(***************************************************************************)
EXTENDS Logger, TLAPS

\* The index stays inside of the ring.
LEMMA NextPlace ==
  ASSUME NEW i \in Places
  PROVE  (i + 1) % RingSize \in Places
  BY RingAssumption DEF Places

LEMMA LogInitInv == LogInit => LogInv
<1> SUFFICES ASSUME LogInit
             PROVE  LogInv
  OBVIOUS
<1>1. LogTypeOK
  <2>1. Null \in Pointers /\ 0 \in Places
    BY RingAssumption DEF Null, Pointers, Places
  <2>2. QED  BY <2>1 DEF LogInit, LogTypeOK
<1>2. LockInv
  BY NoneAssumption DEF LogInit, LockInv
<1>3. LineInv
  BY DEF LogInit, LineInv, Null, Dangling
<1>4. QED  BY <1>1, <1>2, <1>3 DEF LogInv

LEMMA CallInv ==
  ASSUME LogInv, NEW t \in Threads, NEW m \in Messages, ~down, says[t] = None, Call(t, m)
  PROVE  LogInv'
<1>1. LogTypeOK'
  BY DEF LogInv, LogTypeOK, Call
<1>2. LockInv'
  BY NoneAssumption DEF LogInv, LogTypeOK, LockInv, Call
<1>3. LineInv'
  BY DEF LogInv, LineInv, Call, Dangling
<1>4. QED  BY <1>1, <1>2, <1>3 DEF LogInv

LEMMA AcquireInv ==
  ASSUME LogInv, NEW t \in Threads, Acquire(t)
  PROVE  LogInv'
<1>1. LogTypeOK'
  BY DEF LogInv, LogTypeOK, Acquire
<1>2. LockInv'
  BY NoneAssumption DEF LogInv, LogTypeOK, LockInv, Acquire
<1>3. LineInv'
  BY DEF LogInv, LogTypeOK, LockInv, LineInv, Acquire, Dangling
<1>4. QED  BY <1>1, <1>2, <1>3 DEF LogInv

LEMMA FreeOldestInv ==
  ASSUME LogInv, NEW t \in Threads, FreeOldest(t)
  PROVE  LogInv'
<1>1. LogTypeOK'
  BY DEF LogInv, LogTypeOK, FreeOldest, Pointers
<1>2. LockInv'
  BY NoneAssumption DEF LogInv, LogTypeOK, LockInv, FreeOldest
<1>3. LineInv'
  BY DEF LogInv, LogTypeOK, LockInv, LineInv, FreeOldest, Dangling, Pointers
<1>4. QED  BY <1>1, <1>2, <1>3 DEF LogInv

LEMMA DuplicateInv ==
  ASSUME LogInv, NEW t \in Threads, Duplicate(t)
  PROVE  LogInv'
<1>1. says[t] \in Messages
  BY DEF LogInv, LogTypeOK, LockInv, Duplicate
<1>2. LogTypeOK'
  <2>1. Line(says[t]) \in Pointers /\ Null \in Pointers
    BY <1>1 DEF Pointers, Line, Null
  <2>2. ring' \in [Places -> Pointers]
    BY <2>1 DEF LogInv, LogTypeOK, Duplicate
  <2>3. QED  BY <2>2 DEF LogInv, LogTypeOK, Duplicate
<1>3. LockInv'
  BY NoneAssumption DEF LogInv, LogTypeOK, LockInv, Duplicate
<1>4. LineInv'
  BY <1>1, NoneAssumption
  DEF LogInv, LogTypeOK, LockInv, LineInv, Duplicate, Dangling, Line, Null, Pointers
<1>5. QED  BY <1>2, <1>3, <1>4 DEF LogInv

LEMMA AdvanceInv ==
  ASSUME LogInv, NEW t \in Threads, Advance(t)
  PROVE  LogInv'
<1>1. LogTypeOK'
  BY NextPlace DEF LogInv, LogTypeOK, Advance
<1>2. LockInv'
  BY NoneAssumption DEF LogInv, LogTypeOK, LockInv, Advance
<1>3. LineInv'
  BY DEF LogInv, LogTypeOK, LockInv, LineInv, Advance, Dangling
<1>4. QED  BY <1>1, <1>2, <1>3 DEF LogInv

LEMMA FiniInv ==
  ASSUME LogInv, \A t \in Threads : says[t] = None, Fini
  PROVE  LogInv'
<1>1. LogTypeOK'
  BY DEF LogInv, LogTypeOK, Fini, Pointers
<1>2. LockInv'
  BY DEF LogInv, LockInv, Fini
<1>3. LineInv'
  BY DEF LogInv, LogTypeOK, LineInv, Fini, Dangling, Pointers
<1>4. QED  BY <1>1, <1>2, <1>3 DEF LogInv

LEMMA LogStepInv == LogInv /\ [LogNext]_logVars => LogInv'
<1> SUFFICES ASSUME LogInv, [LogNext]_logVars
             PROVE  LogInv'
  OBVIOUS
<1>1. CASE UNCHANGED logVars
  BY <1>1 DEF LogInv, LogTypeOK, LockInv, LineInv, logVars, Dangling
<1>2. CASE \E t \in Threads : LogStep(t)
  BY <1>2, AcquireInv, FreeOldestInv, DuplicateInv, AdvanceInv DEF LogStep
<1>3. CASE \E t \in Threads, m \in Messages : ~down /\ says[t] = None /\ Call(t, m)
  BY <1>3, CallInv
<1>4. CASE ~down /\ (\A t \in Threads : says[t] = None) /\ Fini
  BY <1>4, FiniInv
<1>5. QED  BY <1>1, <1>2, <1>3, <1>4 DEF LogNext

\* However many threads log, and however long the ring is: one at a time is
\* inside the mutex, no line is freed twice, and none is overwritten unfreed.
THEOREM LinesFreedOnce == LogSpec => []LogInv
  BY LogInitInv, LogStepInv, PTL DEF LogSpec

-----------------------------------------------------------------------------
(* The window on the last lines *)

\* An index that ran at most once around the ring, brought back.
LEMMA Wrap ==
  ASSUME NEW x \in Nat, x < 2 * RingSize
  PROVE  x % RingSize = IF x < RingSize THEN x ELSE x - RingSize
<1> DEFINE q == x \div RingSize
           r == x % RingSize
<1>1. q \in Int /\ r \in 0 .. RingSize - 1 /\ x = RingSize * q + r
  BY RingAssumption
<1>2. RingSize \in Nat /\ RingSize >= 1
  BY RingAssumption
<1> HIDE DEF q, r
<1>3. CASE q <= -1
  <2>1. RingSize * q <= RingSize * (-1)
    BY <1>1, <1>2, <1>3
  <2>2. QED  BY <1>1, <1>2, <2>1
<1>4. CASE q >= 2
  <2>1. RingSize * q >= RingSize * 2
    BY <1>1, <1>2, <1>4
  <2>2. QED  BY <1>1, <1>2, <2>1
<1>5. CASE q = 0
  <2>1. x = r
    BY <1>1, <1>2, <1>5
  <2>2. QED  BY <1>1, <1>2, <2>1 DEF r
<1>6. CASE q = 1
  <2>1. x = RingSize + r
    BY <1>1, <1>2, <1>6
  <2>2. QED  BY <1>1, <1>2, <2>1 DEF r
<1>7. QED  BY <1>1, <1>3, <1>4, <1>5, <1>6

\* The place that is k places behind place i.
Behind(i, k) == (i + k - 1) % RingSize

\* Walking the ring once from any place meets that place first, and every other
\* one later: the walk from the place behind it ends there.
LEMMA Walk ==
  ASSUME NEW i \in Places
  PROVE  /\ Behind(i, 1) = i
         /\ \A k \in 1 .. RingSize : Behind(i, k) \in Places
         /\ \A k \in 2 .. RingSize : Behind(i, k) # i
         /\ \A k \in 1 .. RingSize - 1 :
              Behind((i + 1) % RingSize, k) = Behind(i, k + 1)
         /\ Behind((i + 1) % RingSize, RingSize) = i
<1>1. RingSize \in Nat /\ RingSize >= 1 /\ i \in Nat /\ i < RingSize
  BY RingAssumption DEF Places
<1>2. \A k \in 1 .. RingSize :
        Behind(i, k) = IF i + k - 1 < RingSize THEN i + k - 1 ELSE i + k - 1 - RingSize
  BY <1>1, Wrap DEF Behind
<1>3. (i + 1) % RingSize = IF i + 1 < RingSize THEN i + 1 ELSE 0
  BY <1>1, Wrap
<1>4. \A k \in 1 .. RingSize :
        Behind((i + 1) % RingSize, k)
          = IF ((i + 1) % RingSize) + k - 1 < RingSize
            THEN ((i + 1) % RingSize) + k - 1
            ELSE ((i + 1) % RingSize) + k - 1 - RingSize
  BY <1>1, <1>3, Wrap DEF Behind
<1>5. \A k \in 1 .. RingSize : Behind(i, k) \in Places
  BY <1>1, <1>2 DEF Places
<1>6. \A k \in 2 .. RingSize : Behind(i, k) # i
  BY <1>1, <1>2
<1>7. \A k \in 1 .. RingSize - 1 : Behind((i + 1) % RingSize, k) = Behind(i, k + 1)
  <2>1. SUFFICES ASSUME NEW k \in 1 .. RingSize - 1
                 PROVE  Behind((i + 1) % RingSize, k) = Behind(i, k + 1)
    OBVIOUS
  <2>2. k \in 1 .. RingSize /\ k + 1 \in 1 .. RingSize
    BY <1>1
  <2>3. CASE i + 1 < RingSize
    BY <1>1, <1>2, <1>3, <1>4, <2>2, <2>3
  <2>4. CASE i + 1 >= RingSize
    BY <1>1, <1>2, <1>3, <1>4, <2>2, <2>4
  <2>5. QED  BY <1>1, <2>3, <2>4
<1>8. Behind((i + 1) % RingSize, RingSize) = i
  <2> DEFINE j == (i + 1) % RingSize
  <2>1. j \in Nat /\ (IF j < 1 THEN j + RingSize - 1 ELSE j - 1) = i
    BY <1>1, <1>3
  <2>2. Behind(j, RingSize) = IF j + RingSize - 1 < RingSize
                              THEN j + RingSize - 1 ELSE j + RingSize - 1 - RingSize
    BY <1>1, <1>4
  <2> HIDE DEF j
  <2>3. Behind(j, RingSize) = i
    BY <1>1, <2>1, <2>2
  <2>4. QED  BY <2>3 DEF j
<1>9. Behind(i, 1) = i
  BY <1>1, <1>2
<1>10. QED  BY <1>5, <1>6, <1>7, <1>8, <1>9

\* The window, by the place it starts at.
LEMMA WindowView ==
  /\ Window = [k \in 1 .. RingSize |-> Text(ring[Behind(Oldest, k)])]
  /\ Window' = [k \in 1 .. RingSize |-> Text(ring'[Behind(Oldest', k)])]
  BY DEF Window, Behind, Text

\* The window starts at the index, or behind it for the thread that is about to
\* move it.
LEMMA OldestPlace ==
  /\ (\A t \in Threads : step[t] # "next") => Oldest = idx
  /\ (\E t \in Threads : step[t] = "next") => Oldest = (idx + 1) % RingSize
  /\ (\A t \in Threads : step'[t] # "next") => Oldest' = idx'
  /\ (\E t \in Threads : step'[t] = "next") => Oldest' = (idx' + 1) % RingSize
  BY DEF Oldest

\* What a place of the window shows is a message or nothing.
LEMMA TextType ==
  ASSUME NEW p \in Pointers
  PROVE  Text(p) \in Messages \cup {None}
  BY DEF Text, Pointers

\* Only the thread that holds the mutex is between lock and unlock.
LEMMA OneInside ==
  ASSUME LogInv, NEW t \in Threads, step[t] # "out"
  PROVE  \A u \in Threads : u # t => step[u] = "out"
  BY DEF LogInv, LockInv

\* A window that moves on by one place.
LEMMA ShiftWindow ==
  ASSUME NEW n \in Nat \ {0}, NEW w, w = [k \in 1 .. n |-> w[k]], NEW m
  PROVE  Append(Tail(w), m) = [k \in 1 .. n |-> IF k = n THEN m ELSE w[k + 1]]
<1> DEFINE j == n - 1
<1>1. j \in Nat /\ n = j + 1
  OBVIOUS
<1> HIDE DEF j
<1>2. Tail(w) = [k \in 1 .. j |-> w[k + 1]]
  BY <1>1
<1>3. Append([k \in 1 .. j |-> w[k + 1]], m)
        = [k \in 1 .. j + 1 |-> IF k = j + 1 THEN m ELSE w[k + 1]]
  BY <1>1
<1>4. QED  BY <1>1, <1>2, <1>3

\* One step of the window, or none.
RecentStep == [Recent!Next]_<<Window, down>>

\* Nothing that the window shows moves.
LEMMA SameWindow ==
  ASSUME ring' = ring, Oldest' = Oldest, down' = down
  PROVE  RecentStep
  BY DEF RecentStep, Window, Text

LEMMA CallRecent ==
  ASSUME NEW t \in Threads, NEW m \in Messages, Call(t, m)
  PROVE  RecentStep
<1>1. Oldest' = Oldest
  BY DEF Oldest, Call
<1>2. QED  BY <1>1, SameWindow DEF Call

LEMMA AcquireRecent ==
  ASSUME LogInv, NEW t \in Threads, Acquire(t)
  PROVE  RecentStep
<1>1. \A u \in Threads : step[u] # "next" /\ step'[u] # "next"
  BY NoneAssumption DEF LogInv, LogTypeOK, LockInv, Acquire
<1>2. Oldest' = Oldest
  BY <1>1, OldestPlace DEF Acquire
<1>3. QED  BY <1>2, SameWindow DEF Acquire

\* logger.c:66: the freed line is the oldest one of the window.
LEMMA FreeOldestRecent ==
  ASSUME LogInv, NEW t \in Threads, ~down, FreeOldest(t)
  PROVE  RecentStep
<1>1. \A u \in Threads : step[u] # "next" /\ step'[u] # "next"
  BY OneInside DEF LogInv, LogTypeOK, FreeOldest
<1>2. /\ Oldest = idx /\ Oldest' = idx
      /\ idx \in Places
      /\ ring \in [Places -> Pointers]
      /\ ring' = [ring EXCEPT ![idx].live = FALSE]
  BY <1>1, OldestPlace DEF FreeOldest, LogInv, LogTypeOK
<1>3. Text(ring'[idx]) = None
  BY <1>2 DEF Text, Pointers
<1>4. 1 \in 1 .. RingSize
  BY RingAssumption
<1>5. \A k \in 1 .. RingSize :
        Text(ring'[Behind(idx, k)]) = IF k = 1 THEN None ELSE Text(ring[Behind(idx, k)])
  <2>1. SUFFICES ASSUME NEW k \in 1 .. RingSize, k # 1
                 PROVE  ring'[Behind(idx, k)] = ring[Behind(idx, k)]
    BY <1>2, <1>3, Walk
  <2>2. k \in 2 .. RingSize
    BY <2>1
  <2>3. QED  BY <1>2, <2>2, Walk
<1>6. Window' = [Window EXCEPT ![1] = None]
  BY <1>2, <1>4, <1>5, WindowView
<1>7. Recent!Forget
  BY <1>6 DEF FreeOldest, Recent!Forget
<1>8. QED  BY <1>7 DEF RecentStep, Recent!Next

\* The new line takes its place, which is now the last one of the window: the
\* window moves on by one.
LEMMA DuplicateRecent ==
  ASSUME LogInv, NEW t \in Threads, ~down, Duplicate(t)
  PROVE  RecentStep
<1> DEFINE next == (idx + 1) % RingSize
           m == Text(ring'[idx])
<1>1. /\ \A u \in Threads : step[u] # "next"
      /\ step'[t] = "next"
  BY OneInside DEF LogInv, LogTypeOK, Duplicate
<1>2. /\ Oldest = idx /\ Oldest' = next
      /\ idx \in Places /\ idx' = idx
      /\ ring \in [Places -> Pointers]
  BY <1>1, OldestPlace DEF Duplicate, LogInv, LogTypeOK
<1>3. PICK p \in {Line(says[t]), Null} : ring' = [ring EXCEPT ![idx] = p]
  BY DEF Duplicate
<1>4. m \in Messages \cup {None}
  <2>1. ring'[idx] \in Pointers
    BY <1>2, DuplicateInv DEF LogInv, LogTypeOK
  <2>2. QED  BY <2>1, TextType
<1>5. \A k \in 1 .. RingSize :
        Text(ring'[Behind(next, k)])
          = IF k = RingSize THEN m ELSE Text(ring[Behind(idx, k + 1)])
  <2>1. SUFFICES ASSUME NEW k \in 1 .. RingSize, k # RingSize
                 PROVE  ring'[Behind(next, k)] = ring[Behind(idx, k + 1)]
    BY <1>2, Walk
  <2>2. k \in 1 .. RingSize - 1 /\ k + 1 \in 2 .. RingSize
    BY <2>1, RingAssumption
  <2>3. Behind(next, k) = Behind(idx, k + 1) /\ Behind(idx, k + 1) # idx
    BY <1>2, <2>2, Walk
  <2>4. QED  BY <1>3, <2>3
<1>6. Window' = Append(Tail(Window), m)
  <2>1. Window = [k \in 1 .. RingSize |-> Text(ring[Behind(idx, k)])]
    BY <1>2, WindowView
  <2>2. Window' = [k \in 1 .. RingSize |->
                     IF k = RingSize THEN m ELSE Text(ring[Behind(idx, k + 1)])]
    BY <1>2, <1>5, WindowView
  <2>3. Window = [k \in 1 .. RingSize |-> Window[k]]
    BY <2>1
  <2>4. \A k \in 1 .. RingSize - 1 : Window[k + 1] = Text(ring[Behind(idx, k + 1)])
    BY <2>1, RingAssumption
  <2> HIDE DEF m
  <2>5. Append(Tail(Window), m)
          = [k \in 1 .. RingSize |-> IF k = RingSize THEN m ELSE Window[k + 1]]
    BY <2>3, ShiftWindow, RingAssumption
  <2>6. QED  BY <2>2, <2>4, <2>5, RingAssumption
<1>7. Recent!Add(m)
  BY <1>6 DEF Duplicate, Recent!Add
<1>8. QED  BY <1>4, <1>7 DEF RecentStep, Recent!Next

\* The index catches up with the window.
LEMMA AdvanceRecent ==
  ASSUME LogInv, NEW t \in Threads, Advance(t)
  PROVE  RecentStep
<1>1. /\ step[t] = "next"
      /\ \A u \in Threads : step'[u] # "next"
  BY OneInside DEF LogInv, LogTypeOK, Advance
<1>2. Oldest' = Oldest
  BY <1>1, OldestPlace DEF Advance
<1>3. QED  BY <1>2, SameWindow DEF Advance

\* logger.c:30: nothing is left.
LEMMA FiniRecent ==
  ASSUME LogInv, ~down, Fini
  PROVE  RecentStep
<1>1. idx \in Places /\ (idx + 1) % RingSize \in Places
  BY NextPlace DEF LogInv, LogTypeOK
<1>2. Oldest' \in Places
  BY <1>1 DEF Oldest, Fini
<1>3. \A i \in Places : Text(ring'[i]) = None
  BY DEF LogInv, LogTypeOK, Pointers, Fini, Text
<1>4. Window' = Recent!Empty
  BY <1>2, <1>3, Walk, WindowView DEF Recent!Empty
<1>5. Recent!Close
  BY <1>4 DEF Fini, Recent!Close
<1>6. QED  BY <1>5 DEF RecentStep, Recent!Next

LEMMA RecentNext == LogInv /\ [LogNext]_logVars => RecentStep
<1> SUFFICES ASSUME LogInv, [LogNext]_logVars
             PROVE  RecentStep
  OBVIOUS
<1>1. CASE UNCHANGED logVars
  BY <1>1, SameWindow DEF logVars, Oldest
<1>2. ASSUME NEW t \in Threads, LogStep(t)
      PROVE  RecentStep
  <2>1. step[t] # "out" => ~down
    BY DEF LogInv, LockInv
  <2>2. QED
    BY <1>2, <2>1, AcquireRecent, FreeOldestRecent, DuplicateRecent, AdvanceRecent
    DEF LogStep, FreeOldest, Duplicate
<1>3. CASE \E t \in Threads, m \in Messages : ~down /\ says[t] = None /\ Call(t, m)
  BY <1>3, CallRecent
<1>4. CASE ~down /\ (\A t \in Threads : says[t] = None) /\ Fini
  BY <1>4, FiniRecent
<1>5. QED  BY <1>1, <1>2, <1>3, <1>4 DEF LogNext

LEMMA RecentInit == LogInit => Recent!Init
<1> SUFFICES ASSUME LogInit
             PROVE  Recent!Init
  OBVIOUS
<1>1. Oldest = 0 /\ 0 \in Places
  BY RingAssumption DEF LogInit, Oldest, Places
<1>2. \A i \in Places : Text(ring[i]) = None
  BY DEF LogInit, Null, Text
<1>3. Window = Recent!Empty
  BY <1>1, <1>2, Walk, WindowView DEF Recent!Empty
<1>4. QED  BY <1>3 DEF LogInit, Recent!Init

\* However many threads log, and however long the ring is: it shows the last
\* lines in the order they were logged, and a line goes only for a newer one
\* (logger.c:64-67).
THEOREM RingKeepsRecent == LogSpec => RecentSpec
<1>1. LogInv /\ [LogNext]_logVars => [Recent!Next]_<<Window, down>>
  BY RecentNext DEF RecentStep
<1>2. QED
  BY <1>1, RecentInit, LinesFreedOnce, PTL DEF LogSpec, RecentSpec, Recent!Spec
=============================================================================
