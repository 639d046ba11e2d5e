-------------------------- MODULE EbpfLoaderProofs --------------------------
(***************************************************************************)
(* loader.c for every set of object files, any number of programs in them,  *)
(* and tables of any length.                                                *)
(***************************************************************************)
EXTENDS EbpfLoader, LoggerProofs

(* What a sequence without repetitions names after an element was appended.  *)
LEMMA AppendNames ==
  ASSUME NEW S, NEW s \in Seq(S), NEW x \in S
  PROVE  /\ Append(s, x) \in Seq(S) /\ Len(Append(s, x)) = Len(s) + 1
         /\ ToSet(Append(s, x)) = ToSet(s) \cup {x}
         /\ IsInjective(s) /\ x \notin ToSet(s) => IsInjective(Append(s, x))
<1>1. /\ Append(s, x) \in Seq(S) /\ Len(Append(s, x)) = Len(s) + 1
      /\ DOMAIN s = 1 .. Len(s) /\ DOMAIN Append(s, x) = 1 .. Len(s) + 1
      /\ Len(s) \in Nat
      /\ \A i \in 1 .. Len(s) : Append(s, x)[i] = s[i]
      /\ Append(s, x)[Len(s) + 1] = x
  OBVIOUS
<1>2. ToSet(Append(s, x)) = ToSet(s) \cup {x}
  <2>1. 1 .. Len(s) + 1 = (1 .. Len(s)) \cup {Len(s) + 1}
    BY <1>1
  <2>2. QED  BY <1>1, <2>1 DEF ToSet
<1>3. ASSUME IsInjective(s), x \notin ToSet(s)
      PROVE  IsInjective(Append(s, x))
  <2>1. \A i \in 1 .. Len(s) : s[i] # x
    BY <1>1, <1>3 DEF ToSet
  <2>2. \A i, j \in 1 .. Len(s) + 1 : Append(s, x)[i] = Append(s, x)[j] => i = j
    BY <1>1, <1>3, <2>1 DEF IsInjective
  <2>3. QED  BY <1>1, <2>2 DEF IsInjective
<1>4. QED  BY <1>1, <1>2, <1>3

LEMMA EmptyNames == ToSet(<<>>) = {} /\ IsInjective(<<>>)
  BY DEF ToSet, IsInjective

LEMMA AppendOne ==
  ASSUME NEW S, NEW s \in Seq(S), NEW x \in S
  PROVE  s \o <<x>> = Append(s, x) /\ s \o <<>> = s
  OBVIOUS

-----------------------------------------------------------------------------
(* Every step of the loader is one of the logger, or leaves it alone.        *)

LEMMA UsesLogger == LoaderInv /\ [Next]_vars => [LogNext]_logVars
<1> SUFFICES ASSUME LoaderInv, [Next]_vars
             PROVE  [LogNext]_logVars
  OBVIOUS
<1> USE ThreadsAssumption, LevelsAssumption
<1>1. \A stage \in Stages : At(stage) /\ stage # "exited" => ~down /\ says[Main] = None
  BY DEF LoaderInv, StageInv, At, Quiet
<1>2. \A t \in Threads, m \in Levels : ~down /\ says[t] = None /\ Call(t, m) => LogNext
  BY DEF LogNext
<1>3. ASSUME NEW m \in Levels, Call(Main, m), NEW stage \in Stages \ {"exited"}, At(stage)
      PROVE  LogNext
  BY <1>1, <1>2, <1>3
<1>4. CASE NoDirectory \/ NoRing \/ NoThread \/ NewThread \/ StopReleases
  BY <1>3, <1>4 DEF NoDirectory, NoRing, NoThread, NewThread, StopReleases, Levels, Stages
<1>5. CASE \E o \in Objects : ObjectFails(o)
  BY <1>3, <1>5 DEF ObjectFails, Levels, Stages
<1>6. CASE Exit
  <2>1. At("off") /\ Fini
    BY <1>6 DEF Exit
  <2>2. says[Poller] = None
    BY <2>1 DEF At, LoaderInv, StageInv
  <2>3. ~down /\ says[Main] = None
    BY <1>1, <2>1 DEF Stages
  <2>4. QED  BY <2>1, <2>2, <2>3 DEF LogNext
<1>7. CASE PollEvent
  <2>1. CASE Call(Poller, "WARN")
    <3>1. ~down /\ says[Poller] = None
      BY <1>7 DEF PollEvent, Quiet, LoaderInv, StageInv
    <3>2. QED  BY <1>2, <2>1, <3>1 DEF Levels
  <2>2. QED  BY <1>7, <2>1 DEF PollEvent, Silent
<1>8. CASE Logging
  BY <1>8 DEF Logging, LogNext
<1>9. CASE \/ Start \/ EndScan \/ GiveUp \/ NewRing \/ Stop \/ Join
           \/ LinkKept \/ LinkForgotten \/ NotAttached \/ FindMap
           \/ (\E o \in Objects : LoadObject(o) \/ Emit(o)) \/ PollTest \/ PollReturns
  BY <1>9
  DEF Start, EndScan, GiveUp, NewRing, Stop, Join, LinkKept, LinkForgotten, NotAttached,
      Attach, FindMap, LoadObject, Emit, PollTest, PollReturns, Silent
<1>10. CASE UNCHANGED vars
  BY <1>10 DEF vars
<1>11. QED
  BY <1>4, <1>5, <1>6, <1>7, <1>8, <1>9, <1>10 DEF Next, MainStep

-----------------------------------------------------------------------------
(* The rest of the invariant, which says of the log only who is in it.       *)

HandleInv == LoaderTypeOK /\ TableInv /\ StageInv

\* A call of the logger by Main changes the one entry of says.
LEMMA CallByMain ==
  ASSUME LogTypeOK, NEW m \in Levels, Call(Main, m)
  PROVE  /\ says'[Main] = m /\ says'[Poller] = says[Poller]
         /\ m # None /\ down' = down
  BY ThreadsAssumption, LevelsAssumption, NoneAssumption DEF Call, LogTypeOK

LEMMA InitHandles == Init => LoaderInv
<1> SUFFICES ASSUME Init
             PROVE  LoaderInv
  OBVIOUS
<1>1. LogInv
  BY LogInitInv DEF Init
<1>2. LoaderTypeOK
  <2>1. running \in BOOLEAN
    BY DEF Init
  <2>2. QED  BY <2>1, TablesAssumption DEF Init, LoaderTypeOK, Stages
<1>3. TableInv
  BY EmptyNames DEF Init, TableInv
<1>4. StageInv
  BY ThreadsAssumption DEF Init, StageInv, LogInit
<1>5. QED  BY <1>1, <1>2, <1>3, <1>4 DEF LoaderInv

LEMMA ScanSteps ==
  ASSUME LoaderInv,
         NoDirectory \/ Start \/ EndScan \/ \E o \in Objects : ObjectFails(o)
  PROVE  HandleInv'
<1> USE DEF LoaderInv, At, Quiet, Goto, Silent, logVars
<1>1. CASE NoDirectory
  <2>1. says'[Poller] = says[Poller] /\ down' = down /\ pc = "off"
    BY <1>1, CallByMain DEF NoDirectory, LogInv, Levels
  <2>2. LoaderTypeOK'
    BY <1>1, TablesAssumption DEF NoDirectory, LoaderTypeOK
  <2>3. TableInv'
    BY <1>1 DEF NoDirectory, TableInv
  <2>4. StageInv'
    BY <1>1, <2>1 DEF NoDirectory, StageInv, Object
  <2>5. QED  BY <2>2, <2>3, <2>4 DEF HandleInv
<1>2. CASE Start
  <2>1. LoaderTypeOK'
    BY <1>2, TablesAssumption DEF Start, LoaderTypeOK, Stages
  <2>2. TableInv'
    BY <1>2, EmptyNames DEF Start, TableInv, StageInv
  <2>3. StageInv'
    BY <1>2 DEF Start, StageInv
  <2>4. QED  BY <2>1, <2>2, <2>3 DEF HandleInv
<1>3. CASE EndScan
  <2>1. LoaderTypeOK'
    BY <1>3 DEF EndScan, LoaderTypeOK, Stages
  <2>2. TableInv'
    BY <1>3 DEF EndScan, TableInv
  <2>3. StageInv'
    BY <1>3 DEF EndScan, StageInv
  <2>4. QED  BY <2>1, <2>2, <2>3 DEF HandleInv
<1>4. ASSUME NEW o \in Objects, ObjectFails(o)
      PROVE  HandleInv'
  <2>1. says'[Poller] = says[Poller] /\ down' = down /\ pc = "scan"
    BY <1>4, CallByMain DEF ObjectFails, LogInv, Levels
  <2>2. LoaderTypeOK'
    BY <1>4 DEF ObjectFails, LoaderTypeOK
  <2>3. TableInv'
    BY <1>4 DEF ObjectFails, TableInv
  <2>4. StageInv'
    BY <1>4, <2>1 DEF ObjectFails, StageInv
  <2>5. QED  BY <2>2, <2>3, <2>4 DEF HandleInv
<1>5. QED  BY <1>1, <1>2, <1>3, <1>4

LEMMA LoadObjectStep ==
  ASSUME LoaderInv, NEW o \in Objects, LoadObject(o)
  PROVE  HandleInv'
<1> USE DEF LoaderInv, At, Quiet, Goto, Silent, logVars
<1>1. objs \in Seq(Objects) /\ open \cap todo = {} /\ o \in todo /\ o \notin ToSet(objs)
  BY DEF LoadObject, LoaderTypeOK, TableInv
<1>2. /\ objs' \in Seq(Objects) /\ Len(objs') = Len(objs) + 1
      /\ ToSet(objs') = ToSet(objs) \cup {o} /\ IsInjective(objs')
      /\ objs'[Len(objs')] = o
  BY <1>1, AppendNames DEF LoadObject, TableInv
<1>3. LoaderTypeOK'
  BY <1>2, TablesAssumption DEF LoadObject, LoaderTypeOK, Stages
<1>4. TableInv'
  BY <1>1, <1>2 DEF LoadObject, TableInv
<1>5. \A p \in attached : p[1] # o
  BY <1>1 DEF TableInv
<1>6. StageInv'
  BY <1>1, <1>2, <1>5 DEF LoadObject, StageInv, LoaderTypeOK, Object
<1>7. QED  BY <1>3, <1>4, <1>6 DEF HandleInv

LEMMA AttachSteps ==
  ASSUME LoaderInv, LinkKept \/ LinkForgotten \/ NotAttached \/ FindMap
  PROVE  HandleInv'
<1> USE DEF LoaderInv, At, Quiet, Goto, Silent, logVars
<1> DEFINE p == <<Object, prog>>
<1>1. pc = "attach" /\ Object \in open /\ prog \in Nat /\ prog >= 1
  <2>1. pc = "attach"
    BY DEF LinkKept, LinkForgotten, NotAttached, FindMap, Attach
  <2>2. objs \in Seq(Objects) /\ objs # <<>>
    BY <2>1 DEF StageInv, LoaderTypeOK
  <2>3. Len(objs) \in DOMAIN objs
    BY <2>2
  <2>4. QED  BY <2>1, <2>3 DEF Object, ToSet, StageInv, LoaderTypeOK, TableInv
<1>2. CASE FindMap
  <2>1. LoaderTypeOK'
    BY <1>1, <1>2 DEF FindMap, LoaderTypeOK, Stages
  <2>2. TableInv'
    BY <1>2 DEF FindMap, TableInv
  <2>3. StageInv'
    BY <1>1, <1>2 DEF FindMap, StageInv
  <2>4. QED  BY <2>1, <2>2, <2>3 DEF HandleInv
<1>3. ASSUME LinkKept \/ LinkForgotten \/ NotAttached
      PROVE  HandleInv'
  <2>1. p \in AllPrograms
    <3>1. prog <= Programs[Object] /\ Object \in Objects
      BY <1>1, <1>3 DEF LinkKept, LinkForgotten, NotAttached, Attach, LoaderTypeOK
    <3>2. p \in ProgramsOf(Object)
      BY <1>1, <3>1, ObjectsAssumption DEF ProgramsOf
    <3>3. QED  BY <3>1, <3>2 DEF AllPrograms
  <2>2. p \notin attached /\ p \notin ToSet(links)
    BY <1>1 DEF StageInv, TableInv, LoaderTypeOK
  <2>3. /\ objs' = objs /\ open' = open /\ todo' = todo /\ Object' = Object
        /\ prog' = prog + 1 /\ pc' = pc
    BY <1>3 DEF LinkKept, LinkForgotten, NotAttached, Attach, Object
  <2>4. \/ /\ links' = Append(links, p) /\ attached' = attached \cup {p} /\ lost' = lost
           /\ Len(links) < MaxLinks
        \/ /\ links' = links /\ attached' = attached
           /\ lost' \in {lost, lost \cup {p}}
    <3>1. links \in Seq(AllPrograms)
      BY DEF LoaderTypeOK
    <3>2. ToSet(<<p>>) = {p}
      BY DEF ToSet
    <3>3. QED
      BY <1>3, <2>1, <3>1, <3>2, AppendOne, EmptyNames
      DEF LinkKept, LinkForgotten, NotAttached, Attach
  <2>5. /\ links' \in Seq(AllPrograms) /\ Len(links') <= MaxLinks
        /\ ToSet(links') = attached' /\ IsInjective(links')
        /\ attached' \in SUBSET AllPrograms /\ lost' \in SUBSET AllPrograms
    <3>1. links \in Seq(AllPrograms) /\ Len(links) <= MaxLinks /\ MaxLinks \in Nat
      BY TablesAssumption DEF LoaderTypeOK
    <3>2. /\ ToSet(links) = attached /\ IsInjective(links)
          /\ attached \in SUBSET AllPrograms /\ lost \in SUBSET AllPrograms
      BY DEF LoaderTypeOK, TableInv
    <3>3. CASE links' = Append(links, p) /\ attached' = attached \cup {p} /\ lost' = lost
               /\ Len(links) < MaxLinks
      <4>1. /\ links' \in Seq(AllPrograms) /\ Len(links') = Len(links) + 1
            /\ ToSet(links') = ToSet(links) \cup {p} /\ IsInjective(links')
        BY <2>1, <2>2, <3>1, <3>2, <3>3, AppendNames
      <4>2. Len(links') <= MaxLinks
        BY <3>1, <3>3, <4>1
      <4>3. QED  BY <2>1, <3>2, <3>3, <4>1, <4>2
    <3>4. CASE links' = links /\ attached' = attached /\ lost' \in {lost, lost \cup {p}}
      BY <2>1, <3>1, <3>2, <3>4
    <3>5. QED  BY <2>4, <3>3, <3>4
  <2>6. LoaderTypeOK'
    BY <1>1, <1>3, <2>3, <2>5 DEF LinkKept, LinkForgotten, NotAttached, Attach, LoaderTypeOK
  <2>7. TableInv'
    BY <1>1, <2>3, <2>4, <2>5 DEF TableInv
  <2>8. StageInv'
    <3>1. \A q \in attached' : q[1] = Object => q[2] < prog + 1
      <4>1. \A q \in attached : q[1] = Object => q[2] < prog + 1
        <5>1. \A q \in attached : q[2] \in Nat
          BY ObjectsAssumption DEF LoaderTypeOK, AllPrograms, ProgramsOf
        <5>2. QED  BY <1>1, <5>1 DEF StageInv
      <4>2. QED  BY <1>1, <2>4, <4>1
    <3>2. prog + 1 >= 1
      BY <1>1
    <3>3. QED
      BY <1>1, <1>3, <2>3, <3>1, <3>2
      DEF LinkKept, LinkForgotten, NotAttached, Attach, StageInv
  <2>9. QED  BY <2>6, <2>7, <2>8 DEF HandleInv
<1>4. QED  BY <1>2, <1>3

\* What a release leaves behind: nothing of what the tables name.
LEMMA ReleaseNames ==
  ASSUME LoaderTypeOK, TableInv, Release
  PROVE  /\ open' = {} /\ attached' = {} /\ objs' = <<>> /\ links' = <<>>
         /\ unread' \in SUBSET Mapped /\ ToSet(objs') = {} /\ ToSet(links') = {}
         /\ IsInjective(objs') /\ IsInjective(links')
  BY EmptyNames DEF LoaderTypeOK, TableInv, Release

LEMMA ReleaseSteps ==
  ASSUME LoaderInv, GiveUp \/ NoThread \/ StopReleases
  PROVE  HandleInv'
<1> USE DEF LoaderInv, At, Quiet, Goto, Silent, logVars
<1>1. /\ pc \in {"giveUp", "thread", "release"} /\ Release /\ pc' = "off"
      /\ UNCHANGED <<starts, todo, lost, prog, mapFd, poll>>
      /\ rb' = None /\ running' = FALSE
  BY DEF GiveUp, NoThread, StopReleases, StageInv
<1>2. says'[Poller] = says[Poller] /\ down' = down
  BY CallByMain DEF GiveUp, NoThread, StopReleases, LogInv, Levels
<1>3. LoaderTypeOK'
  <2>1. /\ open' \in SUBSET Objects /\ attached' \in SUBSET AllPrograms
        /\ unread' \in SUBSET Mapped
    BY <1>1, ReleaseNames
  <2>2. /\ objs' \in Seq(Objects) /\ Len(objs') <= MaxObjects
        /\ links' \in Seq(AllPrograms) /\ Len(links') <= MaxLinks
    <3>1. objs' = <<>> /\ links' = <<>>
      BY <1>1, ReleaseNames
    <3>2. QED  BY <3>1, TablesAssumption
  <2>3. pc' \in Stages /\ {mapFd', rb'} \subseteq Mapped \cup {None}
    BY <1>1 DEF LoaderTypeOK, Stages
  <2>4. running' \in BOOLEAN
    BY <1>1
  <2>5. QED  BY <1>1, <2>1, <2>2, <2>3, <2>4 DEF LoaderTypeOK
<1>4. TableInv'
  BY <1>1, ReleaseNames DEF TableInv
<1>5. StageInv'
  BY <1>1, <1>2, ReleaseNames DEF StageInv
<1>6. QED  BY <1>3, <1>4, <1>5 DEF HandleInv

LEMMA RingSteps ==
  ASSUME LoaderInv, NoRing \/ NewRing \/ NewThread \/ Stop \/ Join \/ Exit
  PROVE  HandleInv'
<1> USE DEF LoaderInv, At, Quiet, Goto, Silent, logVars
<1>1. says'[Poller] = says[Poller]
  BY CallByMain DEF NoRing, NewRing, NewThread, Stop, Join, LogInv, Levels, Exit, Fini
<1>2. /\ UNCHANGED <<starts, todo, objs, links, open, attached, lost, prog, mapFd, unread>>
      /\ pc' \in Stages
  BY DEF NoRing, NewRing, NewThread, Stop, Join, Exit, Stages
<1>3. LoaderTypeOK'
  <2>1. {mapFd', rb'} \subseteq Mapped \cup {None} /\ running' \in BOOLEAN
    BY DEF NoRing, NewRing, NewThread, Stop, Join, Exit, LoaderTypeOK
  <2>2. poll' \in {"none", "test", "poll", "ended"}
    BY DEF NoRing, NewRing, NewThread, Stop, Join, Exit, LoaderTypeOK
  <2>3. QED  BY <1>2, <2>1, <2>2 DEF LoaderTypeOK
<1>4. TableInv'
  BY <1>2 DEF TableInv
<1>5. StageInv'
  <2>1. CASE NoRing
    <3>1. down' = down /\ ~down
      BY <2>1 DEF NoRing, Call, StageInv
    <3>2. QED  BY <1>1, <1>2, <2>1, <3>1 DEF NoRing, StageInv
  <2>2. CASE NewRing
    BY <1>1, <1>2, <2>2 DEF NewRing, StageInv
  <2>3. CASE NewThread
    <3>1. down' = down /\ ~down
      BY <2>3 DEF NewThread, Call, StageInv
    <3>2. QED  BY <1>1, <1>2, <2>3, <3>1 DEF NewThread, StageInv
  <2>4. CASE Stop
    BY <1>1, <1>2, <2>4 DEF Stop, StageInv
  <2>5. CASE Join
    <3>1. says[Poller] = None
      BY <2>5 DEF Join, StageInv
    <3>2. QED  BY <1>1, <1>2, <2>5, <3>1 DEF Join, StageInv
  <2>6. CASE Exit
    BY <1>1, <1>2, <2>6 DEF Exit, Fini, StageInv
  <2>7. QED  BY <2>1, <2>2, <2>3, <2>4, <2>5, <2>6
<1>6. QED  BY <1>3, <1>4, <1>5 DEF HandleInv

LEMMA PollSteps ==
  ASSUME LoaderInv, PollTest \/ PollEvent \/ PollReturns \/ \E o \in Objects : Emit(o)
  PROVE  HandleInv'
<1> USE DEF LoaderInv, Quiet, Silent, logVars
<1>1. /\ UNCHANGED <<pc, starts, todo, objs, links, open, attached, lost, prog, mapFd, rb, running>>
      /\ unread' \in SUBSET Mapped
  BY DEF PollTest, PollEvent, PollReturns, Emit, LoaderTypeOK
<1>2. poll' \in {"none", "test", "poll", "ended"}
  BY DEF PollTest, PollEvent, PollReturns, Emit, LoaderTypeOK
<1>3. LoaderTypeOK'
  BY <1>1, <1>2 DEF LoaderTypeOK
<1>4. TableInv'
  BY <1>1 DEF TableInv
<1>5. down' = down /\ says'[Main] = says[Main]
  BY ThreadsAssumption DEF PollTest, PollEvent, PollReturns, Emit, Call, LogInv, LogTypeOK
<1>6. StageInv'
  <2>1. CASE PollTest
    BY <1>1, <2>1 DEF PollTest, StageInv, Object
  <2>2. CASE PollEvent
    BY <1>1, <1>5, <2>2 DEF PollEvent, StageInv, Object
  <2>3. CASE PollReturns
    BY <1>1, <2>3 DEF PollReturns, StageInv, Object
  <2>4. CASE \E o \in Objects : Emit(o)
    BY <1>1, <2>4 DEF Emit, StageInv, Object
  <2>5. QED  BY <2>1, <2>2, <2>3, <2>4
<1>7. QED  BY <1>3, <1>4, <1>6 DEF HandleInv

LEMMA LoggingStep ==
  ASSUME LoaderInv, Logging
  PROVE  HandleInv'
<1>1. PICK t \in Threads : LogStep(t) /\ UNCHANGED loaderVars
  BY DEF Logging
<1>2. down' = down /\ \A u \in Threads : says'[u] \in {says[u], None}
  BY <1>1 DEF LogStep, Acquire, FreeOldest, Duplicate, Advance, LoaderInv, LogInv, LogTypeOK
<1>3. HandleInv'
  BY <1>1, <1>2, ThreadsAssumption
  DEF HandleInv, LoaderInv, LoaderTypeOK, TableInv, StageInv, loaderVars, Object
<1>4. QED  BY <1>3

LEMMA LoaderStepInv == LoaderInv /\ [Next]_vars => LoaderInv'
<1> SUFFICES ASSUME LoaderInv, [Next]_vars
             PROVE  LoaderInv'
  OBVIOUS
<1>1. LogInv'
  BY UsesLogger, LogStepInv DEF LoaderInv
<1>2. HandleInv'
  <2>1. CASE UNCHANGED vars
    BY <2>1 DEF vars, loaderVars, logVars, HandleInv, LoaderInv, LoaderTypeOK, TableInv, StageInv, Object
  <2>2. CASE MainStep
    BY <2>2, ScanSteps, LoadObjectStep, AttachSteps, ReleaseSteps, RingSteps DEF MainStep
  <2>3. CASE Next /\ ~MainStep
    BY <2>3, PollSteps, LoggingStep DEF Next
  <2>4. QED  BY <2>1, <2>2, <2>3
<1>3. QED  BY <1>1, <1>2 DEF HandleInv, LoaderInv

-----------------------------------------------------------------------------

\* The inductive invariant holds for all files, programs and bounds: each object
\* and each link in the tables lives, is there once, and is released once.
THEOREM LoaderCorrect == Spec => []LoaderInv
  BY InitHandles, LoaderStepInv, PTL DEF Spec

\* The loader's two threads use the logger as it must be used: none of them is
\* in nulleye_log when main frees the ring, or calls it later.
THEOREM LoaderUsesLogger == Spec => LogSpec
<1>1. Init => LogInit
  BY DEF Init
<1>2. QED
  BY <1>1, UsesLogger, LoaderCorrect, PTL DEF Spec, LogSpec

\* So with the loader's two threads, too, the ring shows the last lines in order.
THEOREM LoaderKeepsRecent == Spec => RecentSpec
  BY LoaderUsesLogger, RingKeepsRecent

\* Whatever fails, a loader that is off holds nothing but forgotten links.
THEOREM ReleasedTheorem == Spec => []ReleasedWhenOff
<1>1. LoaderInv => ReleasedWhenOff
  <2> SUFFICES ASSUME LoaderInv, pc \in {"off", "exited"}
               PROVE  ReleasedWhenOff
    BY DEF ReleasedWhenOff
  <2>1. open = {} /\ attached = {} /\ rb = None /\ poll = "none"
    BY DEF LoaderInv, StageInv, TableInv
  <2>2. objs \in Seq(Objects) /\ links \in Seq(AllPrograms)
    BY DEF LoaderInv, LoaderTypeOK
  <2>3. ToSet(objs) = {} /\ ToSet(links) = {}
    BY <2>1 DEF LoaderInv, TableInv
  <2>4. ASSUME NEW S, NEW s \in Seq(S), ToSet(s) = {}
        PROVE  s = <<>>
    <3>1. s # <<>> => 1 \in DOMAIN s
      OBVIOUS
    <3>2. QED  BY <2>4, <3>1 DEF ToSet
  <2>5. objs = <<>> /\ links = <<>>
    BY <2>2, <2>3, <2>4
  <2>6. QED  BY <2>1, <2>5 DEF ReleasedWhenOff
<1>2. QED  BY <1>1, LoaderCorrect, PTL

\* The poll thread never reads the map of an object that was closed.
THEOREM PolledTheorem == Spec => []PolledMapOpen
<1>1. LoaderInv => PolledMapOpen
  BY DEF LoaderInv, StageInv, PolledMapOpen
<1>2. QED  BY <1>1, LoaderCorrect, PTL
=============================================================================
