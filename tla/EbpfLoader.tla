----------------------------- MODULE EbpfLoader -----------------------------
(***************************************************************************)
(* ebpf_loader_start and ebpf_loader_stop of loader.c in the thread that    *)
(* calls them, rb_poll in its own, and the logger both call.                *)
(*                                                                         *)
(* Every object file may fail to open, to load and to attach; start may     *)
(* fail behind the loop in three places and releases what it has taken.     *)
(* The tables are bounded: a 65th object is not opened, and the link of a   *)
(* 257th program is attached and forgotten.                                 *)
(*                                                                         *)
(* The functions are called in any order that the loader allows: a start    *)
(* that succeeded is stopped before the next one.  This is the branch for   *)
(* builds with libbpf; without it start fails and stop does nothing.        *)
(***************************************************************************)
EXTENDS Logger, SequencesExt, FiniteSets

CONSTANTS Main, Poller, \* the two threads
          Objects,      \* the files src/ebpf/bpf/*.bpf.o
          Programs,     \* Programs[o] is how many programs o has
          Mapped,       \* the objects that define a map "events"
          MaxObjects,   \* MAX_BPF_OBJECTS
          MaxLinks,     \* the length of g_links
          MaxStarts     \* bound: calls of ebpf_loader_start

\* Of a line the level stands for all.
Levels == {"ERR", "WARN", "INFO"}

ASSUME ThreadsAssumption == Main # Poller /\ Threads = {Main, Poller}
ASSUME LevelsAssumption == Messages = Levels
ASSUME TablesAssumption == MaxObjects \in Nat /\ MaxLinks \in Nat /\ MaxStarts \in Nat
ASSUME ObjectsAssumption ==
  Programs \in [Objects -> Nat] /\ Mapped \subseteq Objects /\ None \notin Objects

VARIABLES
  pc,        \* where Main is
  starts,    \* how often start was called
  todo,      \* the directory entries that are not read yet
  objs,      \* g_objs
  links,     \* g_links
  open,      \* the objects that are loaded and not closed
  attached,  \* the links that live, other than those
  lost,      \* that no place in g_links was left for
  prog,      \* the program of the last object that is to be attached
  mapFd,     \* found_map_fd: the object whose map it is
  rb,        \* the ring buffer: the object whose map it polls
  running,   \* rb_running
  poll,      \* where rb_poll is
  unread     \* the objects whose maps hold events

loaderVars == <<pc, starts, todo, objs, links, open, attached, lost, prog, mapFd, rb, running, poll, unread>>
vars == <<logVars, loaderVars>>

ProgramsOf(o) == {o} \X (1 .. Programs[o])
AllPrograms == UNION {ProgramsOf(o) : o \in Objects}

Init ==
  /\ LogInit
  /\ pc = "off" /\ starts = 0
  /\ todo = {} /\ objs = <<>> /\ links = <<>>
  /\ open = {} /\ attached = {} /\ lost = {}
  /\ prog = 0 /\ mapFd = None /\ rb = None
  /\ running = FALSE /\ poll = "none"
  /\ unread = {}

-----------------------------------------------------------------------------
(* Main.  A thread that is inside nulleye_log does nothing else.             *)

Quiet(t) == says[t] = None
At(stage) == Quiet(Main) /\ pc = stage
Goto(stage) == pc' = stage

Silent == UNCHANGED logVars

\* opendir fails.
NoDirectory ==
  /\ At("off") /\ starts < MaxStarts
  /\ starts' = starts + 1
  /\ Call(Main, "ERR")
  /\ UNCHANGED <<pc, todo, objs, links, open, attached, lost, prog, mapFd, rb, running, poll, unread>>

Start ==
  /\ At("off") /\ starts < MaxStarts
  /\ starts' = starts + 1
  /\ todo' = Objects
  /\ objs' = <<>> /\ links' = <<>> /\ mapFd' = None
  /\ Goto("scan")
  /\ Silent
  /\ UNCHANGED <<open, attached, lost, prog, rb, running, poll, unread>>

\* The file does not open, or its object does not load and is closed again.
ObjectFails(o) ==
  /\ At("scan") /\ o \in todo /\ Len(objs) < MaxObjects
  /\ todo' = todo \ {o}
  /\ Call(Main, "WARN")
  /\ UNCHANGED <<pc, starts, objs, links, open, attached, lost, prog, mapFd, rb, running, poll, unread>>

\* Its object is kept; o is the last of g_objs from here on.
LoadObject(o) ==
  /\ At("scan") /\ o \in todo /\ Len(objs) < MaxObjects
  /\ todo' = todo \ {o}
  /\ objs' = Append(objs, o)
  /\ open' = open \cup {o}
  /\ prog' = 1
  /\ Goto("attach")
  /\ Silent
  /\ UNCHANGED <<starts, links, attached, lost, mapFd, rb, running, poll, unread>>

Object == objs[Len(objs)]

\* The next program attaches, or does not.
Attach(ln, forgotten) ==
  /\ At("attach") /\ prog <= Programs[Object]
  /\ prog' = prog + 1
  /\ links' = links \o ln
  /\ attached' = attached \cup ToSet(ln)
  /\ lost' = lost \cup forgotten
  /\ Silent
  /\ UNCHANGED <<pc, starts, todo, objs, open, mapFd, rb, running, poll, unread>>

LinkKept == Len(links) < MaxLinks /\ Attach(<< <<Object, prog>> >>, {})
LinkForgotten == Len(links) >= MaxLinks /\ Attach(<<>>, {<<Object, prog>>})
NotAttached == Attach(<<>>, {})

\* The first map "events" is the one that is polled.
FindMap ==
  /\ At("attach") /\ prog > Programs[Object]
  /\ mapFd' = IF Object \in Mapped /\ mapFd = None THEN Object ELSE mapFd
  /\ Goto("scan")
  /\ Silent
  /\ UNCHANGED <<starts, todo, objs, links, open, attached, lost, prog, rb, running, poll, unread>>

EndScan ==
  /\ At("scan") /\ (todo = {} \/ Len(objs) >= MaxObjects)
  /\ todo' = {}
  /\ Goto("map")
  /\ Silent
  /\ UNCHANGED <<starts, objs, links, open, attached, lost, prog, mapFd, rb, running, poll, unread>>

\* Mutant: the failing start closes the objects and keeps their number.
ReleaseCountKept ==
  /\ attached' = attached \ ToSet(links)
  /\ links' = <<>>
  /\ open' = open \ ToSet(objs)
  /\ objs' = objs
  /\ unread' = unread \ ToSet(objs)

\* Destroy the links, close the objects; an object's maps go with it.
Release ==
  /\ attached' = attached \ ToSet(links)
  /\ links' = <<>>
  /\ open' = open \ ToSet(objs)
  /\ objs' = <<>>
  /\ unread' = unread \ ToSet(objs)

\* No map "events", or ring_buffer__new fails: a log line, then the release.
NoRing ==
  /\ At("map")
  /\ Call(Main, "ERR")
  /\ Goto("giveUp")
  /\ UNCHANGED <<starts, todo, objs, links, open, attached, lost, prog, mapFd, rb, running, poll, unread>>

GiveUp ==
  /\ At("giveUp")
  /\ Release
  /\ Goto("off")
  /\ Silent
  /\ UNCHANGED <<starts, todo, lost, prog, mapFd, rb, running, poll>>

\* Mutant: rb_running is set by nobody.
NewRingNotRunning ==
  /\ At("map") /\ mapFd # None
  /\ rb' = mapFd
  /\ Goto("thread")
  /\ Silent
  /\ UNCHANGED <<starts, todo, objs, links, open, attached, lost, prog, mapFd, running, poll, unread>>

NewRing ==
  /\ At("map") /\ mapFd # None
  /\ rb' = mapFd
  /\ running' = TRUE
  /\ Goto("thread")
  /\ Silent
  /\ UNCHANGED <<starts, todo, objs, links, open, attached, lost, prog, mapFd, poll, unread>>

\* pthread_create fails: the release, then a log line.
NoThread ==
  /\ At("thread")
  /\ running' = FALSE /\ rb' = None
  /\ Release
  /\ Goto("off")
  /\ Call(Main, "ERR")
  /\ UNCHANGED <<starts, todo, lost, prog, mapFd, poll>>

NewThread ==
  /\ At("thread")
  /\ poll' = "test"
  /\ Goto("on")
  /\ Call(Main, "INFO")
  /\ UNCHANGED <<starts, todo, objs, links, open, attached, lost, prog, mapFd, rb, running, unread>>

\* Mutant: rb_running is not cleared.
StopRunningKept ==
  /\ At("on") \/ At("off")
  /\ Goto(IF rb # None THEN "join" ELSE "release")
  /\ Silent
  /\ UNCHANGED <<starts, todo, objs, links, open, attached, lost, prog, mapFd, rb, running, poll, unread>>

\* ebpf_loader_stop, which main calls whether or not start succeeded.
Stop ==
  /\ At("on") \/ At("off")
  /\ running' = FALSE
  /\ Goto(IF rb # None THEN "join" ELSE "release")
  /\ Silent
  /\ UNCHANGED <<starts, todo, objs, links, open, attached, lost, prog, mapFd, rb, poll, unread>>

\* Mutant: the ring buffer is freed under rb_poll.
JoinNobody ==
  /\ At("join")
  /\ rb' = None
  /\ Goto("release")
  /\ Silent
  /\ UNCHANGED <<starts, todo, objs, links, open, attached, lost, prog, mapFd, running, poll, unread>>

\* pthread_kill ends a poll early; pthread_join waits for it.
Join ==
  /\ At("join") /\ poll = "ended"
  /\ poll' = "none"
  /\ rb' = None
  /\ Goto("release")
  /\ Silent
  /\ UNCHANGED <<starts, todo, objs, links, open, attached, lost, prog, mapFd, running, unread>>

StopReleases ==
  /\ At("release")
  /\ Release
  /\ Goto("off")
  /\ Call(Main, "INFO")
  /\ UNCHANGED <<starts, todo, lost, prog, mapFd, rb, running, poll>>

\* main goes on to logger_fini.
Exit ==
  /\ At("off") /\ Fini
  /\ Goto("exited")
  /\ UNCHANGED <<starts, todo, objs, links, open, attached, lost, prog, mapFd, rb, running, poll, unread>>

-----------------------------------------------------------------------------
(* rb_poll, and the kernel *)

PollTest ==
  /\ poll = "test"
  /\ poll' = IF running THEN "poll" ELSE "ended"
  /\ Silent
  /\ UNCHANGED <<pc, starts, todo, objs, links, open, attached, lost, prog, mapFd, rb, running, unread>>

\* ring_buffer__poll hands an event to handle_rb_event, which publishes it or
\* logs that the bus refused it.
PollEvent ==
  /\ poll = "poll" /\ Quiet(Poller) /\ rb \in unread
  /\ unread' = unread \ {rb}
  /\ Silent \/ Call(Poller, "WARN")
  /\ UNCHANGED <<pc, starts, todo, objs, links, open, attached, lost, prog, mapFd, rb, running, poll>>

\* The map is empty: 100 ms are over, or a signal came.
PollReturns ==
  /\ poll = "poll" /\ Quiet(Poller) /\ rb \notin unread
  /\ poll' = "test"
  /\ Silent
  /\ UNCHANGED <<pc, starts, todo, objs, links, open, attached, lost, prog, mapFd, rb, running, unread>>

\* An attached program submits an event to the map of its object.
Emit(o) ==
  /\ o \in Mapped \cap open /\ (attached \cup lost) \cap ProgramsOf(o) # {}
  /\ unread' = unread \cup {o}
  /\ Silent
  /\ UNCHANGED <<pc, starts, todo, objs, links, open, attached, lost, prog, mapFd, rb, running, poll>>

MainStep ==
  \/ NoDirectory \/ Start \/ EndScan \/ NoRing \/ GiveUp \/ NewRing \/ NoThread
  \/ NewThread \/ Stop \/ Join \/ StopReleases \/ Exit
  \/ LinkKept \/ LinkForgotten \/ NotAttached \/ FindMap
  \/ \E o \in Objects : ObjectFails(o) \/ LoadObject(o)

Logging == \E t \in Threads : LogStep(t) /\ UNCHANGED loaderVars

Next ==
  \/ MainStep
  \/ PollTest \/ PollEvent \/ PollReturns
  \/ \E o \in Objects : Emit(o)
  \/ Logging

Spec == Init /\ [][Next]_vars

\* The threads are scheduled, and the mutex is handed on.
FairSpec ==
  /\ Spec
  /\ WF_vars(Join) /\ WF_vars(StopReleases)
  /\ WF_vars(PollTest) /\ WF_vars(PollEvent) /\ WF_vars(PollReturns)
  /\ \A t \in Threads : SF_vars(LogStep(t) /\ UNCHANGED loaderVars)

-----------------------------------------------------------------------------
(* Correctness *)

Stages == {"off", "scan", "attach", "map", "giveUp", "thread", "on", "join", "release", "exited"}

LoaderTypeOK ==
  /\ pc \in Stages
  /\ starts \in 0 .. MaxStarts
  /\ todo \in SUBSET Objects
  /\ objs \in Seq(Objects) /\ Len(objs) <= MaxObjects
  /\ links \in Seq(AllPrograms) /\ Len(links) <= MaxLinks
  /\ open \in SUBSET Objects /\ attached \in SUBSET AllPrograms /\ lost \in SUBSET AllPrograms
  /\ prog \in Nat
  /\ {mapFd, rb} \subseteq Mapped \cup {None}
  /\ running \in BOOLEAN
  /\ poll \in {"none", "test", "poll", "ended"}
  /\ unread \in SUBSET Mapped

\* The tables name what lives, once: whatever failed on the way, each object is
\* closed and each link destroyed once (loader.c:142-145, 152-155, 164-167,
\* 184-187).
TableInv ==
  /\ ToSet(objs) = open /\ IsInjective(objs)
  /\ ToSet(links) = attached /\ IsInjective(links)
  /\ \A p \in attached : p[1] \in open
  /\ open \cap todo = {}

StageInv ==
  /\ pc \in {"off", "exited"} => open = {}
  /\ pc \in {"scan", "attach"} \/ todo = {}
  /\ pc = "attach" =>
       /\ objs # <<>> /\ prog >= 1
       /\ \A p \in attached : p[1] = Object => p[2] < prog
  /\ pc \in {"scan", "attach", "map", "thread", "on", "join"} /\ mapFd # None => mapFd \in open
  /\ rb = IF pc \in {"thread", "on", "join"} THEN mapFd ELSE None
  /\ rb = None => pc \notin {"thread", "on", "join"}
  /\ running <=> pc \in {"thread", "on"}
  /\ poll # "none" <=> pc \in {"on", "join"}
  /\ poll = "ended" => pc = "join"
  /\ says[Poller] # None => poll = "poll"
  /\ down <=> pc = "exited"
  /\ down => says[Main] = None

LoaderInv == LogInv /\ LoaderTypeOK /\ TableInv /\ StageInv

\* Whichever of its steps failed (loader.c:102-170), a start that returned an
\* error has released what it took, as has a stop; only links that g_links had
\* no place for are left (loader.c:132).
ReleasedWhenOff ==
  pc \in {"off", "exited"} =>
    /\ open = {} /\ attached = {} /\ objs = <<>> /\ links = <<>>
    /\ rb = None /\ poll = "none"

\* rb_poll never polls a ring buffer that was freed, or the map of an object that
\* was closed (loader.c:66, 180-187).
PolledMapOpen == poll = "poll" => rb \in open

\* The events of the map that is polled are read for as long as the loader is on;
\* nothing polls the maps of the other objects (loader.c:136).
PolledEventsRead == (pc = "on" /\ rb \in unread) ~> (pc # "on" \/ rb \notin unread)

\* A stop returns, also while rb_poll waits for the logger's mutex (loader.c:66,
\* 180), unless the programs, which it detaches later, submit events for ever:
\* ring_buffer__poll does not look at rb_running.
StopReturns ==
  <>[][\A o \in Objects : ~Emit(o)]_vars => (pc \in {"join", "release"} ~> pc = "off")
=============================================================================
