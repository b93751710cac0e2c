------------------------------ MODULE StreamHub ------------------------------
(***************************************************************************)
(* The stream manager of the provider for one device                       *)
(* (src/internal/stream/stream.go, handlers.go, ws.go): StartCapture and   *)
(* StopCapture, the goroutine of a capture, its frame cache, and the HTTP  *)
(* and WebSocket handlers that send the frames to viewers.                 *)
(*                                                                         *)
(* A frame is its number in the capture.  What is on the way to a viewer   *)
(* is the part of view[v] that has not been sent: first the copied cache,  *)
(* which the handler writes itself, then the content of the channel.       *)
(***************************************************************************)
EXTENDS Naturals, Sequences

CONSTANTS
  MaxCaptures,   \* bound: calls of StartCapture
  MaxFrames,     \* bound: frames of a capture
  Http, Ws,      \* clients of /stream and of /ws, each connecting once
  HttpCap, WsCap \* capacity of their channels (60 and 120 in the code)

ASSUME HubAssumption ==
  /\ MaxCaptures \in Nat \ {0} /\ MaxFrames \in Nat
  /\ Http \cap Ws = {}
  /\ HttpCap \in Nat \ {0} /\ WsCap \in Nat \ {0}

Capture == 1..MaxCaptures
Viewer == Http \cup Ws
Cap == [v \in Viewer |-> IF v \in Http THEN HttpCap ELSE WsCap]

VARIABLES
  platform,    \* of the device: "android" or "ios"
  table,       \* m.streams[serial]: the current capture, 0 if there is none
  start,       \* StartCapture, which holds m.mu: its next step, or "idle"
  made,        \* captures StartCapture has begun
  phase,       \* phase[g]: where the goroutine of capture g is
  cancelled,   \* captures whose context is cancelled
  forward,     \* the capture that set up adb's port forwarding, 0 if it is off,
               \* Left if it stays although its removal was tried
  server,      \* captures whose scrcpy server runs
  listener,    \* the capture that listens on the port, 0 if the port is free
  params,      \* captures that have seen the codec parameters
  log,         \* log[g]: the frames broadcast so far
  cache,       \* gopCache
  st,          \* st[v]: where the handler of viewer v is
  of,          \* of[v]: the capture it looked up, 0 before
  view,        \* view[v]: the frames copied from the cache or put in the channel
  base,        \* base[v]: how many came from the cache
  sent,        \* sent[v]: how many have been written
  writer,      \* writer[v]: the goroutine of a WebSocket that sends the frames
  hungUp       \* viewers whose connection is closed

captureVars == <<platform, table, start, made, phase, cancelled, forward,
                 server, listener, params, log, cache>>
viewerVars == <<st, of, view, base, sent, writer, hungUp>>
hubVars == <<captureVars, viewerVars>>

Running == {"dialVideo", "dialControl", "reading"}
Max2(a, b) == IF a > b THEN a ELSE b

\* The error of adbForwardRemove is ignored: the forwarding may stay.
Left == MaxCaptures + 1
ForwardRemoved == forward' \in (IF forward = 0 THEN {0} ELSE {0, Left})
InChannel(v) == Len(view[v]) - Max2(sent[v], base[v])

HubInit ==
  /\ platform \in {"android", "ios"}
  /\ table = 0 /\ start = "idle" /\ made = 0
  /\ phase = [g \in Capture |-> "none"]
  /\ cancelled = {}
  /\ forward = 0 /\ server = {} /\ listener = 0
  /\ params = {}
  /\ log = [g \in Capture |-> <<>>]
  /\ cache = [g \in Capture |-> <<>>]
  /\ st \in [Viewer -> {"out", "refused"}]   \* the clients that will come
  /\ of = [v \in Viewer |-> 0]
  /\ view = [v \in Viewer |-> <<>>]
  /\ base = [v \in Viewer |-> 0]
  /\ sent = [v \in Viewer |-> 0]
  /\ writer = [v \in Viewer |-> "off"]
  /\ hungUp = {}

-----------------------------------------------------------------------------
(* StartCapture, with m.mu held from the first step to the last.           *)

Begin(next) ==
  /\ start = "idle" /\ table = 0 /\ made < MaxCaptures
  /\ made' = made + 1
  /\ start' = next
  /\ UNCHANGED <<platform, table, phase, cancelled, forward, server, listener,
                 params, log, cache, viewerVars>>

StartCapture == platform = "android" /\ Begin("forward")
StartIOSCapture == platform = "ios" /\ Begin("listen")

Forward(ok) ==
  /\ start = "forward"
  /\ forward' = IF ok THEN made ELSE forward
  /\ start' = IF ok THEN "launch" ELSE "idle"
  /\ cancelled' = IF ok THEN cancelled ELSE cancelled \cup {made}
  /\ UNCHANGED <<platform, table, made, phase, server, listener, params, log,
                 cache, viewerVars>>

Launch(ok) ==
  /\ start = "launch"
  /\ server' = IF ok THEN server \cup {made} ELSE server
  /\ IF ok THEN UNCHANGED forward ELSE ForwardRemoved
  /\ start' = IF ok THEN "listen" ELSE "idle"
  /\ cancelled' = IF ok THEN cancelled ELSE cancelled \cup {made}
  /\ UNCHANGED <<platform, table, made, phase, listener, params, log, cache,
                 viewerVars>>

\* The port is free: the goroutine of the capture starts and the capture
\* enters the table.
Listen ==
  /\ start = "listen" /\ listener = 0
  /\ listener' = made
  /\ phase' = [phase EXCEPT ![made] = "dialVideo"]
  /\ table' = made
  /\ start' = "idle"
  /\ UNCHANGED <<platform, made, cancelled, forward, server, params, log, cache,
                 viewerVars>>

\* Mutant of ListenFails: the error path forgets the forwarding.
MutListenFailsKeeps ==
  /\ start = "listen"
  /\ server' = server \ {made}
  /\ cancelled' = cancelled \cup {made}
  /\ start' = "idle"
  /\ UNCHANGED <<platform, table, made, phase, forward, listener, params, log,
                 cache, viewerVars>>

\* The port may be in use by an earlier capture or by another program.
ListenFails ==
  /\ start = "listen"
  /\ server' = server \ {made}
  /\ IF platform = "android" THEN ForwardRemoved ELSE UNCHANGED forward
  /\ cancelled' = cancelled \cup {made}
  /\ start' = "idle"
  /\ UNCHANGED <<platform, table, made, phase, listener, params, log, cache,
                 viewerVars>>

\* StopCapture: its caller then waits until phase[g] is "done".
StopCapture ==
  /\ start = "idle" /\ table # 0
  /\ cancelled' = cancelled \cup {table}
  /\ table' = 0
  /\ UNCHANGED <<platform, start, made, phase, forward, server, listener, params,
                 log, cache, viewerVars>>

-----------------------------------------------------------------------------
(* The goroutine of capture g.                                             *)

Move(g, from, to) ==
  /\ phase[g] = from
  /\ phase' = [phase EXCEPT ![g] = to]

DialVideo(g) ==
  /\ platform = "android" /\ forward # 0 /\ g \in server
  /\ Move(g, "dialVideo", "dialControl")
  /\ UNCHANGED <<platform, table, start, made, cancelled, forward, server,
                 listener, params, log, cache, viewerVars>>

\* The MJPEG stream of WebDriverAgent.
DialMJPEG(g) ==
  /\ platform = "ios"
  /\ Move(g, "dialVideo", "reading")
  /\ UNCHANGED <<platform, table, start, made, cancelled, forward, server,
                 listener, params, log, cache, viewerVars>>

\* Without a control socket the video is read all the same.
DialControl(g) ==
  /\ Move(g, "dialControl", "reading")
  /\ UNCHANGED <<platform, table, start, made, cancelled, forward, server,
                 listener, params, log, cache, viewerVars>>

\* Cancelled, timed out (video socket only), or the stream broke.
EndCapture(g) ==
  /\ \/ phase[g] \in {"dialVideo", "reading"}
     \/ phase[g] = "dialControl" /\ g \in cancelled
  /\ phase' = [phase EXCEPT ![g] = "closing"]
  /\ UNCHANGED <<platform, table, start, made, cancelled, forward, server,
                 listener, params, log, cache, viewerVars>>

\* A frame goes to the cache, which restarts at each key frame, and to every
\* channel that has room, all under clientsMu.
\* Mutant of Mux: the cache is not restarted at a key frame.
MutCacheGrows(g, k) ==
  LET n == Len(log[g]) + 1
      clients == {v \in Viewer : of[v] = g /\ st[v] \in {"cached", "live"}}
  IN
  /\ log' = [log EXCEPT ![g] = Append(@, k)]
  /\ cache' = [cache EXCEPT ![g] = Append(@, n)]
  /\ view' = [v \in Viewer |->
                IF v \in clients /\ InChannel(v) < Cap[v]
                THEN Append(view[v], n) ELSE view[v]]

Mux(g, k) ==
  LET n == Len(log[g]) + 1
      clients == {v \in Viewer : of[v] = g /\ st[v] \in {"cached", "live"}}
  IN
  /\ log' = [log EXCEPT ![g] = Append(@, k)]
  /\ cache' = [cache EXCEPT ![g] = IF k = "key" THEN <<n>>
                                   ELSE IF @ # <<>> THEN Append(@, n) ELSE @]
  /\ view' = [v \in Viewer |->
                IF v \in clients /\ InChannel(v) < Cap[v]
                THEN Append(view[v], n) ELSE view[v]]

\* readAndMux reads a frame with codec parameters, a key frame without them or a
\* delta.  Nothing is passed on before the parameters have come.
isKeyFrame(f) == f \in {"config", "idr"}

ReadFrame(g, f) ==
  /\ platform = "android"
  /\ phase[g] = "reading" /\ Len(log[g]) < MaxFrames
  /\ f = "config" \/ g \in params
  /\ params' = IF f = "config" THEN params \cup {g} ELSE params
  /\ Mux(g, IF isKeyFrame(f) THEN "key" ELSE "delta")
  /\ UNCHANGED <<platform, table, start, made, phase, cancelled, forward, server,
                 listener, st, of, base, sent, writer, hungUp>>

\* A JPEG is complete by itself.
ReadJPEG(g) ==
  /\ platform = "ios"
  /\ phase[g] = "reading" /\ Len(log[g]) < MaxFrames
  /\ params' = params
  /\ Mux(g, "key")
  /\ UNCHANGED <<platform, table, start, made, phase, cancelled, forward, server,
                 listener, st, of, base, sent, writer, hungUp>>

\* Mutant of CloseServer: the connections of the clients stay open.
MutCloseListenerOnly(g) ==
  /\ Move(g, "closing", IF platform = "ios" THEN "done" ELSE "removing")
  /\ listener' = IF listener = g THEN 0 ELSE listener
  /\ server' = server \ {g}
  /\ UNCHANGED <<platform, table, start, made, cancelled, forward, params, log,
                 cache, viewerVars>>

\* The deferred calls: httpServer.Close, which closes the connections of the
\* HTTP clients but not those handed over to WebSockets, Kill, the removal of
\* the forwarding and close(s.done).
CloseServer(g) ==
  /\ Move(g, "closing", IF platform = "ios" THEN "done" ELSE "removing")
  /\ listener' = IF listener = g THEN 0 ELSE listener
  /\ server' = server \ {g}
  /\ hungUp' = hungUp \cup {v \in Http : of[v] = g}
  /\ UNCHANGED <<platform, table, start, made, cancelled, forward, params, log,
                 cache, st, of, view, base, sent, writer>>

RemoveForward(g) ==
  /\ Move(g, "removing", "done")
  /\ ForwardRemoved
  /\ UNCHANGED <<platform, table, start, made, cancelled, server, listener, params,
                 log, cache, viewerVars>>

\* The scrcpy server exits, or is killed because its context was cancelled.
ServerExits(g) ==
  /\ g \in server /\ phase[g] # "none"
  /\ server' = server \ {g}
  /\ UNCHANGED <<platform, table, start, made, phase, cancelled, forward, listener,
                 params, log, cache, viewerVars>>

-----------------------------------------------------------------------------
(* The handlers of a viewer.                                               *)

\* The lookup under m.mu; with no capture the answer is 404.
Connect(v) ==
  /\ st[v] = "out" /\ listener # 0 /\ start = "idle"
  /\ st' = [st EXCEPT ![v] = IF table = 0 THEN "refused" ELSE "found"]
  /\ of' = [of EXCEPT ![v] = table]
  /\ UNCHANGED <<captureVars, view, base, sent, writer, hungUp>>

UpgradeFails(v) ==
  /\ v \in Ws /\ st[v] = "found"
  /\ st' = [st EXCEPT ![v] = "refused"]
  /\ UNCHANGED <<captureVars, of, view, base, sent, writer, hungUp>>

\* Mutant of Join: the client is added without the cache.
MutJoinNoCache(v) ==
  /\ st[v] = "found"
  /\ st' = [st EXCEPT ![v] = "cached"]
  /\ UNCHANGED <<captureVars, of, view, base, sent, writer, hungUp>>

\* addClientAndGetCache
Join(v) ==
  /\ st[v] = "found"
  /\ st' = [st EXCEPT ![v] = "cached"]
  /\ view' = [view EXCEPT ![v] = cache[of[v]]]
  /\ base' = [base EXCEPT ![v] = Len(cache[of[v]])]
  /\ UNCHANGED <<captureVars, of, sent, writer, hungUp>>

\* The cache is written by the handler.  The frames of the channel follow once
\* it is through, for a WebSocket by a goroutine of its own.
Write(v) ==
  /\ st[v] \in {"cached", "live"} /\ v \notin hungUp
  /\ st[v] = "cached" => sent[v] < base[v]
  /\ st[v] = "live" /\ v \in Ws => writer[v] = "on"
  /\ sent[v] < Len(view[v])
  /\ sent' = [sent EXCEPT ![v] = @ + 1]
  /\ UNCHANGED <<captureVars, st, of, view, base, writer, hungUp>>

GoLive(v) ==
  /\ st[v] = "cached" /\ sent[v] = base[v]
  /\ st' = [st EXCEPT ![v] = "live"]
  /\ writer' = IF v \in Ws THEN [writer EXCEPT ![v] = "on"] ELSE writer
  /\ UNCHANGED <<captureVars, of, view, base, sent, hungUp>>

\* A write to a closed connection fails, and one to a WebSocket that does not
\* take a frame of the channel within its deadline.  A handler that fails
\* leaves; the goroutine of a WebSocket ends and its channel stays in use.
WriteFails(v) ==
  /\ \/ /\ st[v] = "cached" /\ v \in hungUp /\ sent[v] < base[v]
        /\ st' = [st EXCEPT ![v] = "left"] /\ UNCHANGED writer
     \/ /\ v \in Http /\ st[v] = "live" /\ v \in hungUp
        /\ sent[v] < Len(view[v])
        /\ st' = [st EXCEPT ![v] = "left"] /\ UNCHANGED writer
     \/ /\ writer[v] = "on" /\ sent[v] < Len(view[v])
        /\ writer' = [writer EXCEPT ![v] = "ended"] /\ UNCHANGED st
  /\ UNCHANGED <<captureVars, of, view, base, sent, hungUp>>

\* An HTTP handler sees that its client or the capture is gone; the handler of
\* a WebSocket waits in ReadMessage and sees only its client.
Leave(v) ==
  /\ st[v] = "live"
  /\ v \in hungUp \/ (v \in Http /\ phase[of[v]] = "done")
  /\ st' = [st EXCEPT ![v] = "left"]
  /\ UNCHANGED <<captureVars, of, view, base, sent, writer, hungUp>>

WriterEnds(v) ==
  /\ writer[v] = "on" /\ phase[of[v]] = "done"
  /\ writer' = [writer EXCEPT ![v] = "ended"]
  /\ UNCHANGED <<captureVars, st, of, view, base, sent, hungUp>>

\* The client goes away.
HangUp(v) ==
  /\ st[v] \in {"found", "cached", "live"} /\ v \notin hungUp
  /\ hungUp' = hungUp \cup {v}
  /\ UNCHANGED <<captureVars, st, of, view, base, sent, writer>>

-----------------------------------------------------------------------------
CaptureStep(g) ==
  DialVideo(g) \/ DialMJPEG(g) \/ DialControl(g) \/ ReadJPEG(g)
    \/ EndCapture(g) \/ CloseServer(g) \/ RemoveForward(g)

HubNext ==
  \/ StartCapture \/ StartIOSCapture
  \/ \E ok \in BOOLEAN : Forward(ok) \/ Launch(ok)
  \/ Listen \/ ListenFails \/ StopCapture
  \/ \E g \in Capture : CaptureStep(g) \/ ServerExits(g)
  \/ \E g \in Capture, f \in {"config", "idr", "delta"} : ReadFrame(g, f)
  \/ \E v \in Viewer :
       \/ Connect(v) \/ UpgradeFails(v) \/ Join(v) \/ Write(v) \/ GoLive(v)
       \/ WriteFails(v) \/ Leave(v) \/ WriterEnds(v) \/ HangUp(v)

HubSpec == HubInit /\ [][HubNext]_hubVars

\* A cancelled context ends the dialling loops, kills the scrcpy server and
\* with it the stream that is being read; deferred calls are always made; a
\* write to a closed connection returns, and one of the goroutine of a WebSocket
\* does within two seconds.
HubFairness ==
  /\ \A g \in Capture :
       /\ WF_hubVars(g \in cancelled /\ EndCapture(g))
       /\ WF_hubVars(CloseServer(g) \/ RemoveForward(g))
  /\ \A v \in Viewer :
       /\ WF_hubVars(Join(v) \/ UpgradeFails(v) \/ GoLive(v))
       /\ WF_hubVars(v \in hungUp /\ WriteFails(v))
       /\ WF_hubVars(writer[v] = "on" /\ (Write(v) \/ WriteFails(v)))
       /\ WF_hubVars(Leave(v))
       /\ WF_hubVars(WriterEnds(v))

FairHubSpec == HubSpec /\ HubFairness

-----------------------------------------------------------------------------
HubTypeOK ==
  /\ platform \in {"android", "ios"}
  /\ table \in 0..MaxCaptures /\ made \in 0..MaxCaptures
  /\ start \in {"idle", "forward", "launch", "listen"}
  /\ phase \in [Capture -> Running \cup {"none", "closing", "removing", "done"}]
  /\ cancelled \subseteq Capture /\ server \subseteq Capture
  /\ params \subseteq Capture
  /\ forward \in 0..Left /\ listener \in 0..MaxCaptures
  /\ log \in [Capture -> Seq({"key", "delta"})]
  /\ cache \in [Capture -> Seq(Nat)]
  /\ st \in [Viewer -> {"out", "refused", "found", "cached", "live", "left"}]
  /\ of \in [Viewer -> 0..MaxCaptures]
  /\ view \in [Viewer -> Seq(Nat)]
  /\ base \in [Viewer -> Nat] /\ sent \in [Viewer -> Nat]
  /\ writer \in [Viewer -> {"off", "on", "ended"}]
  /\ hungUp \subseteq Viewer

\* The hub implements the feed.  A viewer belongs to the feed while its channel
\* is in s.clients, and to no capture in particular before it is.
Members == {v \in Viewer : st[v] \in {"cached", "live"}}
Outside == {"out", "refused", "found"}
FeedOf == [v \in Viewer |-> IF st[v] \in Outside THEN 1 ELSE of[v]]
F == INSTANCE Feed WITH of <- FeedOf, members <- Members
ImplementsFeed == F!FeedSpec

\* What every viewer is given can be decoded: it starts at a key frame of its
\* capture, in order and without repetition, although the cache is copied by
\* the handler and the channel filled by the goroutine of the capture.
ViewsDecodable == F!ViewsDecodable

\* Nothing of a capture outlives it: a port that is bound, a scrcpy server or a
\* forwarding belongs to a capture whose goroutine has still to release it or
\* to a StartCapture that has not returned, whichever step of it failed.  The
\* exception is a forwarding whose removal adb refused.
ResourcesOwned ==
  LET alive == {g \in Capture : phase[g] \in Running \cup {"closing", "removing"}}
      starting == IF start = "idle" THEN {} ELSE {made}
  IN
  /\ server \subseteq alive \cup starting
  /\ listener # 0 => listener \in alive
  /\ forward \notin {0, Left} => alive \cup starting # {}

\* Stopping a capture ends it and everything that serves it: the goroutine
\* StopCapture waits for, the HTTP handlers of its viewers and the goroutines
\* that write to WebSockets.
StopEndsAll ==
  \A v \in Viewer :
    of[v] \in cancelled
      ~> /\ of[v] # 0 /\ phase[of[v]] = "done"
         /\ v \in Http => st[v] \in {"refused", "left"}
         /\ v \in Ws => writer[v] # "on"

\* Not held.  The capture in the table has its forwarding: a capture that was
\* stopped removes it when the next one has set it up already.
ForwardHeld ==
  platform = "android" /\ table # 0 /\ phase[table] \in Running => forward # 0

\* Not held.  The handlers of WebSockets end with their capture: they wait in
\* ReadMessage, and httpServer.Close leaves their connections alone.
SocketsEnd ==
  \A v \in Ws : st[v] = "live" /\ phase[of[v]] = "done" ~> st[v] = "left"

\* Not held.  No viewer gets a delta whose predecessor it has missed.
NoSilentGap ==
  \A v \in Viewer : \A i \in 2..Len(view[v]) :
    log[of[v]][view[v][i]] = "delta" => view[v][i - 1] = view[v][i] - 1
=============================================================================
