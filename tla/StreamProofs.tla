---------------------------- MODULE StreamProofs ----------------------------
(***************************************************************************)
(* The three parts of the stream manager, each for any number of captures, *)
(* frames, viewers, senders and events and any capacity of the channels.   *)
(* StreamHub implements Feed, what it gives a viewer can be decoded, and   *)
(* what a capture has set up is taken down; the input of an Android device *)
(* arrives in order (ControlPath), that of an iOS device faithfully        *)
(* (IosTouch).                                                             *)
(***************************************************************************)
EXTENDS StreamHub, ControlPath, IosTouch, TLAPS

Kind == {"key", "delta"}
Standing == {"out", "refused", "found", "cached", "live", "left"}

\* The frames from number k to number n.
FromTo(k, n) == [i \in 1..(n - k + 1) |-> k + i - 1]

\* c holds the frames of l from its last key frame on.
Restarted(c, l) ==
  \E k \in 1..Len(l) :
    /\ l[k] = "key"
    /\ \A j \in 1..Len(l) : j > k => l[j] # "key"
    /\ c = FromTo(k, Len(l))

\* gopCache, as Feed defines it; before the first frame, which is a key frame
\* because nothing passes before the parameters, it is empty.
CacheKept ==
  \A g \in Capture :
    IF log[g] = <<>> THEN cache[g] = <<>> /\ g \notin params
    ELSE Restarted(cache[g], log[g])

Decodable(w, l) ==
  /\ \A i \in 1..Len(w) : w[i] \in 1..Len(l)
  /\ \A i \in 1..(Len(w) - 1) : w[i] < w[i + 1]
  /\ w # <<>> => l[w[1]] = "key"

\* A viewer is given nothing before it is added; one that has been added and has
\* got nothing yet is a viewer of a capture without any frame.
ViewerKept(v) ==
  /\ st[v] \in Outside => view[v] = <<>> /\ sent[v] = 0 /\ base[v] = 0
  /\ st[v] \notin {"out", "refused"} => of[v] \in Capture
  /\ sent[v] <= Len(view[v]) /\ base[v] <= Len(view[v])
  /\ st[v] \in {"cached", "live"} /\ view[v] = <<>> => log[of[v]] = <<>>
  /\ st[v] \notin Outside => Decodable(view[v], log[of[v]])

\* A StartCapture that is under way has a capture.
StartMade == start # "idle" => made # 0

HubInv == HubTypeOK /\ StartMade /\ CacheKept /\ \A v \in Viewer : ViewerKept(v)

-----------------------------------------------------------------------------
(* Sequences of frames.                                                    *)

LEMMA FromToSeq ==
  ASSUME NEW k \in Nat \ {0}, NEW n \in Nat, k <= n
  PROVE  /\ FromTo(k, n) \in Seq(Nat)
         /\ Len(FromTo(k, n)) = n - k + 1
         /\ \A i \in 1..(n - k + 1) : FromTo(k, n)[i] = k + i - 1
  BY DEF FromTo

LEMMA FromToAppend ==
  ASSUME NEW k \in Nat \ {0}, NEW n \in Nat, k <= n
  PROVE  Append(FromTo(k, n), n + 1) = FromTo(k, n + 1)
  BY FromToSeq DEF FromTo

\* What readAndMux does to the cache restarts it at a key frame.
LEMMA CacheRestarts ==
  ASSUME NEW l \in Seq(Kind), NEW c \in Seq(Nat), NEW f \in Kind,
         IF l = <<>> THEN c = <<>> /\ f = "key" ELSE Restarted(c, l)
  PROVE  Restarted(IF f = "key" THEN <<Len(l) + 1>>
                   ELSE IF c # <<>> THEN Append(c, Len(l) + 1) ELSE c,
                   Append(l, f))
<1> DEFINE n == Len(l)  m == Append(l, f)
<1>1. /\ n \in Nat /\ m \in Seq(Kind) /\ Len(m) = n + 1 /\ m[n + 1] = f
      /\ \A i \in 1..n : m[i] = l[i]
  OBVIOUS
<1>2. CASE f = "key"
  <2>1. FromTo(n + 1, n + 1) = <<n + 1>>
    BY <1>1 DEF FromTo
  <2> QED BY <1>1, <1>2, <2>1 DEF Restarted
<1>3. CASE f = "delta"
  <2>1. PICK k \in 1..n : /\ l[k] = "key"
                          /\ \A j \in 1..n : j > k => l[j] # "key"
                          /\ c = FromTo(k, n)
    BY <1>3 DEF Restarted, Kind
  <2>2. c # <<>> /\ Append(c, n + 1) = FromTo(k, n + 1)
    <3>1. n \in Nat /\ k \in Nat \ {0} /\ k <= n
      BY <1>1
    <3>2. Len(c) = n - k + 1 /\ Append(FromTo(k, n), n + 1) = FromTo(k, n + 1)
      BY <2>1, <3>1, FromToSeq, FromToAppend
    <3> QED BY <2>1, <3>1, <3>2
  <2>3. k \in 1..(n + 1) /\ m[k] = "key" /\ \A j \in 1..(n + 1) : j > k => m[j] # "key"
    BY <1>1, <1>3, <2>1
  <2> QED BY <1>1, <1>3, <2>2, <2>3 DEF Restarted
<1> QED BY <1>2, <1>3 DEF Kind

\* Feed's definition of the same thing.
LEMMA RestartedIsGop ==
  ASSUME NEW l \in Seq(Kind), NEW c, Restarted(c, l)
  PROVE  c = F!Gop(l)
<1>1. PICK k \in 1..Len(l) : /\ l[k] = "key"
                             /\ \A j \in 1..Len(l) : j > k => l[j] # "key"
                             /\ c = FromTo(k, Len(l))
  BY DEF Restarted
<1>2. k \in F!Keys(l) /\ \A j \in F!Keys(l) : j <= k
  BY <1>1 DEF F!Keys
<1>3. F!LastKey(l) \in F!Keys(l) /\ \A j \in F!Keys(l) : j <= F!LastKey(l)
  BY <1>2 DEF F!LastKey
<1>4. F!LastKey(l) = k
  BY <1>2, <1>3 DEF F!Keys
<1> QED BY <1>1, <1>2, <1>4 DEF F!Gop, FromTo

LEMMA CacheDecodable ==
  ASSUME NEW l \in Seq(Kind), NEW c, Restarted(c, l)
  PROVE  c \in Seq(Nat) /\ c # <<>> /\ Decodable(c, l)
<1>1. PICK k \in 1..Len(l) : l[k] = "key" /\ c = FromTo(k, Len(l))
  BY DEF Restarted
<1>2. Len(l) \in Nat /\ k \in Nat \ {0} /\ k <= Len(l)
  OBVIOUS
<1>3. /\ c \in Seq(Nat) /\ Len(c) = Len(l) - k + 1
      /\ \A i \in 1..(Len(l) - k + 1) : c[i] = k + i - 1
  BY <1>1, <1>2, FromToSeq
<1> QED BY <1>1, <1>2, <1>3 DEF Decodable

\* A frame that follows, put in the channel or passed over.
LEMMA FollowDecodable ==
  ASSUME NEW l \in Seq(Kind), NEW w \in Seq(Nat), NEW f \in Kind, Decodable(w, l)
  PROVE  /\ Decodable(w, Append(l, f))
         /\ (w = <<>> => f = "key" /\ l = <<>>)
              => Decodable(Append(w, Len(l) + 1), Append(l, f))
<1> DEFINE n == Len(l)  m == Append(l, f)  x == Append(w, n + 1)
<1>1. /\ n \in Nat /\ Len(m) = n + 1 /\ m[n + 1] = f
      /\ \A i \in 1..n : m[i] = l[i]
  OBVIOUS
<1>2. Decodable(w, m)
  BY <1>1 DEF Decodable
<1>3. ASSUME w = <<>> => f = "key" /\ l = <<>>
      PROVE  Decodable(x, m)
  <2>1. /\ Len(w) \in Nat /\ Len(x) = Len(w) + 1 /\ x[Len(w) + 1] = n + 1
        /\ \A i \in 1..Len(w) : x[i] = w[i]
    BY <1>1
  <2>2. \A i \in 1..Len(x) : x[i] \in 1..Len(m)
    BY <1>1, <2>1 DEF Decodable
  <2>3. \A i \in 1..(Len(x) - 1) : x[i] < x[i + 1]
    BY <1>1, <2>1 DEF Decodable
  <2>4. m[x[1]] = "key"
    BY <1>1, <1>3, <2>1 DEF Decodable
  <2> QED BY <2>2, <2>3, <2>4 DEF Decodable
<1> QED BY <1>2, <1>3

-----------------------------------------------------------------------------
LEMMA HubInitInv == HubInit => HubInv
<1> SUFFICES ASSUME HubInit PROVE HubInv
  OBVIOUS
<1>1. HubTypeOK
  BY HubAssumption DEF HubInit, HubTypeOK, Capture, Running, Left
<1>2. StartMade /\ CacheKept
  BY DEF HubInit, StartMade, CacheKept
<1>3. \A v \in Viewer : ViewerKept(v)
  BY DEF HubInit, ViewerKept, Outside
<1> QED BY <1>1, <1>2, <1>3 DEF HubInv

\* StartCapture, StopCapture and the steps of a capture's goroutine that read no
\* frame.
LEMMA QuietStep ==
  ASSUME HubInv,
         \/ StartCapture \/ StartIOSCapture \/ Listen \/ ListenFails \/ StopCapture
         \/ \E ok \in BOOLEAN : Forward(ok) \/ Launch(ok)
         \/ \E g \in Capture :
              \/ DialVideo(g) \/ DialMJPEG(g) \/ DialControl(g) \/ EndCapture(g)
              \/ CloseServer(g) \/ RemoveForward(g) \/ ServerExits(g)
  PROVE  HubInv' /\ UNCHANGED <<log, cache, params, st, of, view, base, sent>>
<1> USE DEF HubInv
<1>1. UNCHANGED <<log, cache, params, st, of, view, base, sent>>
  BY DEF StartCapture, StartIOSCapture, Begin, Listen, ListenFails, StopCapture, Forward,
         Launch, DialVideo, DialMJPEG, DialControl, EndCapture, CloseServer,
         RemoveForward, ServerExits, viewerVars
<1>2. HubTypeOK' /\ StartMade'
  <2> USE HubAssumption DEF HubTypeOK, StartMade, viewerVars, Move
  <2>0. \A i \in Nat : i \in Capture <=> i # 0 /\ i \in 0..MaxCaptures
    BY DEF Capture
  <2>9. 0 \in 0..Left /\ Left \in 0..Left /\ \A g \in Capture : g \in 0..Left
    BY DEF Capture, Left
  <2>10. ForwardRemoved => forward' \in 0..Left
    BY <2>9 DEF ForwardRemoved
  <2>1. CASE StartCapture \/ StartIOSCapture
    <3>1. made + 1 \in 0..MaxCaptures /\ made + 1 # 0
      BY <2>1 DEF StartCapture, StartIOSCapture, Begin
    <3> QED BY <2>1, <3>1 DEF StartCapture, StartIOSCapture, Begin
  <2>2. CASE Listen
    BY <2>2 DEF Listen, Running
  <2>3. CASE ListenFails
    <3>1. made \in Capture
      BY <2>0, <2>3 DEF ListenFails
    <3> QED BY <2>3, <2>10, <3>1 DEF ListenFails
  <2>4. CASE StopCapture
    <3>1. table \in Capture
      BY <2>0, <2>4 DEF StopCapture
    <3> QED BY <2>4, <3>1 DEF StopCapture
  <2>5. CASE \E ok \in BOOLEAN : Forward(ok) \/ Launch(ok)
    <3>1. made \in Capture
      BY <2>0, <2>5 DEF Forward, Launch
    <3>2. PICK ok \in BOOLEAN : Forward(ok) \/ Launch(ok)
      BY <2>5
    <3>3. CASE Forward(ok)
      BY <2>9, <3>1, <3>3 DEF Forward
    <3>4. CASE Launch(ok)
      BY <2>10, <3>1, <3>4 DEF Launch
    <3> QED BY <3>2, <3>3, <3>4
  <2>6. CASE \E g \in Capture :
               DialVideo(g) \/ DialMJPEG(g) \/ DialControl(g) \/ EndCapture(g)
    BY <2>6 DEF DialVideo, DialMJPEG, DialControl, EndCapture, Running
  <2>7. CASE \E g \in Capture : CloseServer(g)
    BY <2>7 DEF CloseServer, Viewer, Running
  <2>8. CASE \E g \in Capture : RemoveForward(g) \/ ServerExits(g)
    BY <2>8, <2>10 DEF RemoveForward, ServerExits, Running
  <2> QED BY <2>1, <2>2, <2>3, <2>4, <2>5, <2>6, <2>7, <2>8
<1>3. CacheKept' /\ \A v \in Viewer : ViewerKept(v)'
  BY <1>1 DEF CacheKept, ViewerKept
<1> QED BY <1>1, <1>2, <1>3

\* The handler of a viewer, after it has been added.
LEMMA ServeStep ==
  ASSUME HubInv, NEW v \in Viewer,
         \/ Connect(v) \/ UpgradeFails(v) \/ Write(v) \/ GoLive(v)
         \/ WriteFails(v) \/ Leave(v) \/ WriterEnds(v) \/ HangUp(v)
  PROVE  HubInv'
<1> USE DEF HubInv
<1>1. UNCHANGED captureVars /\ UNCHANGED <<view, base>>
  BY DEF Connect, UpgradeFails, Write, GoLive, WriteFails, Leave, WriterEnds, HangUp
<1>2. HubTypeOK'
  <2> USE <1>1, HubAssumption DEF HubTypeOK, captureVars
  <2>1. CASE Connect(v) \/ UpgradeFails(v)
    <3>1. (st \in [Viewer -> {"out", "refused", "found", "cached", "live", "left"}])'
      BY <2>1 DEF Connect, UpgradeFails
    <3>2. (of \in [Viewer -> 0..MaxCaptures])'
      BY <2>1 DEF Connect, UpgradeFails
    <3> QED BY <2>1, <3>1, <3>2 DEF Connect, UpgradeFails
  <2>2. CASE Write(v)
    BY <2>2 DEF Write
  <2>3. CASE GoLive(v) \/ WriterEnds(v)
    BY <2>3 DEF GoLive, WriterEnds
  <2>4. CASE WriteFails(v)
    BY <2>4 DEF WriteFails
  <2>5. CASE Leave(v) \/ HangUp(v)
    BY <2>5 DEF Leave, HangUp
  <2> QED BY <2>1, <2>2, <2>3, <2>4, <2>5
<1>3. StartMade' /\ CacheKept'
  BY <1>1 DEF StartMade, CacheKept, captureVars
<1>4. ASSUME NEW w \in Viewer PROVE ViewerKept(w)'
  <2> USE <1>1 DEF captureVars
  <2>1. ViewerKept(w)
    OBVIOUS
  <2>2. CASE w # v
    BY <2>1, <2>2 DEF ViewerKept, HubTypeOK, Connect, UpgradeFails, Write, GoLive,
                      WriteFails, Leave, WriterEnds, HangUp
  <2>3. CASE w = v
    <3> USE <2>1, <2>3 DEF ViewerKept, HubTypeOK, Outside
    <3>1. CASE Connect(v)
      BY <3>1 DEF Connect, Capture
    <3>2. CASE UpgradeFails(v) \/ Leave(v) \/ WriterEnds(v) \/ HangUp(v)
      BY <3>2 DEF UpgradeFails, Leave, WriterEnds, HangUp
    <3>3. CASE Write(v)
      BY <3>3 DEF Write
    <3>4. CASE GoLive(v) \/ WriteFails(v)
      BY <3>4 DEF GoLive, WriteFails
    <3> QED BY <3>1, <3>2, <3>3, <3>4
  <2> QED BY <2>2, <2>3
<1> QED BY <1>2, <1>3, <1>4

\* addClientAndGetCache: under clientsMu the cache and the channel fit together.
LEMMA JoinStep ==
  ASSUME HubInv, NEW v \in Viewer, Join(v)
  PROVE  HubInv'
<1> USE DEF HubInv
<1> DEFINE g == of[v]
<1>1. /\ g \in Capture /\ log[g] \in Seq(Kind) /\ cache[g] \in Seq(Nat)
      /\ view[v] = <<>> /\ sent[v] = 0 /\ v \in DOMAIN view
  BY DEF Join, ViewerKept, Outside, HubTypeOK, Kind
<1>2. HubTypeOK'
  BY <1>1 DEF Join, HubTypeOK, captureVars
<1>3. StartMade' /\ CacheKept'
  BY DEF Join, StartMade, CacheKept, captureVars
<1>4. Decodable(cache[g], log[g]) /\ (cache[g] = <<>> => log[g] = <<>>)
  <2>1. CASE log[g] = <<>>
    BY <1>1, <2>1 DEF CacheKept, Decodable
  <2>2. CASE log[g] # <<>>
    BY <1>1, <2>2, CacheDecodable DEF CacheKept
  <2> QED BY <2>1, <2>2
<1>5. ASSUME NEW w \in Viewer PROVE ViewerKept(w)'
  <2>1. ViewerKept(w)
    OBVIOUS
  <2>2. CASE w # v
    BY <2>1, <2>2 DEF ViewerKept, HubTypeOK, Join, captureVars
  <2>3. CASE w = v
    <3>1. /\ st'[v] = "cached" /\ view'[v] = cache[g] /\ base'[v] = Len(cache[g])
          /\ sent'[v] = 0 /\ of'[v] = g /\ log' = log
      BY <1>1 DEF Join, HubTypeOK, captureVars
    <3> QED BY <1>1, <1>4, <2>3, <3>1 DEF ViewerKept, Outside
  <2> QED BY <2>2, <2>3
<1> QED BY <1>2, <1>3, <1>5

\* readAndMux: the first frame is a key frame, and a viewer without a frame has
\* room for it in its channel.
LEMMA MuxStep ==
  ASSUME HubInv, NEW g \in Capture, NEW k \in Kind, Mux(g, k),
         log[g] = <<>> => k = "key",
         params' \subseteq Capture,
         \A h \in Capture \ {g} : h \in params' => h \in params,
         UNCHANGED <<platform, table, start, made, phase, cancelled, forward, server,
                     listener, st, of, base, sent, writer, hungUp>>
  PROVE  HubInv'
<1> USE DEF HubInv
<1>1. /\ log[g] \in Seq(Kind) /\ cache[g] \in Seq(Nat) /\ Len(log[g]) \in Nat
      /\ log'[g] = Append(log[g], k) /\ log'[g] # <<>>
      /\ \A h \in Capture \ {g} : log'[h] = log[h] /\ cache'[h] = cache[h]
  <2>1. log[g] \in Seq(Kind) /\ cache[g] \in Seq(Nat) /\ Len(log[g]) \in Nat
    BY DEF HubTypeOK, Kind
  <2>2. /\ log'[g] = Append(log[g], k)
        /\ \A h \in Capture \ {g} : log'[h] = log[h] /\ cache'[h] = cache[h]
    BY DEF HubTypeOK, Mux
  <2>3. Len(Append(log[g], k)) = Len(log[g]) + 1
    BY <2>1
  <2> QED BY <2>1, <2>2, <2>3
<1>2. ASSUME NEW v \in Viewer
      PROVE  /\ view'[v] \in {view[v], Append(view[v], Len(log[g]) + 1)}
             /\ view'[v] # view[v] => of[v] = g /\ st[v] \in {"cached", "live"}
             /\ of[v] = g /\ st[v] \in {"cached", "live"} /\ view[v] = <<>>
                  => view'[v] # <<>>
  <2>1. view[v] \in Seq(Nat) /\ ViewerKept(v) /\ base[v] \in Nat /\ sent[v] \in Nat
    BY DEF HubTypeOK
  <2>2. Cap[v] \in Nat \ {0}
    BY HubAssumption DEF Cap
  <2>3. view[v] = <<>> => InChannel(v) < Cap[v]
    BY <2>1, <2>2 DEF InChannel, Max2, ViewerKept
  <2> QED BY <2>1, <2>3 DEF Mux
<1>3. HubTypeOK'
  <2>1. (log \in [Capture -> Seq({"key", "delta"})])'
    BY <1>1 DEF Mux, HubTypeOK, Kind
  <2>2. (cache \in [Capture -> Seq(Nat)])'
    BY <1>1 DEF Mux, HubTypeOK
  <2>3. ASSUME NEW v \in Viewer PROVE view'[v] \in Seq(Nat)
    <3>1. view[v] \in Seq(Nat) /\ Len(log[g]) + 1 \in Nat
      BY <1>1 DEF HubTypeOK
    <3>2. Append(view[v], Len(log[g]) + 1) \in Seq(Nat)
      BY <3>1
    <3> QED BY <1>2, <3>1, <3>2
  <2>4. (view \in [Viewer -> Seq(Nat)])'
    BY <2>3 DEF Mux
  <2> QED BY <2>1, <2>2, <2>4 DEF HubTypeOK
<1>4. CacheKept'
  <2>1. Restarted(cache'[g], log'[g])
    <3>1. cache'[g] = IF k = "key" THEN <<Len(log[g]) + 1>>
                      ELSE IF cache[g] # <<>> THEN Append(cache[g], Len(log[g]) + 1)
                           ELSE cache[g]
      BY DEF Mux, HubTypeOK
    <3>2. IF log[g] = <<>> THEN cache[g] = <<>> /\ k = "key"
          ELSE Restarted(cache[g], log[g])
      BY DEF CacheKept
    <3> QED BY <1>1, <3>1, <3>2, CacheRestarts
  <2> QED BY <1>1, <2>1 DEF CacheKept
<1>5. ASSUME NEW v \in Viewer PROVE ViewerKept(v)'
  <2>1. ViewerKept(v) /\ view[v] \in Seq(Nat) /\ sent[v] \in Nat /\ base[v] \in Nat
    BY DEF HubTypeOK
  <2>2. CASE st[v] \in Outside \/ of[v] # g
    <3>1. view'[v] = view[v] /\ (st[v] \notin Outside => log'[of[v]] = log[of[v]])
      BY <1>1, <1>2, <2>1, <2>2 DEF ViewerKept, Outside
    <3> QED BY <2>1, <3>1 DEF ViewerKept, Outside
  <2>3. CASE st[v] \notin Outside /\ of[v] = g
    <3>1. Decodable(view'[v], log'[g])
      <4>1. view[v] = <<>> /\ view'[v] # view[v] => log[g] = <<>> /\ k = "key"
        BY <1>2, <2>1, <2>3 DEF ViewerKept
      <4>2. Decodable(view[v], log[g])
        BY <2>1, <2>3 DEF ViewerKept
      <4>3. CASE view'[v] = view[v]
        BY <1>1, <2>1, <4>2, <4>3, FollowDecodable
      <4>4. CASE view'[v] # view[v]
        <5>1. view'[v] = Append(view[v], Len(log[g]) + 1)
          BY <1>2, <4>4
        <5> QED BY <1>1, <2>1, <4>1, <4>2, <4>4, <5>1, FollowDecodable
      <4> QED BY <4>3, <4>4
    <3>2. Len(view'[v]) >= Len(view[v])
      BY <1>2, <2>1
    <3>3. st[v] \in {"cached", "live"} => view'[v] # <<>>
      BY <1>2, <2>1, <2>3
    <3> QED BY <2>1, <2>3, <3>1, <3>2, <3>3 DEF ViewerKept, Outside
  <2> QED BY <2>2, <2>3
<1> QED BY <1>3, <1>4, <1>5 DEF StartMade

LEMMA ReadStep ==
  ASSUME HubInv, NEW g \in Capture, NEW f \in {"config", "idr", "delta"},
         ReadFrame(g, f) \/ ReadJPEG(g)
  PROVE  /\ HubInv'
         /\ \E k \in Kind : Mux(g, k) /\ (log[g] = <<>> => k = "key")
         /\ UNCHANGED <<st, of, base, sent>>
<1>1. CASE ReadFrame(g, f)
  <2> DEFINE k == IF isKeyFrame(f) THEN "key" ELSE "delta"
  <2>1. k \in Kind /\ (log[g] = <<>> => k = "key")
    BY <1>1 DEF ReadFrame, HubInv, CacheKept, Kind, isKeyFrame
  <2>2. params' \subseteq Capture /\ \A h \in Capture \ {g} : h \in params' => h \in params
    BY <1>1 DEF ReadFrame, HubInv, HubTypeOK
  <2>3. /\ Mux(g, k)
        /\ UNCHANGED <<platform, table, start, made, phase, cancelled, forward, server,
                       listener, st, of, base, sent, writer, hungUp>>
    BY <1>1 DEF ReadFrame
  <2> HIDE DEF k
  <2>4. HubInv'
    BY <2>1, <2>2, <2>3, MuxStep
  <2> QED BY <2>1, <2>3, <2>4
<1>2. CASE ReadJPEG(g)
  <2>1. /\ Mux(g, "key") /\ params' = params
        /\ UNCHANGED <<platform, table, start, made, phase, cancelled, forward, server,
                       listener, st, of, base, sent, writer, hungUp>>
    BY <1>2 DEF ReadJPEG
  <2>2. "key" \in Kind /\ params' \subseteq Capture
    BY <2>1 DEF Kind, HubInv, HubTypeOK
  <2>3. HubInv'
    BY <2>1, <2>2, MuxStep
  <2> QED BY <2>1, <2>2, <2>3
<1> QED BY <1>1, <1>2

LEMMA HubStep == HubInv /\ [HubNext]_hubVars => HubInv'
<1> SUFFICES ASSUME HubInv, [HubNext]_hubVars PROVE HubInv'
  OBVIOUS
<1>1. CASE UNCHANGED hubVars
  BY <1>1 DEF hubVars, captureVars, viewerVars, HubInv, HubTypeOK, StartMade, CacheKept,
              ViewerKept
<1>2. CASE HubNext
  <2>1. ASSUME NEW g \in Capture, ReadJPEG(g) PROVE HubInv'
    BY <2>1, ReadStep
  <2> QED BY <1>2, <2>1, QuietStep, ReadStep, ServeStep, JoinStep DEF HubNext, CaptureStep
<1> QED BY <1>1, <1>2

LEMMA HubInvariant == HubSpec => []HubInv
  BY HubInitInv, HubStep, PTL DEF HubSpec

\* Whatever a viewer is given begins at a key frame of its capture, in order and
\* without repetition, for any number of viewers and any capacity of a channel.
THEOREM HubViewsDecodable == HubSpec => []ViewsDecodable
<1>1. HubInv => ViewsDecodable
  <2> SUFFICES ASSUME HubInv, NEW v \in Viewer
               PROVE  Decodable(view[v], log[FeedOf[v]])
    BY DEF ViewsDecodable, F!ViewsDecodable, Decodable
  <2>1. ViewerKept(v)
    BY DEF HubInv
  <2>2. CASE st[v] \in Outside
    BY <2>1, <2>2 DEF ViewerKept, Decodable
  <2>3. CASE st[v] \notin Outside
    BY <2>1, <2>3 DEF ViewerKept, FeedOf
  <2> QED BY <2>2, <2>3
<1> QED BY <1>1, HubInvariant, PTL

-----------------------------------------------------------------------------
(* Every step of the hub is one of the feed, or none.                      *)

\* Nothing the feed can see.
LEMMA UnseenStep ==
  ASSUME log' = log, view' = view, sent' = sent, FeedOf' = FeedOf, Members' = Members
  PROVE  UNCHANGED F!feedVars
  BY DEF F!feedVars

\* A frame: the viewers it passes over have their channel full.
LEMMA PublishStep ==
  ASSUME HubInv, NEW g \in Capture, NEW k \in Kind, Mux(g, k),
         log[g] = <<>> => k = "key",
         UNCHANGED <<st, of, base, sent>>
  PROVE  F!FeedPublish(g, k)
<1> DEFINE full == {v \in Members : FeedOf[v] = g /\ ~(InChannel(v) < Cap[v])}
<1>1. FeedOf' = FeedOf /\ Members' = Members
  BY DEF FeedOf, Members
<1>2. \A v \in Members : v \in Viewer /\ FeedOf[v] = of[v] /\ st[v] \in {"cached", "live"}
  BY DEF Members, FeedOf, Outside
<1>3. ASSUME NEW v \in full PROVE Len(view[v]) - sent[v] >= Cap[v]
  <2>1. view[v] \in Seq(Nat) /\ sent[v] \in Nat /\ base[v] \in Nat /\ Cap[v] \in Nat
    BY <1>2, HubAssumption DEF HubInv, HubTypeOK, Cap
  <2> QED BY <2>1 DEF InChannel, Max2
<1>4. view' = [v \in Viewer |-> IF v \in Members \ full /\ FeedOf[v] = g
                                THEN Append(view[v], Len(log[g]) + 1) ELSE view[v]]
  <2>1. \A v \in Viewer :
          (v \in Members \ full /\ FeedOf[v] = g)
            <=> (of[v] = g /\ st[v] \in {"cached", "live"} /\ InChannel(v) < Cap[v])
    BY <1>2 DEF Members
  <2> HIDE DEF full
  <2> QED BY <2>1 DEF Mux
<1>5. full \in SUBSET {v \in Members : FeedOf[v] = g}
  OBVIOUS
<1>6. log' = [log EXCEPT ![g] = Append(@, k)]
  BY DEF Mux
<1> HIDE DEF full
<1> QED BY <1>1, <1>3, <1>4, <1>5, <1>6 DEF F!FeedPublish

LEMMA FeedSimulates ==
  ASSUME HubInv, [HubNext]_hubVars
  PROVE  [F!FeedNext]_(F!feedVars)
<1>1. CASE UNCHANGED hubVars
  BY <1>1, UnseenStep DEF hubVars, captureVars, viewerVars, FeedOf, Members
<1>2. CASE \/ StartCapture \/ StartIOSCapture \/ Listen \/ ListenFails \/ StopCapture
           \/ \E ok \in BOOLEAN : Forward(ok) \/ Launch(ok)
           \/ \E g \in Capture :
                \/ DialVideo(g) \/ DialMJPEG(g) \/ DialControl(g) \/ EndCapture(g)
                \/ CloseServer(g) \/ RemoveForward(g) \/ ServerExits(g)
  <2>1. UNCHANGED <<log, st, of, view, sent>>
    BY <1>2, QuietStep
  <2> QED BY <2>1, UnseenStep DEF FeedOf, Members
<1>3. ASSUME NEW g \in Capture, NEW f \in {"config", "idr", "delta"},
             ReadFrame(g, f) \/ ReadJPEG(g)
      PROVE  F!FeedNext
  <2>1. PICK k \in Kind : Mux(g, k) /\ (log[g] = <<>> => k = "key")
    BY <1>3, ReadStep
  <2>2. UNCHANGED <<st, of, base, sent>>
    BY <1>3, ReadStep
  <2>3. F!FeedPublish(g, k)
    BY <2>1, <2>2, PublishStep
  <2> QED BY <2>3 DEF F!FeedNext, F!Frame, Kind
<1>4. ASSUME NEW v \in Viewer, Join(v) PROVE F!FeedNext
  <2> DEFINE g == of[v]
  <2>1. ViewerKept(v) /\ g \in Capture /\ log[g] \in Seq(Kind)
    BY <1>4 DEF HubInv, HubTypeOK, ViewerKept, Join, Kind
  <2>2. cache[g] = F!Gop(log[g])
    <3>1. CASE log[g] = <<>>
      BY <2>1, <3>1 DEF HubInv, CacheKept, F!Gop, F!Keys
    <3>2. CASE log[g] # <<>>
      BY <2>1, <3>2, RestartedIsGop DEF HubInv, CacheKept
    <3> QED BY <3>1, <3>2
  <2>3. view[v] = <<>> /\ sent[v] = 0 /\ v \notin Members
    BY <1>4, <2>1 DEF ViewerKept, Join, Outside, Members
  <2>4. st' = [st EXCEPT ![v] = "cached"] /\ of' = of /\ st \in [Viewer -> Standing]
    BY <1>4 DEF Join, HubInv, HubTypeOK, Standing
  <2>5. Members' = Members \cup {v}
    BY <2>4 DEF Members
  <2>6. FeedOf' = [FeedOf EXCEPT ![v] = g]
    BY <2>4 DEF FeedOf, Outside
  <2>7. F!FeedJoin(v, g)
    BY <1>4, <2>2, <2>3, <2>5, <2>6 DEF F!FeedJoin, Join, captureVars
  <2> QED BY <2>1, <2>7 DEF F!FeedNext
<1>5. ASSUME NEW v \in Viewer, Write(v) PROVE F!FeedNext
  <2>1. F!FeedWrite(v)
    BY <1>5 DEF Write, captureVars, F!FeedWrite, FeedOf, Members
  <2> QED BY <2>1 DEF F!FeedNext
<1>6. ASSUME NEW v \in Viewer,
             Connect(v) \/ UpgradeFails(v) \/ GoLive(v) \/ WriterEnds(v) \/ HangUp(v)
      PROVE  UNCHANGED F!feedVars
  <2>1. log' = log /\ view' = view /\ sent' = sent
    BY <1>6 DEF Connect, UpgradeFails, GoLive, WriterEnds, HangUp, captureVars
  <2>2. st \in [Viewer -> Standing] /\ of \in [Viewer -> Nat]
    BY HubAssumption DEF HubInv, HubTypeOK, Standing
  <2>3. \A w \in Viewer : /\ st'[w] \in Outside <=> st[w] \in Outside
                          /\ st[w] \notin Outside => of'[w] = of[w]
                          /\ st'[w] \in {"cached", "live"} <=> st[w] \in {"cached", "live"}
    BY <1>6, <2>2 DEF Connect, UpgradeFails, GoLive, WriterEnds, HangUp, Outside
  <2>4. FeedOf' = FeedOf /\ Members' = Members
    BY <2>3 DEF FeedOf, Members
  <2> QED BY <2>1, <2>4, UnseenStep
<1>7. ASSUME NEW v \in Viewer, WriteFails(v) \/ Leave(v)
      PROVE  [F!FeedNext]_(F!feedVars)
  <2>1. log' = log /\ view' = view /\ sent' = sent /\ of' = of
    BY <1>7 DEF WriteFails, Leave, captureVars
  <2>2. st \in [Viewer -> Standing]
    BY DEF HubInv, HubTypeOK, Standing
  <2>3. CASE st' = st
    BY <2>1, <2>3, UnseenStep DEF FeedOf, Members
  <2>4. CASE st' # st
    <3>1. st[v] \in {"cached", "live"} /\ st' = [st EXCEPT ![v] = "left"]
      BY <1>7, <2>4 DEF WriteFails, Leave
    <3>2. v \in Members /\ Members' = Members \ {v} /\ FeedOf' = FeedOf
      BY <2>1, <2>2, <3>1 DEF Members, FeedOf, Outside
    <3>3. F!FeedLeave(v)
      BY <2>1, <3>2 DEF F!FeedLeave
    <3> QED BY <3>3 DEF F!FeedNext
  <2> QED BY <2>3, <2>4
<1>8. ASSUME NEW g \in Capture, ReadJPEG(g) PROVE F!FeedNext
  BY <1>3, <1>8
<1> QED BY <1>1, <1>2, <1>3, <1>4, <1>5, <1>6, <1>7, <1>8 DEF HubNext, CaptureStep

\* The stream manager keeps the promise of Feed: the copied cache and the
\* channel of a viewer make up the frames from the last key frame on, and one is
\* missed only when Cap of them are waiting.
THEOREM HubImplementsFeed == HubSpec => ImplementsFeed
<1>1. HubInit => F!FeedInit
  BY HubAssumption DEF HubInit, F!FeedInit, FeedOf, Members, Outside, Capture
<1>2. HubInv /\ [HubNext]_hubVars => [F!FeedNext]_(F!feedVars)
  BY FeedSimulates
<1> QED BY <1>1, <1>2, HubInvariant, PTL DEF HubSpec, ImplementsFeed, F!FeedSpec

-----------------------------------------------------------------------------
(* What a capture holds on the machine.                                    *)

Held == Running \cup {"closing"}
Alive(g) == phase[g] \in Held \cup {"removing"}

\* The deferred calls release the port and the server before the forwarding.  A
\* forwarding that is left while StartCapture sets up its own is that of a capture
\* which will remove it.
Owned ==
  /\ \A g \in server : phase[g] \in Held \/ (g = made /\ start = "listen")
  /\ listener # 0 => phase[listener] \in Held
  /\ forward \notin {0, Left} => start \in {"launch", "listen"} \/ \E g \in Capture : Alive(g)
  /\ platform = "ios" => forward = 0 /\ start \notin {"forward", "launch"}

\* One goroutine moves on, and no capture it leaves behind holds anything.
LEMMA GoroutineOwned ==
  ASSUME HubInv, Owned, NEW g \in Capture,
         \/ DialVideo(g) \/ DialMJPEG(g) \/ DialControl(g) \/ EndCapture(g)
         \/ CloseServer(g) \/ RemoveForward(g) \/ ServerExits(g)
  PROVE  Owned'
<1> USE DEF HubInv, HubTypeOK, Owned, Alive, Held, Running
<1>0. g \in Nat /\ g # 0 /\ \A h \in server : h \in Capture
  BY HubAssumption DEF Capture
<1>1. listener # 0 => listener \in Capture
  BY HubAssumption DEF Capture
<1>2. CASE DialVideo(g) \/ DialMJPEG(g) \/ DialControl(g) \/ EndCapture(g)
  <2>1. /\ phase[g] \in Running
        /\ \E l \in Held : phase' = [phase EXCEPT ![g] = l]
        /\ UNCHANGED <<platform, start, made, server, listener, forward>>
    BY <1>2 DEF DialVideo, DialMJPEG, DialControl, EndCapture, Move
  <2>2. phase'[g] \in Held /\ \A h \in Capture : h # g => phase'[h] = phase[h]
    BY <2>1
  <2>3. forward \notin {0, Left} => start \in {"launch", "listen"} \/ \E h \in Capture : Alive(h)'
    BY <2>2
  <2>4. /\ \A h \in server : phase'[h] \in Held \/ (h = made /\ start = "listen")
        /\ listener # 0 => phase'[listener] \in Held
    BY <1>0, <1>1, <2>2
  <2> QED BY <2>1, <2>3, <2>4
<1>3. CASE CloseServer(g)
  <2>1. /\ phase[g] = "closing"
        /\ phase' = [phase EXCEPT ![g] = IF platform = "ios" THEN "done" ELSE "removing"]
        /\ listener' = (IF listener = g THEN 0 ELSE listener) /\ server' = server \ {g}
        /\ UNCHANGED <<platform, start, made, forward>>
    BY <1>3 DEF CloseServer, Move
  <2>2. \A h \in Capture : h # g => phase'[h] = phase[h]
    BY <2>1
  <2>3. forward # 0 => phase'[g] = "removing"
    BY <2>1
  <2>4. /\ \A h \in server' : phase'[h] \in Held \/ (h = made /\ start = "listen")
        /\ listener' # 0 => phase'[listener'] \in Held
    BY <1>0, <1>1, <2>1, <2>2
  <2>5. forward # 0 => \E h \in Capture : Alive(h)'
    BY <2>3
  <2> QED BY <2>1, <2>4, <2>5
<1>4. CASE RemoveForward(g)
  <2>1. /\ phase[g] = "removing" /\ phase' = [phase EXCEPT ![g] = "done"] /\ forward' \in {0, Left}
        /\ forward = 0 => forward' = 0
        /\ UNCHANGED <<platform, start, made, server, listener>>
    BY <1>4 DEF RemoveForward, ForwardRemoved, Move
  <2>2. \A h \in Capture : h # g => phase'[h] = phase[h]
    BY <2>1
  <2> QED BY <1>0, <1>1, <2>1, <2>2
<1>5. CASE ServerExits(g)
  <2>1. /\ server' = server \ {g}
        /\ UNCHANGED <<platform, start, made, phase, forward, listener>>
    BY <1>5 DEF ServerExits
  <2> QED BY <2>1
<1> QED BY <1>2, <1>3, <1>4, <1>5

\* StartCapture and StopCapture.
LEMMA StartOwned ==
  ASSUME HubInv, Owned,
         \/ StartCapture \/ StartIOSCapture \/ Listen \/ ListenFails \/ StopCapture
         \/ \E ok \in BOOLEAN : Forward(ok) \/ Launch(ok)
  PROVE  Owned'
<1> USE DEF HubInv, HubTypeOK, Owned, Alive, Held, Running
<1>0. start # "idle" => made \in Capture
  BY HubAssumption DEF StartMade, Capture
<1>1. CASE StartCapture \/ StartIOSCapture
  <2>1. /\ start = "idle" /\ start' = (IF platform = "android" THEN "forward" ELSE "listen")
        /\ UNCHANGED <<platform, phase, forward, server, listener>>
    BY <1>1 DEF StartCapture, StartIOSCapture, Begin
  <2> QED BY <2>1
<1>2. CASE Listen
  <2>1. /\ start = "listen" /\ listener' = made /\ start' = "idle"
        /\ phase' = [phase EXCEPT ![made] = "dialVideo"]
        /\ UNCHANGED <<platform, made, forward, server>>
    BY <1>2 DEF Listen
  <2>2. phase'[made] = "dialVideo" /\ \A h \in Capture : h # made => phase'[h] = phase[h]
    BY <1>0, <2>1
  <2>3. \A h \in server : phase'[h] \in Held
    BY <2>2
  <2>4. \E h \in Capture : Alive(h)'
    BY <1>0, <2>1, <2>2
  <2> QED BY <2>1, <2>2, <2>3, <2>4
<1>3. CASE ListenFails
  <2>1. /\ server' = server \ {made} /\ start' = "idle"
        /\ platform = "android" => forward' \in {0, Left}
        /\ platform # "android" => forward' = forward
        /\ UNCHANGED <<platform, made, phase, listener>>
    BY <1>3 DEF ListenFails, ForwardRemoved
  <2> QED BY <2>1
<1>4. CASE StopCapture
  <2>1. UNCHANGED <<platform, start, made, phase, forward, server, listener>>
    BY <1>4 DEF StopCapture
  <2> QED BY <2>1
<1>5. ASSUME NEW ok \in BOOLEAN, Forward(ok) PROVE Owned'
  <2>1. /\ start = "forward" /\ start' = (IF ok THEN "launch" ELSE "idle")
        /\ forward' = (IF ok THEN made ELSE forward)
        /\ UNCHANGED <<platform, made, phase, server, listener>>
    BY <1>5 DEF Forward
  <2> QED BY <2>1
<1>6. ASSUME NEW ok \in BOOLEAN, Launch(ok) PROVE Owned'
  <2>1. /\ start = "launch" /\ start' = (IF ok THEN "listen" ELSE "idle")
        /\ (ok /\ forward' = forward) \/ (~ok /\ forward' \in {0, Left})
        /\ forward = 0 => forward' = 0
        /\ server' = (IF ok THEN server \cup {made} ELSE server)
        /\ UNCHANGED <<platform, made, phase, listener>>
    BY <1>6 DEF Launch, ForwardRemoved
  <2> QED BY <2>1
<1> QED BY <1>1, <1>2, <1>3, <1>4, <1>5, <1>6

LEMMA OwnedStep == HubInv /\ Owned /\ [HubNext]_hubVars => Owned'
<1> SUFFICES ASSUME HubInv, Owned, [HubNext]_hubVars PROVE Owned'
  OBVIOUS
<1>1. ASSUME UNCHANGED <<platform, start, made, phase, forward, server, listener>>
      PROVE  Owned'
  BY <1>1 DEF Owned, Alive
<1>2. CASE UNCHANGED hubVars
  BY <1>1, <1>2 DEF hubVars, captureVars
<1>3. ASSUME NEW g \in Capture, ReadJPEG(g) \/ \E f \in {"config", "idr", "delta"} : ReadFrame(g, f)
      PROVE  Owned'
  BY <1>1, <1>3 DEF ReadJPEG, ReadFrame
<1>4. ASSUME NEW v \in Viewer,
             \/ Connect(v) \/ UpgradeFails(v) \/ Join(v) \/ Write(v) \/ GoLive(v)
             \/ WriteFails(v) \/ Leave(v) \/ WriterEnds(v) \/ HangUp(v)
      PROVE  Owned'
  <2>1. UNCHANGED captureVars
    BY <1>4 DEF Connect, UpgradeFails, Join, Write, GoLive, WriteFails, Leave, WriterEnds, HangUp
  <2> QED BY <1>1, <2>1 DEF captureVars
<1> QED BY <1>2, <1>3, <1>4, GoroutineOwned, StartOwned DEF HubNext, CaptureStep

\* Whichever step of StartCapture fails and however captures overlap, a port, a
\* scrcpy server or a forwarding has a capture that will still release it.
THEOREM HubResourcesOwned == HubSpec => []ResourcesOwned
<1>1. HubInit => Owned
  BY DEF HubInit, Owned
<1>2. HubInv /\ Owned => ResourcesOwned
  <2> SUFFICES ASSUME HubInv, Owned PROVE ResourcesOwned
    OBVIOUS
  <2> DEFINE alive == {g \in Capture : phase[g] \in Running \cup {"closing", "removing"}}
             starting == IF start = "idle" THEN {} ELSE {made}
  <2>1. \A g \in Capture : phase[g] \in Held => g \in alive
    BY DEF Held
  <2>2. server \subseteq Capture /\ (listener # 0 => listener \in Capture)
    BY HubAssumption DEF HubInv, HubTypeOK, Capture
  <2>3. \A g \in Capture : Alive(g) => g \in alive
    BY DEF Alive, Held
  <2>4. start \in {"launch", "listen"} => made \in starting
    OBVIOUS
  <2> HIDE DEF alive, starting
  <2>5. /\ server \subseteq alive \cup starting
        /\ listener # 0 => listener \in alive
        /\ forward \notin {0, Left} => alive \cup starting # {}
    BY <2>1, <2>2, <2>3, <2>4 DEF Owned
  <2> QED BY <2>5 DEF ResourcesOwned, alive, starting
<1> QED BY <1>1, <1>2, OwnedStep, HubInvariant, PTL DEF HubSpec

-----------------------------------------------------------------------------
(* The input of Android devices.                                           *)

Msg == (1..MaxEvents) \X {1, 2}
Before(m, n) == m[1] < n[1] \/ (m[1] = n[1] /\ m[2] < n[2])

Ascending(s) == \A i, j \in 1..Len(s) : i < j => Before(s[i], s[j])
OneEvent(s) == \A i, j \in 1..Len(s) : s[i][1] = s[j][1]
Below(s, t) == \A i \in 1..Len(s), j \in 1..Len(t) : Before(s[i], t[j])

\* The messages s are of events of c, and those of c on the wire w come before.
Own(inp, c, s) == \A j \in 1..Len(s) : s[j][1] \in 1..Len(inp) /\ inp[s[j][1]].by = c
Sent(w, inp, c, s) ==
  \A i \in 1..Len(w) : inp[w[i][1]].by = c => \A j \in 1..Len(s) : Before(w[i], s[j])

\* On its way from a client to the device a message is at hand, in the queue, or
\* in the hands of the goroutine, and behind it are only later ones.
Line(c) ==
  /\ Len(inHand[c]) <= 1 /\ (pump[c] = "writing" => inHand[c] # <<>> /\ holder = c)
  /\ reader[c] = "passing" => rest[c] # <<>>
  /\ Ascending(queue[c])
  /\ Below(inHand[c], queue[c]) /\ Below(inHand[c], rest[c]) /\ Below(queue[c], rest[c])
  /\ Own(input, c, inHand[c]) /\ Own(input, c, queue[c])
  /\ Sent(wire, input, c, inHand[c]) /\ Sent(wire, input, c, queue[c])

RestLine(c) ==
  /\ Ascending(rest[c]) /\ Own(input, c, rest[c]) /\ Sent(wire, input, c, rest[c])
  /\ OneEvent(rest[c])

\* A POST whose first message is out has controlMu, and nothing came after it.
PostLine(p) ==
  /\ holder = p => reader[p] = "passing"
  /\ rest[p] # <<>> /\ rest[p][1][2] = 2 =>
       /\ reader[p] \in {"passing", "gone"}
       /\ reader[p] = "passing" =>
            holder = p /\ wire # <<>> /\ wire[Len(wire)] = <<rest[p][1][1], 1>>

Paired(w, inp) ==
  \A i \in 1..Len(w) :
    inp[w[i][1]].by \in Post /\ w[i][2] = 2 => i > 1 /\ w[i - 1] = <<w[i][1], 1>>

InOrder(w, inp) ==
  \A i, j \in 1..Len(w) : i < j /\ inp[w[i][1]].by = inp[w[j][1]].by => Before(w[i], w[j])

CtlInv ==
  /\ CtlTypeOK /\ Len(input) <= MaxEvents
  /\ \A i \in 1..Len(wire) : wire[i][1] \in 1..Len(input)
  /\ InOrder(wire, input) /\ Paired(wire, input)
  /\ \A c \in Sock : Line(c)
  /\ \A c \in Sender : RestLine(c)
  /\ \A p \in Post : PostLine(p)

-----------------------------------------------------------------------------
(* Sequences of messages.                                                  *)

LEMMA TailOf ==
  ASSUME NEW S, NEW s \in Seq(S), s # <<>>
  PROVE  /\ Head(s) = s[1] /\ s[1] \in S /\ Tail(s) \in Seq(S)
         /\ Len(s) \in Nat \ {0} /\ Len(Tail(s)) = Len(s) - 1
         /\ \A i \in 1..Len(Tail(s)) : Tail(s)[i] = s[i + 1] /\ i + 1 \in 1..Len(s)
  OBVIOUS

LEMMA AppendOf ==
  ASSUME NEW S, NEW s \in Seq(S), NEW x \in S
  PROVE  /\ Append(s, x) \in Seq(S) /\ Len(s) \in Nat /\ Len(Append(s, x)) = Len(s) + 1
         /\ Append(s, x)[Len(s) + 1] = x /\ Append(s, x) # <<>>
         /\ \A i \in 1..Len(s) : Append(s, x)[i] = s[i]
         /\ \A i \in 1..Len(Append(s, x)) : i \in 1..Len(s) \/ i = Len(s) + 1
<1>1. /\ Append(s, x) \in Seq(S) /\ Len(s) \in Nat /\ Len(Append(s, x)) = Len(s) + 1
      /\ Append(s, x)[Len(s) + 1] = x
      /\ \A i \in 1..Len(s) : Append(s, x)[i] = s[i]
  OBVIOUS
<1> QED BY <1>1

\* The head of a line is taken away.
LEMMA TailLine ==
  ASSUME NEW s \in Seq(Msg), s # <<>>, NEW t \in Seq(Msg), NEW inp, NEW c, NEW w
  PROVE  /\ Ascending(s) => Ascending(Tail(s)) /\ Below(<<s[1]>>, Tail(s))
         /\ OneEvent(s) => OneEvent(Tail(s))
         /\ Below(s, t) => Below(Tail(s), t) /\ Below(<<s[1]>>, t)
         /\ Below(t, s) => Below(t, Tail(s)) /\ Below(t, <<s[1]>>)
         /\ Own(inp, c, s) => Own(inp, c, Tail(s)) /\ Own(inp, c, <<s[1]>>)
         /\ Sent(w, inp, c, s) => Sent(w, inp, c, Tail(s)) /\ Sent(w, inp, c, <<s[1]>>)
<1>1. /\ Len(s) \in Nat \ {0} /\ Len(Tail(s)) = Len(s) - 1
      /\ \A i \in 1..Len(Tail(s)) : Tail(s)[i] = s[i + 1] /\ i + 1 \in 1..Len(s)
      /\ 1 \in 1..Len(s) /\ Len(<<s[1]>>) = 1 /\ <<s[1]>>[1] = s[1]
  BY TailOf
<1>2. \A i \in 1..Len(<<s[1]>>) : i = 1
  BY <1>1
<1>3. ASSUME Ascending(s) PROVE Ascending(Tail(s)) /\ Below(<<s[1]>>, Tail(s))
  <2>1. \A i, j \in 1..Len(Tail(s)) : i < j => i + 1 < j + 1
    BY <1>1
  <2>2. \A j \in 1..Len(Tail(s)) : 1 < j + 1
    BY <1>1
  <2>3. Ascending(Tail(s))
    BY <1>1, <1>3, <2>1 DEF Ascending
  <2> QED BY <1>1, <1>2, <1>3, <2>2, <2>3 DEF Ascending, Below
<1>4. OneEvent(s) => OneEvent(Tail(s))
  BY <1>1 DEF OneEvent
<1> QED BY <1>1, <1>2, <1>3, <1>4 DEF Below, Own, Sent

\* A message joins the end of a line.
LEMMA AppendLine ==
  ASSUME NEW s \in Seq(Msg), NEW x \in Msg, NEW t \in Seq(Msg), NEW inp, NEW c, NEW w
  PROVE  LET a == Append(s, x) IN
         /\ Ascending(s) /\ Below(s, <<x>>) => Ascending(a)
         /\ Below(s, t) /\ Below(<<x>>, t) => Below(a, t)
         /\ Below(t, s) /\ Below(t, <<x>>) => Below(t, a)
         /\ Own(inp, c, s) /\ Own(inp, c, <<x>>) => Own(inp, c, a)
         /\ Sent(w, inp, c, s) /\ Sent(w, inp, c, <<x>>) => Sent(w, inp, c, a)
<1> DEFINE a == Append(s, x)
<1>1. /\ a \in Seq(Msg) /\ Len(s) \in Nat /\ Len(a) = Len(s) + 1 /\ a[Len(s) + 1] = x
      /\ \A i \in 1..Len(s) : a[i] = s[i]
      /\ \A i \in 1..Len(a) : i \in 1..Len(s) \/ i = Len(s) + 1
  BY AppendOf
<1>2. 1 \in 1..Len(<<x>>) /\ <<x>>[1] = x
  OBVIOUS
<1> HIDE DEF a
<1>3. ASSUME Ascending(s), Below(s, <<x>>) PROVE Ascending(a)
  <2>1. \A i, j \in 1..Len(a) : i < j => i \in 1..Len(s)
    BY <1>1
  <2> QED BY <1>1, <1>2, <1>3, <2>1 DEF Ascending, Below
<1>4. /\ Below(s, t) /\ Below(<<x>>, t) => Below(a, t)
      /\ Below(t, s) /\ Below(t, <<x>>) => Below(t, a)
  BY <1>1, <1>2 DEF Below
<1>5. /\ Own(inp, c, s) /\ Own(inp, c, <<x>>) => Own(inp, c, a)
      /\ Sent(w, inp, c, s) /\ Sent(w, inp, c, <<x>>) => Sent(w, inp, c, a)
  BY <1>1, <1>2 DEF Own, Sent
<1> QED BY <1>3, <1>4, <1>5 DEF a

\* A message of c reaches the wire.
LEMMA WireLine ==
  ASSUME NEW w \in Seq(Msg), NEW x \in Msg, NEW inp, NEW c, NEW s \in Seq(Msg),
         Sent(w, inp, c, s), inp[x[1]].by = c => Below(<<x>>, s)
  PROVE  Sent(Append(w, x), inp, c, s)
<1>1. /\ Len(w) \in Nat /\ Append(w, x)[Len(w) + 1] = x
      /\ \A i \in 1..Len(w) : Append(w, x)[i] = w[i]
      /\ \A i \in 1..Len(Append(w, x)) : i \in 1..Len(w) \/ i = Len(w) + 1
  BY AppendOf
<1>2. 1 \in 1..Len(<<x>>) /\ <<x>>[1] = x
  OBVIOUS
<1> QED BY <1>1, <1>2 DEF Sent, Below

LEMMA WireOrder ==
  ASSUME NEW w \in Seq(Msg), NEW x \in Msg, NEW inp, InOrder(w, inp),
         Sent(w, inp, inp[x[1]].by, <<x>>)
  PROVE  InOrder(Append(w, x), inp)
<1>1. /\ Len(w) \in Nat /\ Append(w, x)[Len(w) + 1] = x
      /\ \A i \in 1..Len(w) : Append(w, x)[i] = w[i]
      /\ \A i \in 1..Len(Append(w, x)) : i \in 1..Len(w) \/ i = Len(w) + 1
      /\ \A i, j \in 1..Len(Append(w, x)) : i < j => i \in 1..Len(w)
  BY AppendOf
<1>2. 1 \in 1..Len(<<x>>) /\ <<x>>[1] = x
  OBVIOUS
<1> QED BY <1>1, <1>2 DEF Sent, InOrder

LEMMA WirePaired ==
  ASSUME NEW w \in Seq(Msg), NEW x \in Msg, NEW inp, Paired(w, inp),
         inp[x[1]].by \in Post /\ x[2] = 2 => w # <<>> /\ w[Len(w)] = <<x[1], 1>>
  PROVE  Paired(Append(w, x), inp)
<1>1. /\ Len(w) \in Nat /\ Append(w, x)[Len(w) + 1] = x
      /\ \A i \in 1..Len(w) : Append(w, x)[i] = w[i]
      /\ \A i \in 1..Len(Append(w, x)) : i \in 1..Len(w) \/ i = Len(w) + 1
  BY AppendOf
<1>2. \A i \in 1..Len(w) : i > 1 => i - 1 \in 1..Len(w)
  BY <1>1
<1>3. w # <<>> => Len(w) + 1 > 1 /\ (Len(w) + 1) - 1 = Len(w) /\ Len(w) \in 1..Len(w)
  BY <1>1
<1> QED BY <1>1, <1>2, <1>3 DEF Paired

\* A new event changes nothing about the messages of earlier ones.
LEMMA InputLine ==
  ASSUME NEW R, NEW inp \in Seq(R), NEW r \in R, NEW w \in Seq(Msg),
         \A i \in 1..Len(w) : w[i][1] \in 1..Len(inp), NEW c, NEW s \in Seq(Msg)
  PROVE  /\ Own(inp, c, s) => Own(Append(inp, r), c, s)
         /\ Sent(w, inp, c, s) => Sent(w, Append(inp, r), c, s)
         /\ InOrder(w, inp) => InOrder(w, Append(inp, r))
         /\ Paired(w, inp) => Paired(w, Append(inp, r))
<1>1. /\ Len(Append(inp, r)) = Len(inp) + 1 /\ Len(inp) \in Nat
      /\ \A e \in 1..Len(inp) : Append(inp, r)[e] = inp[e] /\ e \in 1..Len(Append(inp, r))
  BY AppendOf
<1>2. \A i \in 1..Len(w) : Append(inp, r)[w[i][1]] = inp[w[i][1]]
  BY <1>1
<1> QED BY <1>1, <1>2 DEF Own, Sent, InOrder, Paired

-----------------------------------------------------------------------------
(* What a step leaves alone.                                               *)

\* The lines of d stay in order: no later message of d has reached the wire.
Spared(d) ==
  \A s \in Seq(Msg) :
    /\ Own(input, d, s) => Own(input', d, s)
    /\ Sent(wire, input, d, s) => Sent(wire', input', d, s)

LEMMA KeepLine ==
  ASSUME CtlTypeOK, NEW c \in Sock, Line(c), Spared(c),
         inHand'[c] = inHand[c], queue'[c] = queue[c], rest'[c] = rest[c],
         pump'[c] = "writing" => pump[c] = "writing" /\ holder' = holder,
         reader'[c] = "passing" => rest[c] # <<>>
  PROVE  Line(c)'
<1>1. inHand[c] \in Seq(Msg) /\ queue[c] \in Seq(Msg)
  BY DEF CtlTypeOK, Msg
<1> QED BY <1>1 DEF Line, Spared

LEMMA KeepRest ==
  ASSUME CtlTypeOK, NEW c \in Sender, RestLine(c), Spared(c), rest'[c] = rest[c]
  PROVE  RestLine(c)'
<1>1. rest[c] \in Seq(Msg)
  BY DEF CtlTypeOK, Msg
<1> QED BY <1>1 DEF RestLine, Spared

LEMMA KeepPost ==
  ASSUME NEW p \in Post, PostLine(p), rest'[p] = rest[p], reader'[p] = reader[p],
         (holder' = p) <=> (holder = p), holder = p => wire' = wire
  PROVE  PostLine(p)'
  BY DEF PostLine

\* A step that touches neither the wire nor the events.
LEMMA QuietSpared ==
  ASSUME NEW d, wire' = wire, input' = input
  PROVE  Spared(d)
  BY DEF Spared

-----------------------------------------------------------------------------
(* The steps.                                                              *)

LEMMA CtlInitInv == CtlInit => CtlInv
<1> SUFFICES ASSUME CtlInit PROVE CtlInv
  OBVIOUS
<1>0. /\ conn = "nil" /\ holder = NoOne /\ input = <<>> /\ wire = <<>>
      /\ \A c \in Sender : reader[c] = "reading" /\ rest[c] = <<>>
      /\ \A c \in Sock : queue[c] = <<>> /\ inHand[c] = <<>> /\ pump[c] = "on"
  BY DEF CtlInit
<1>1. CtlTypeOK
  <2>1. /\ reader \in [Sender -> {"reading", "parsed", "passing", "gone"}]
        /\ pump \in [Sock -> {"on", "writing", "ended"}]
        /\ answer \in [Post -> {"none", "unavailable", "refused", "failed", "done"}]
    BY DEF CtlInit
  <2>2. rest \in [Sender -> Seq(Msg)] /\ queue \in [Sock -> Seq(Msg)]
        /\ inHand \in [Sock -> Seq(Msg)]
    BY DEF CtlInit
  <2> QED BY <1>0, <2>1, <2>2 DEF CtlTypeOK, Msg
<1>2. Len(input) <= MaxEvents /\ wire = <<>>
  BY <1>0, ControlAssumption
<1>3. Len(<<>>) = 0 /\ \A i \in 1..Len(<<>>) : FALSE
  OBVIOUS
<1>4. ASSUME NEW c \in Sock PROVE Line(c)
  <2>1. /\ queue[c] = <<>> /\ inHand[c] = <<>> /\ pump[c] = "on" /\ reader[c] = "reading"
        /\ rest[c] = <<>> /\ wire = <<>>
    BY <1>0 DEF Sender
  <2> QED BY <1>3, <2>1 DEF Line, Ascending, Below, Own, Sent
<1>6. ASSUME NEW c \in Sender PROVE RestLine(c)
  <2>1. rest[c] = <<>> /\ wire = <<>>
    BY <1>0
  <2> QED BY <1>3, <2>1 DEF RestLine, Ascending, OneEvent, Own, Sent
<1>5. \A p \in Post : PostLine(p)
  BY ControlAssumption DEF CtlInit, PostLine, Sender, NoOne
<1> QED BY <1>1, <1>2, <1>3, <1>4, <1>5, <1>6 DEF CtlInv, InOrder, Paired

\* SerializeControlEvent: one or two messages of the new event, in order.
LEMMA Serialized ==
  ASSUME NEW e \in 1..MaxEvents, NEW type \in Event
  PROVE  LET s == SerializeControlEvent(e, type) IN
         /\ s \in Seq(Msg) /\ Len(s) \in 0..2
         /\ \A i \in 1..Len(s) : s[i] = <<e, i>>
<1>1. <<e, 1>> \in Msg /\ <<e, 2>> \in Msg
  BY DEF Msg
<1>2. CASE type = "touch"
  BY <1>1, <1>2 DEF SerializeControlEvent
<1>3. CASE type = "key"
  BY <1>1, <1>3 DEF SerializeControlEvent
<1>4. CASE type = "unknown"
  BY <1>4 DEF SerializeControlEvent
<1> QED BY <1>2, <1>3, <1>4 DEF Event

LEMMA ReceiveKeeps ==
  ASSUME CtlInv, NEW c \in Sender, NEW type \in Event, Receive(c, type)
  PROVE  CtlInv'
<1> DEFINE e == Len(input) + 1
           ev == [by |-> c, type |-> type]
           s == SerializeControlEvent(e, type)
           R == [by : Sender, type : Event]
<1>1. /\ input' = Append(input, ev) /\ reader' = [reader EXCEPT ![c] = "parsed"]
      /\ rest' = [rest EXCEPT ![c] = s] /\ reader[c] = "reading"
      /\ UNCHANGED <<conn, holder, queue, inHand, pump, answer, wire>>
      /\ Len(input) < MaxEvents
  BY DEF Receive
<1>2. /\ input \in Seq(R) /\ wire \in Seq(Msg) /\ ev \in R
      /\ \A i \in 1..Len(wire) : wire[i][1] \in 1..Len(input)
  BY DEF CtlInv, CtlTypeOK, Msg
<1>3. /\ Len(input) \in Nat /\ e \in 1..MaxEvents /\ Len(input') = e /\ input' \in Seq(R)
      /\ input'[e] = ev /\ ev.by = c /\ \A i \in 1..Len(input) : i < e /\ i \in 1..e
  BY <1>1, <1>2, ControlAssumption
<1>4. s \in Seq(Msg) /\ Len(s) \in 0..2 /\ \A i \in 1..Len(s) : s[i] = <<e, i>>
  BY <1>3, Serialized
<1> HIDE DEF e, ev, s, R
<1>5. \A d \in Sender : Spared(d)
  BY <1>1, <1>2, InputLine DEF Spared
<1>6. /\ InOrder(wire', input') /\ Paired(wire', input')
      /\ \A i \in 1..Len(wire') : wire'[i][1] \in 1..Len(input')
  <2>1. /\ InOrder(wire, Append(input, ev)) /\ Paired(wire, Append(input, ev))
    <3>1. <<>> \in Seq(Msg)
      OBVIOUS
    <3> QED BY <1>2, <3>1, InputLine DEF CtlInv
  <2> QED BY <1>1, <1>2, <1>3, <2>1
<1>7. \A t \in Seq(Msg) : Own(input, c, t) => Below(t, s)
  BY <1>3, <1>4 DEF Own, Below, Before
<1>8. Sent(wire, input', c, s)
  BY <1>2, <1>3, <1>4 DEF Sent, Before
<1>9. CtlTypeOK'
  <2>1. reader' \in [Sender -> {"reading", "parsed", "passing", "gone"}]
    BY <1>1 DEF CtlInv, CtlTypeOK
  <2>2. rest' \in [Sender -> Seq(Msg)]
    BY <1>1, <1>4 DEF CtlInv, CtlTypeOK, Msg
  <2> QED BY <1>1, <1>3, <2>1, <2>2 DEF CtlInv, CtlTypeOK, Msg, R
<1>10. /\ \A d \in Sender : d # c => rest'[d] = rest[d] /\ reader'[d] = reader[d]
       /\ rest'[c] = s /\ reader'[c] = "parsed"
  BY <1>1 DEF CtlInv, CtlTypeOK
<1>11. ASSUME NEW d \in Sock PROVE Line(d)'
  <2>1. Line(d) /\ d \in Sender /\ CtlTypeOK /\ Spared(d)
    BY <1>5 DEF CtlInv, Sender
  <2>2. CASE d # c
    <3>1. reader[d] = "passing" => rest[d] # <<>>
      BY <2>1 DEF Line
    <3> QED BY <1>1, <1>10, <2>1, <2>2, <3>1, KeepLine
  <2>3. CASE d = c
    <3>1. inHand[c] \in Seq(Msg) /\ queue[c] \in Seq(Msg)
      BY <2>1, <2>3 DEF CtlTypeOK, Msg
    <3>2. Below(inHand[c], s) /\ Below(queue[c], s)
      BY <1>7, <2>1, <2>3, <3>1 DEF Line
    <3> QED BY <1>1, <1>10, <2>1, <2>3, <3>1, <3>2 DEF Line, Spared
  <2> QED BY <2>2, <2>3
<1>12. ASSUME NEW d \in Sender PROVE RestLine(d)'
  <2>1. CASE d # c
    <3>1. RestLine(d) /\ CtlTypeOK /\ Spared(d) /\ rest'[d] = rest[d]
      BY <1>5, <1>10, <2>1 DEF CtlInv
    <3> QED BY <3>1, KeepRest
  <2>2. CASE d = c
    <3>1. Ascending(s)
      BY <1>3, <1>4 DEF Ascending, Before
    <3>2. Own(input', c, s)
      BY <1>3, <1>4 DEF Own
    <3>3. OneEvent(s)
      BY <1>4 DEF OneEvent
    <3> QED BY <1>1, <1>8, <1>10, <2>2, <3>1, <3>2, <3>3 DEF RestLine
  <2> QED BY <2>1, <2>2
<1>13. ASSUME NEW q \in Post PROVE PostLine(q)'
  <2>1. PostLine(q) /\ q \in Sender
    BY DEF CtlInv, Sender
  <2>2. CASE q # c
    BY <1>1, <1>10, <2>1, <2>2, KeepPost
  <2>3. CASE q = c
    <3>1. holder # q
      BY <1>1, <2>1, <2>3 DEF PostLine
    <3>2. s # <<>> => s[1][2] = 1
      BY <1>4
    <3> QED BY <1>1, <1>10, <2>3, <3>1, <3>2 DEF PostLine
  <2> QED BY <2>2, <2>3
<1> QED BY <1>3, <1>6, <1>9, <1>11, <1>12, <1>13 DEF CtlInv

\* The handler of a WebSocket: an event is dropped, taken, or its client is gone.
LEMMA SkipKeeps ==
  ASSUME CtlInv, NEW c \in Sender, NEW l \in {"reading", "parsed", "passing", "gone"},
         reader' = [reader EXCEPT ![c] = l],
         rest' = rest \/ rest' = [rest EXCEPT ![c] = <<>>],
         l = "passing" => rest'[c] # <<>> /\ rest' = rest /\ reader[c] = "parsed",
         c \in Post => holder # c /\ rest' = rest /\ l \in {"passing", "gone"}
                       /\ reader[c] = "parsed",
         answer' \in [Post -> {"none", "unavailable", "refused", "failed", "done"}],
         conn' \in {"nil", "open", "closed"},
         UNCHANGED <<holder, input, queue, inHand, pump, wire>>
  PROVE  CtlInv'
<1>1. <<>> \in Seq(Msg) /\ CtlTypeOK
  BY DEF CtlInv
<1>2. /\ reader'[c] = l /\ rest'[c] \in {rest[c], <<>>}
      /\ \A d \in Sender : d # c => rest'[d] = rest[d] /\ reader'[d] = reader[d]
  BY <1>1 DEF CtlTypeOK
<1>3. CtlTypeOK'
  <2>1. reader' \in [Sender -> {"reading", "parsed", "passing", "gone"}]
    BY <1>1 DEF CtlTypeOK
  <2>2. rest' \in [Sender -> Seq(Msg)]
    BY <1>1 DEF CtlTypeOK, Msg
  <2> QED BY <1>1, <2>1, <2>2 DEF CtlTypeOK, Msg
<1>4. \A d \in Sender : Spared(d)
  BY QuietSpared
<1>5. Len(<<>>) = 0 /\ \A i \in 1..Len(<<>>) : FALSE
  OBVIOUS
<1>6. ASSUME NEW d \in Sock PROVE Line(d)'
  <2>1. Line(d) /\ Spared(d) /\ d \in Sender
    BY <1>4 DEF CtlInv, Sender
  <2>2. CASE rest'[d] = rest[d]
    <3>1. reader'[d] = "passing" => rest[d] # <<>>
      BY <1>2, <2>1, <2>2 DEF Line
    <3> QED BY <1>1, <2>1, <2>2, <3>1, KeepLine
  <2>3. CASE rest'[d] # rest[d]
    <3>1. d = c /\ rest'[d] = <<>> /\ reader'[d] # "passing"
      BY <1>2, <2>1, <2>3
    <3> QED BY <1>5, <2>1, <3>1 DEF Line, Below
  <2> QED BY <2>2, <2>3
<1>7. ASSUME NEW d \in Sender PROVE RestLine(d)'
  <2>1. RestLine(d) /\ Spared(d)
    BY <1>4 DEF CtlInv
  <2>2. CASE rest'[d] = rest[d]
    BY <1>1, <2>1, <2>2, KeepRest
  <2>3. CASE rest'[d] # rest[d]
    <3>1. rest'[d] = <<>>
      BY <1>2, <2>3
    <3> QED BY <1>5, <3>1 DEF RestLine, Ascending, OneEvent, Own, Sent
  <2> QED BY <2>2, <2>3
<1>8. ASSUME NEW q \in Post PROVE PostLine(q)'
  <2>1. PostLine(q) /\ q \in Sender
    BY DEF CtlInv, Sender
  <2>2. CASE q # c
    BY <1>2, <2>1, <2>2, KeepPost
  <2>3. CASE q = c
    BY <1>2, <2>1, <2>3 DEF PostLine
  <2> QED BY <2>2, <2>3
<1> QED BY <1>3, <1>6, <1>7, <1>8 DEF CtlInv

\* A message of client c moves up: into the queue, if there is room.
LEMMA EnqueueKeeps ==
  ASSUME CtlInv, NEW c \in Sock, Enqueue(c)
  PROVE  CtlInv'
<1> DEFINE s == rest[c]
           q == queue[c]
           a == Append(q, s[1])
<1>1. /\ CtlTypeOK /\ Line(c) /\ RestLine(c) /\ c \in Sender
      /\ \A p \in Post : PostLine(p) /\ p # c
  BY ControlAssumption DEF CtlInv, Sender
<1>2. s # <<>> /\ s \in Seq(Msg) /\ q \in Seq(Msg) /\ inHand[c] \in Seq(Msg)
  BY <1>1 DEF Enqueue, Line, CtlTypeOK, Msg
<1>3. /\ Head(s) = s[1] /\ s[1] \in Msg /\ Tail(s) \in Seq(Msg)
      /\ Len(s) \in Nat \ {0} /\ Len(Tail(s)) = Len(s) - 1
      /\ \A i \in 1..Len(Tail(s)) : Tail(s)[i] = s[i + 1] /\ i + 1 \in 1..Len(s)
  BY <1>2, TailOf
<1>4. a \in Seq(Msg) /\ <<s[1]>> \in Seq(Msg)
  BY <1>2, <1>3
<1>5. /\ rest' = [rest EXCEPT ![c] = Tail(s)]
      /\ \E t \in {q, a} : queue' = [queue EXCEPT ![c] = t]
      /\ reader' = [reader EXCEPT ![c] = IF Len(s) = 1 THEN "reading" ELSE @]
      /\ UNCHANGED <<conn, holder, input, inHand, pump, answer, wire>>
  <2>1. Len(q) < QueueCap => queue' = [queue EXCEPT ![c] = a]
    BY <1>3 DEF Enqueue
  <2>2. ~(Len(q) < QueueCap) => queue' = [queue EXCEPT ![c] = q]
    BY <1>1 DEF Enqueue, CtlTypeOK
  <2> QED BY <2>1, <2>2 DEF Enqueue
<1> HIDE DEF s, q, a
<1>6. PICK t \in {q, a} : queue' = [queue EXCEPT ![c] = t]
  BY <1>5
<1>7. CtlTypeOK'
  <2>1. reader' \in [Sender -> {"reading", "parsed", "passing", "gone"}]
    BY <1>1, <1>5 DEF CtlTypeOK
  <2>2. rest' \in [Sender -> Seq(Msg)]
    BY <1>1, <1>3, <1>5 DEF CtlTypeOK, Msg
  <2>3. queue' \in [Sock -> Seq(Msg)]
    BY <1>1, <1>2, <1>4, <1>6 DEF CtlTypeOK, Msg
  <2> QED BY <1>1, <1>5, <2>1, <2>2, <2>3 DEF CtlTypeOK, Msg
<1>8. /\ rest'[c] = Tail(s) /\ queue'[c] = t
      /\ reader'[c] = (IF Len(s) = 1 THEN "reading" ELSE reader[c])
      /\ \A d \in Sender : d # c => rest'[d] = rest[d] /\ reader'[d] = reader[d]
      /\ \A d \in Sock : d # c => queue'[d] = queue[d]
  BY <1>1, <1>5, <1>6 DEF CtlTypeOK
<1>9. \A d \in Sender : Spared(d)
  BY <1>5, QuietSpared
<1>10. Line(c)'
  <2>1. /\ Ascending(q) /\ Below(inHand[c], q) /\ Below(inHand[c], s) /\ Below(q, s)
        /\ Own(input, c, q) /\ Sent(wire, input, c, q)
        /\ Ascending(s) /\ Own(input, c, s) /\ Sent(wire, input, c, s)
    BY <1>1 DEF Line, RestLine, s, q
  <2>2. /\ Below(<<s[1]>>, Tail(s)) /\ Below(inHand[c], Tail(s)) /\ Below(inHand[c], <<s[1]>>)
        /\ Below(q, Tail(s)) /\ Below(q, <<s[1]>>) /\ Own(input, c, <<s[1]>>)
        /\ Sent(wire, input, c, <<s[1]>>)
    BY <1>2, <2>1, TailLine
  <2>3. /\ Ascending(a) /\ Below(a, Tail(s)) /\ Below(inHand[c], a) /\ Own(input, c, a)
        /\ Sent(wire, input, c, a)
    BY <1>2, <1>3, <2>1, <2>2, AppendLine DEF a
  <2>4. reader'[c] = "passing" => Tail(s) # <<>>
    <3>1. Len(s) # 1 => Len(Tail(s)) # 0
      BY <1>3
    <3>2. Len(s) # 1 => Tail(s) # <<>>
      BY <3>1
    <3> QED BY <1>8, <3>2
  <2>5. /\ Len(inHand[c]) <= 1 /\ (pump[c] = "writing" => inHand[c] # <<>> /\ holder = c)
        /\ Own(input, c, inHand[c]) /\ Sent(wire, input, c, inHand[c])
    BY <1>1 DEF Line
  <2>6. t = q \/ t = a
    BY <1>6
  <2>7. /\ Ascending(t) /\ Below(t, Tail(s)) /\ Below(inHand[c], t) /\ Own(input, c, t)
        /\ Sent(wire, input, c, t)
    <3>1. CASE t = q
      BY <2>1, <2>2, <3>1
    <3>2. CASE t = a
      BY <2>3, <3>2
    <3> QED BY <2>6, <3>1, <3>2
  <2>8. /\ inHand'[c] = inHand[c] /\ pump'[c] = pump[c] /\ holder' = holder
        /\ input' = input /\ wire' = wire
    BY <1>5
  <2>9. /\ Ascending(queue'[c]) /\ Below(inHand'[c], queue'[c]) /\ Below(inHand'[c], rest'[c])
        /\ Below(queue'[c], rest'[c]) /\ Own(input', c, queue'[c])
        /\ Sent(wire', input', c, queue'[c])
    BY <1>8, <2>2, <2>7, <2>8
  <2>10. /\ Len(inHand'[c]) <= 1 /\ (pump'[c] = "writing" => inHand'[c] # <<>> /\ holder' = c)
         /\ Own(input', c, inHand'[c]) /\ Sent(wire', input', c, inHand'[c])
         /\ (reader'[c] = "passing" => rest'[c] # <<>>)
    BY <1>8, <2>4, <2>5, <2>8
  <2> QED BY <2>9, <2>10 DEF Line
<1>11. RestLine(c)'
  <2>1. Ascending(Tail(s)) /\ Own(input, c, Tail(s)) /\ Sent(wire, input, c, Tail(s))
    BY <1>1, <1>2, TailLine DEF RestLine, s
  <2>2. OneEvent(Tail(s))
    BY <1>1, <1>2, TailLine DEF RestLine, s
  <2> QED BY <1>5, <1>8, <2>1, <2>2 DEF RestLine
<1>12. ASSUME NEW d \in Sock, d # c PROVE Line(d)'
  <2>1. Line(d) /\ Spared(d) /\ d \in Sender
    BY <1>9 DEF CtlInv, Sender
  <2>2. reader[d] = "passing" => rest[d] # <<>>
    BY <2>1 DEF Line
  <2> QED BY <1>1, <1>5, <1>8, <1>12, <2>1, <2>2, KeepLine
<1>13. ASSUME NEW d \in Sender, d # c PROVE RestLine(d)'
  <2>1. RestLine(d) /\ Spared(d)
    BY <1>9 DEF CtlInv
  <2> QED BY <1>1, <1>8, <1>13, <2>1, KeepRest
<1>14. ASSUME NEW p \in Post PROVE PostLine(p)'
  <2>1. p \in Sender /\ p # c /\ PostLine(p)
    BY <1>1 DEF Sender
  <2> QED BY <1>5, <1>8, <2>1, KeepPost
<1> QED BY <1>5, <1>7, <1>10, <1>11, <1>12, <1>13, <1>14 DEF CtlInv

\* The goroutine of client c takes the next message, or locks controlMu.
LEMMA TakeKeeps ==
  ASSUME CtlInv, NEW c \in Sock, Take(c)
  PROVE  CtlInv'
<1> DEFINE q == queue[c]
<1>1. /\ CtlTypeOK /\ Line(c) /\ c \in Sender /\ \A p \in Post : PostLine(p)
  BY DEF CtlInv, Sender
<1>2. q # <<>> /\ q \in Seq(Msg) /\ rest[c] \in Seq(Msg)
  BY <1>1 DEF Take, CtlTypeOK, Msg
<1>3. Head(q) = q[1] /\ q[1] \in Msg /\ Tail(q) \in Seq(Msg)
  BY <1>2, TailOf
<1>4. <<q[1]>> \in Seq(Msg) /\ Len(<<q[1]>>) = 1 /\ <<q[1]>> # <<>>
  BY <1>3
<1>5. /\ inHand' = [inHand EXCEPT ![c] = <<q[1]>>] /\ queue' = [queue EXCEPT ![c] = Tail(q)]
      /\ pump[c] = "on"
      /\ UNCHANGED <<conn, holder, input, reader, rest, pump, answer, wire>>
  BY <1>3 DEF Take
<1> HIDE DEF q
<1>6. CtlTypeOK'
  <2>1. inHand' \in [Sock -> Seq(Msg)]
    BY <1>1, <1>4, <1>5 DEF CtlTypeOK, Msg
  <2>2. queue' \in [Sock -> Seq(Msg)]
    BY <1>1, <1>3, <1>5 DEF CtlTypeOK, Msg
  <2> QED BY <1>1, <1>5, <2>1, <2>2 DEF CtlTypeOK, Msg
<1>7. /\ inHand'[c] = <<q[1]>> /\ queue'[c] = Tail(q)
      /\ \A d \in Sock : d # c => inHand'[d] = inHand[d] /\ queue'[d] = queue[d]
  BY <1>1, <1>5 DEF CtlTypeOK
<1>8. \A d \in Sender : Spared(d)
  BY <1>5, QuietSpared
<1>9. Line(c)'
  <2>1. /\ Ascending(q) /\ Below(q, rest[c]) /\ Own(input, c, q) /\ Sent(wire, input, c, q)
    BY <1>1 DEF Line, q
  <2>2. /\ Ascending(Tail(q)) /\ Below(<<q[1]>>, Tail(q)) /\ Below(<<q[1]>>, rest[c])
        /\ Below(Tail(q), rest[c]) /\ Own(input, c, <<q[1]>>) /\ Own(input, c, Tail(q))
        /\ Sent(wire, input, c, <<q[1]>>) /\ Sent(wire, input, c, Tail(q))
    BY <1>2, <2>1, TailLine
  <2>3. reader[c] = "passing" => rest[c] # <<>>
    BY <1>1 DEF Line
  <2>4. /\ input' = input /\ wire' = wire /\ rest'[c] = rest[c] /\ reader'[c] = reader[c]
        /\ pump'[c] # "writing"
    BY <1>5
  <2>5. Len(inHand'[c]) <= 1
    BY <1>4, <1>7
  <2>6. /\ Ascending(queue'[c]) /\ Below(inHand'[c], queue'[c]) /\ Below(inHand'[c], rest'[c])
        /\ Below(queue'[c], rest'[c]) /\ Own(input', c, inHand'[c])
        /\ Own(input', c, queue'[c]) /\ Sent(wire', input', c, inHand'[c])
        /\ Sent(wire', input', c, queue'[c])
    BY <1>7, <2>2, <2>4
  <2> QED BY <2>3, <2>4, <2>5, <2>6 DEF Line
<1>10. ASSUME NEW d \in Sock, d # c PROVE Line(d)'
  <2>1. Line(d) /\ Spared(d) /\ d \in Sender
    BY <1>8 DEF CtlInv, Sender
  <2>2. reader[d] = "passing" => rest[d] # <<>>
    BY <2>1 DEF Line
  <2> QED BY <1>1, <1>5, <1>7, <1>10, <2>1, <2>2, KeepLine
<1>11. ASSUME NEW d \in Sender PROVE RestLine(d)'
  <2>1. RestLine(d) /\ Spared(d)
    BY <1>8 DEF CtlInv
  <2> QED BY <1>1, <1>5, <2>1, KeepRest
<1>12. ASSUME NEW p \in Post PROVE PostLine(p)'
  BY <1>1, <1>5, KeepPost
<1> QED BY <1>5, <1>6, <1>9, <1>10, <1>11, <1>12 DEF CtlInv

\* controlMu is locked or released, a goroutine ends, a POST is answered: no message
\* moves.
LEMMA LockKeeps ==
  ASSUME CtlInv, UNCHANGED <<input, rest, queue, inHand, wire>>, CtlTypeOK',
         \A d \in Sock : /\ pump'[d] = "writing" => inHand[d] # <<>> /\ holder' = d
                         /\ reader'[d] = "passing" => reader[d] = "passing",
         \A p \in Post : /\ holder' = p => reader'[p] = "passing"
                         /\ reader'[p] \in {reader[p], "gone"}
                         /\ reader'[p] = "passing" /\ holder = p => holder' = p
  PROVE  CtlInv'
<1>1. \A d \in Sock : Line(d)'
  BY DEF CtlInv, Line
<1>2. \A d \in Sender : RestLine(d)'
  BY DEF CtlInv, RestLine
<1>3. \A p \in Post : PostLine(p)'
  BY DEF CtlInv, PostLine
<1> QED BY <1>1, <1>2, <1>3 DEF CtlInv

\* A message reaches the device: the first one at hand, and the line behind it.
LEMMA WireKeeps ==
  ASSUME CtlInv, NEW c \in Sender, NEW x \in Msg, wire' = Append(wire, x), input' = input,
         Own(input, c, <<x>>), Sent(wire, input, c, <<x>>),
         c \in Post /\ x[2] = 2 => wire # <<>> /\ wire[Len(wire)] = <<x[1], 1>>
  PROVE  /\ wire' \in Seq(Msg) /\ \A i \in 1..Len(wire') : wire'[i][1] \in 1..Len(input')
         /\ InOrder(wire', input') /\ Paired(wire', input')
         /\ \A d \in Sender : d # c => Spared(d)
         /\ \A s \in Seq(Msg) : Sent(wire, input, c, s) /\ Below(<<x>>, s)
                                  => Sent(wire', input', c, s)
<1>1. wire \in Seq(Msg) /\ \A i \in 1..Len(wire) : wire[i][1] \in 1..Len(input)
  BY DEF CtlInv, CtlTypeOK, Msg
<1>2. x[1] \in 1..Len(input) /\ input[x[1]].by = c
  <2>1. 1 \in 1..Len(<<x>>) /\ <<x>>[1] = x
    OBVIOUS
  <2> QED BY <2>1 DEF Own
<1>3. wire' \in Seq(Msg) /\ \A i \in 1..Len(wire') : wire'[i][1] \in 1..Len(input')
  BY <1>1, <1>2, AppendOf
<1>4. InOrder(wire', input')
  BY <1>1, <1>2, WireOrder DEF CtlInv
<1>5. Paired(wire', input')
  BY <1>1, <1>2, WirePaired DEF CtlInv
<1>6. \A d \in Sender : d # c => Spared(d)
  BY <1>1, <1>2, WireLine DEF Spared
<1>7. \A s \in Seq(Msg) : Sent(wire, input, c, s) /\ Below(<<x>>, s) => Sent(wire', input', c, s)
  BY <1>1, WireLine
<1> QED BY <1>3, <1>4, <1>5, <1>6, <1>7

\* The goroutine of client c writes the message it has taken and unlocks controlMu.
LEMMA WriteOneKeeps ==
  ASSUME CtlInv, NEW c \in Sock, WriteOne(c)
  PROVE  CtlInv'
<1> DEFINE x == inHand[c][1]
<1>1. /\ CtlTypeOK /\ Line(c) /\ RestLine(c) /\ c \in Sender /\ c \notin Post /\ NoOne # c
      /\ \A p \in Post : p # NoOne /\ p # c
  BY ControlAssumption DEF CtlInv, Sender, NoOne
<1>2. /\ pump' = [pump EXCEPT ![c] = "on"] /\ inHand' = [inHand EXCEPT ![c] = <<>>]
      /\ holder' = NoOne /\ UNCHANGED <<conn, input, reader, rest, queue, answer>>
      /\ (conn = "open" => wire' = wire \o inHand[c]) /\ (conn # "open" => wire' = wire)
      /\ inHand[c] # <<>> /\ holder = c /\ Len(inHand[c]) <= 1
  BY <1>1 DEF WriteOne, Line
<1>3. inHand[c] \in Seq(Msg) /\ queue[c] \in Seq(Msg) /\ rest[c] \in Seq(Msg) /\ wire \in Seq(Msg)
  BY <1>1 DEF CtlTypeOK, Msg
<1>4. x \in Msg /\ inHand[c] = <<x>>
  BY <1>2, <1>3
<1>5. conn = "open" => wire' = Append(wire, x)
  BY <1>2, <1>3, <1>4
<1> HIDE DEF x
<1>6. /\ inHand'[c] = <<>> /\ pump'[c] = "on"
      /\ \A d \in Sock : d # c => inHand'[d] = inHand[d] /\ pump'[d] = pump[d]
  BY <1>1, <1>2 DEF CtlTypeOK
<1>7. /\ wire' \in Seq(Msg) /\ \A i \in 1..Len(wire') : wire'[i][1] \in 1..Len(input')
      /\ InOrder(wire', input') /\ Paired(wire', input')
      /\ \A d \in Sender : d # c => Spared(d)
      /\ Sent(wire', input', c, queue[c]) /\ Sent(wire', input', c, rest[c])
  <2>1. /\ Below(<<x>>, queue[c]) /\ Below(<<x>>, rest[c]) /\ Own(input, c, <<x>>)
        /\ Sent(wire, input, c, <<x>>)
    BY <1>1, <1>4 DEF Line
  <2>2. Sent(wire, input, c, queue[c]) /\ Sent(wire, input, c, rest[c])
    BY <1>1 DEF Line, RestLine
  <2>3. CASE conn = "open"
    <3>1. wire' = Append(wire, x) /\ input' = input
      BY <1>2, <1>5, <2>3
    <3> QED BY <1>1, <1>3, <1>4, <2>1, <2>2, <3>1, WireKeeps
  <2>4. CASE conn # "open"
    <3>1. wire' = wire /\ input' = input
      BY <1>2, <2>4
    <3>2. \A d \in Sender : Spared(d)
      BY <3>1, QuietSpared
    <3> QED BY <1>3, <2>2, <3>1, <3>2 DEF CtlInv
  <2> QED BY <2>3, <2>4
<1>8. CtlTypeOK'
  <2>1. pump' \in [Sock -> {"on", "writing", "ended"}]
    BY <1>1, <1>2 DEF CtlTypeOK
  <2>2. inHand' \in [Sock -> Seq(Msg)]
    BY <1>1, <1>2 DEF CtlTypeOK, Msg
  <2> QED BY <1>1, <1>2, <1>7, <2>1, <2>2 DEF CtlTypeOK, Msg
<1>9. Line(c)'
  <2>1. /\ Ascending(queue[c]) /\ Below(queue[c], rest[c]) /\ Own(input, c, queue[c])
        /\ (reader[c] = "passing" => rest[c] # <<>>)
    BY <1>1 DEF Line
  <2>2. Len(<<>>) = 0 /\ \A i \in 1..Len(<<>>) : FALSE
    OBVIOUS
  <2>3. \A s : Below(<<>>, s) /\ Own(input, c, <<>>) /\ Sent(wire', input, c, <<>>)
    BY <2>2 DEF Below, Own, Sent
  <2>4. /\ queue'[c] = queue[c] /\ rest'[c] = rest[c] /\ input' = input /\ reader'[c] = reader[c]
        /\ Len(inHand'[c]) <= 1 /\ pump'[c] # "writing"
    BY <1>2, <1>6, <2>2
  <2>5. /\ Ascending(queue'[c]) /\ Below(inHand'[c], queue'[c]) /\ Below(inHand'[c], rest'[c])
        /\ Below(queue'[c], rest'[c]) /\ Own(input', c, inHand'[c])
        /\ Own(input', c, queue'[c]) /\ Sent(wire', input', c, inHand'[c])
        /\ Sent(wire', input', c, queue'[c])
    BY <1>6, <1>7, <2>1, <2>3, <2>4
  <2> QED BY <2>1, <2>4, <2>5 DEF Line
<1>10. RestLine(c)'
  BY <1>1, <1>2, <1>7 DEF RestLine
<1>11. ASSUME NEW d \in Sock, d # c PROVE Line(d)'
  <2>1. Line(d) /\ Spared(d) /\ d \in Sender
    BY <1>7, <1>11 DEF CtlInv, Sender
  <2>2. (reader[d] = "passing" => rest[d] # <<>>) /\ pump[d] # "writing"
    BY <1>2, <1>11, <2>1 DEF Line
  <2> QED BY <1>1, <1>2, <1>6, <1>11, <2>1, <2>2, KeepLine
<1>12. ASSUME NEW d \in Sender, d # c PROVE RestLine(d)'
  <2>1. RestLine(d) /\ Spared(d) /\ rest'[d] = rest[d]
    BY <1>2, <1>7, <1>12 DEF CtlInv
  <2> QED BY <1>1, <2>1, KeepRest
<1>13. ASSUME NEW p \in Post PROVE PostLine(p)'
  <2>1. PostLine(p) /\ p # c /\ p # NoOne
    BY <1>1 DEF CtlInv
  <2> QED BY <1>2, <2>1, KeepPost
<1> QED BY <1>2, <1>7, <1>8, <1>9, <1>10, <1>11, <1>12, <1>13 DEF CtlInv

\* A POST writes its next message under the lock it keeps.
LEMMA WritePostKeeps ==
  ASSUME CtlInv, NEW p \in Post, WritePost(p), conn = "open"
  PROVE  CtlInv'
<1> DEFINE s == rest[p]
<1>1. /\ CtlTypeOK /\ RestLine(p) /\ PostLine(p) /\ p \in Sender /\ p \notin Sock
      /\ \A d \in Sock : d # p
  BY ControlAssumption DEF CtlInv, Sender
<1>2. /\ wire' = Append(wire, Head(s)) /\ rest' = [rest EXCEPT ![p] = Tail(s)]
      /\ UNCHANGED <<conn, holder, input, reader, queue, inHand, pump, answer>>
      /\ s # <<>> /\ holder = p
  BY DEF WritePost
<1>3. s \in Seq(Msg) /\ wire \in Seq(Msg)
  BY <1>1 DEF CtlTypeOK, Msg
<1>4. /\ Head(s) = s[1] /\ s[1] \in Msg /\ Tail(s) \in Seq(Msg)
      /\ Len(s) \in Nat \ {0} /\ Len(Tail(s)) = Len(s) - 1
      /\ \A i \in 1..Len(Tail(s)) : Tail(s)[i] = s[i + 1] /\ i + 1 \in 1..Len(s)
  BY <1>2, <1>3, TailOf
<1> HIDE DEF s
<1>5. /\ rest'[p] = Tail(s) /\ \A d \in Sender : d # p => rest'[d] = rest[d]
  BY <1>1, <1>2 DEF CtlTypeOK
<1>6. /\ Ascending(s) /\ Own(input, p, s) /\ Sent(wire, input, p, s)
      /\ OneEvent(s)
  BY <1>1 DEF RestLine, s
<1>7. /\ Ascending(Tail(s)) /\ Below(<<s[1]>>, Tail(s)) /\ Own(input, p, Tail(s))
      /\ Own(input, p, <<s[1]>>) /\ Sent(wire, input, p, Tail(s)) /\ Sent(wire, input, p, <<s[1]>>)
  BY <1>2, <1>3, <1>6, TailLine
<1>8. /\ reader[p] = "passing"
      /\ s[1][2] = 2 => wire # <<>> /\ wire[Len(wire)] = <<s[1][1], 1>>
  BY <1>1, <1>2 DEF PostLine, s
<1>9. /\ wire' \in Seq(Msg) /\ \A i \in 1..Len(wire') : wire'[i][1] \in 1..Len(input')
      /\ InOrder(wire', input') /\ Paired(wire', input')
      /\ \A d \in Sender : d # p => Spared(d)
      /\ Sent(wire', input', p, Tail(s))
  <2>1. wire' = Append(wire, s[1]) /\ input' = input
    BY <1>2, <1>4
  <2> QED BY <1>1, <1>4, <1>7, <1>8, <2>1, WireKeeps
<1>10. CtlTypeOK'
  <2>1. rest' \in [Sender -> Seq(Msg)]
    BY <1>1, <1>2, <1>4 DEF CtlTypeOK, Msg
  <2> QED BY <1>1, <1>2, <1>9, <2>1 DEF CtlTypeOK, Msg
<1>11. RestLine(p)'
  <2>1. OneEvent(Tail(s))
    BY <1>2, <1>3, <1>6, TailLine
  <2> QED BY <1>2, <1>5, <1>7, <1>9, <2>1 DEF RestLine
<1>12. PostLine(p)'
  <2>1. ASSUME Tail(s) # <<>>
        PROVE  wire' # <<>> /\ (Tail(s)[1][2] = 2 => wire'[Len(wire')] = <<Tail(s)[1][1], 1>>)
    <3>1. 1 \in 1..Len(Tail(s)) /\ 2 \in 1..Len(s) /\ 1 \in 1..Len(s) /\ Tail(s)[1] = s[2]
      <4>1. Len(Tail(s)) \in Nat \ {0}
        BY <1>4, <2>1, TailOf
      <4> QED BY <1>4, <4>1
    <3>2. s[1] \in Msg /\ s[2] \in Msg /\ Before(s[1], s[2]) /\ s[1][1] = s[2][1]
      BY <1>3, <1>6, <3>1 DEF Ascending, OneEvent
    <3>3. s[1] = <<s[2][1], 1>>
      BY <3>2 DEF Before, Msg
    <3>4. /\ wire' # <<>> /\ Len(wire') = Len(wire) + 1 /\ wire'[Len(wire) + 1] = s[1]
      BY <1>2, <1>3, <1>4, AppendOf
    <3> QED BY <3>1, <3>3, <3>4
  <2> QED BY <1>2, <1>5, <1>8, <2>1 DEF PostLine
<1>13. ASSUME NEW d \in Sock PROVE Line(d)'
  <2>1. Line(d) /\ Spared(d) /\ d \in Sender /\ rest'[d] = rest[d]
    BY <1>1, <1>5, <1>9 DEF CtlInv, Sender
  <2>2. reader[d] = "passing" => rest[d] # <<>>
    BY <2>1 DEF Line
  <2> QED BY <1>1, <1>2, <2>1, <2>2, KeepLine
<1>14. ASSUME NEW d \in Sender, d # p PROVE RestLine(d)'
  <2>1. RestLine(d) /\ Spared(d) /\ rest'[d] = rest[d]
    BY <1>5, <1>9, <1>14 DEF CtlInv
  <2> QED BY <1>1, <2>1, KeepRest
<1>15. ASSUME NEW q \in Post, q # p PROVE PostLine(q)'
  <2>1. PostLine(q) /\ q \in Sender /\ rest'[q] = rest[q]
    BY <1>5, <1>15 DEF CtlInv, Sender
  <2> QED BY <1>2, <1>15, <2>1, KeepPost
<1> QED BY <1>2, <1>9, <1>10, <1>11, <1>12, <1>13, <1>14, <1>15 DEF CtlInv

LEMMA CtlStep == CtlInv /\ [CtlNext]_ctlVars => CtlInv'
<1> SUFFICES ASSUME CtlInv, [CtlNext]_ctlVars PROVE CtlInv'
  OBVIOUS
<1> DEFINE Codes == {"none", "unavailable", "refused", "failed", "done"}
<1>0. /\ CtlTypeOK /\ answer \in [Post -> Codes] /\ Sock \subseteq Sender /\ Post \subseteq Sender
      /\ \A c \in Sock : Line(c) /\ c \notin Post /\ c # NoOne
      /\ \A p \in Post : PostLine(p) /\ p \notin Sock /\ p # NoOne
      /\ conn \in {"nil", "open", "closed"} /\ NoOne \in Sender \cup {NoOne}
  BY ControlAssumption DEF CtlInv, CtlTypeOK, Sender, NoOne
<1>1. ASSUME NEW c \in Sender, NEW type \in Event, Receive(c, type) PROVE CtlInv'
  BY <1>1, ReceiveKeeps
<1>2. ASSUME NEW c \in Sock, Enqueue(c) PROVE CtlInv'
  BY <1>2, EnqueueKeeps
<1>3. ASSUME NEW c \in Sock, Take(c) PROVE CtlInv'
  BY <1>3, TakeKeeps
<1>4. ASSUME NEW c \in Sock, WriteOne(c) PROVE CtlInv'
  BY <1>4, WriteOneKeeps
<1>5. ASSUME NEW c \in Sock, Skip(c) PROVE CtlInv'
  <2>1. /\ reader' = [reader EXCEPT ![c] = "reading"] /\ rest' = [rest EXCEPT ![c] = <<>>]
        /\ UNCHANGED <<conn, holder, input, queue, inHand, pump, answer, wire>>
    BY <1>5 DEF Skip
  <2> QED BY <1>0, <2>1, SkipKeeps
<1>6. ASSUME NEW c \in Sock, Gone(c) PROVE CtlInv'
  <2>1. /\ reader' = [reader EXCEPT ![c] = "gone"]
        /\ UNCHANGED <<conn, holder, input, rest, queue, inHand, pump, answer, wire>>
    BY <1>6 DEF Gone
  <2> QED BY <1>0, <2>1, SkipKeeps
<1>7. ASSUME NEW c \in Sender, Accept(c) PROVE CtlInv'
  <2>1. /\ reader' = [reader EXCEPT ![c] = "passing"] /\ reader[c] = "parsed" /\ rest[c] # <<>>
        /\ holder = NoOne
        /\ UNCHANGED <<conn, holder, input, rest, queue, inHand, pump, answer, wire>>
    BY <1>7 DEF Accept
  <2> QED BY <1>0, <2>1, SkipKeeps
<1>8. ASSUME NEW p \in Post, Refuse(p) PROVE CtlInv'
  <2>1. /\ reader' = [reader EXCEPT ![p] = "gone"] /\ reader[p] = "parsed" /\ holder = NoOne
        /\ \E code \in Codes : answer' = [answer EXCEPT ![p] = code]
        /\ UNCHANGED <<conn, holder, input, rest, queue, inHand, pump, wire>>
    BY <1>8 DEF Refuse, Answer
  <2>2. answer' \in [Post -> Codes]
    BY <1>0, <2>1
  <2> QED BY <1>0, <2>1, <2>2, SkipKeeps
<1>9. ASSUME UNCHANGED <<input, reader, rest, queue, inHand, pump, answer, wire, holder>>,
             conn' \in {"nil", "open", "closed"}
      PROVE  CtlInv'
  <2>1. CtlTypeOK'
    BY <1>0, <1>9 DEF CtlTypeOK
  <2>2. /\ \A d \in Sock : pump[d] = "writing" => inHand[d] # <<>> /\ holder = d
        /\ \A p \in Post : holder = p => reader[p] = "passing"
    BY <1>0 DEF Line, PostLine
  <2> QED BY <1>9, <2>1, <2>2, LockKeeps
<1>10. ASSUME NEW c \in Sock, Lock(c) PROVE CtlInv'
  <2>1. /\ holder' = c /\ pump' = [pump EXCEPT ![c] = "writing"] /\ inHand[c] # <<>>
        /\ holder = NoOne /\ UNCHANGED <<conn, input, reader, rest, queue, inHand, answer, wire>>
    BY <1>10 DEF Lock
  <2>2. pump' \in [Sock -> {"on", "writing", "ended"}]
        /\ \A d \in Sock : d # c => pump'[d] = pump[d]
    BY <1>0, <2>1 DEF CtlTypeOK
  <2>3. CtlTypeOK'
    BY <1>0, <2>1, <2>2 DEF CtlTypeOK
  <2>4. \A d \in Sock : pump'[d] = "writing" => d = c
    BY <1>0, <2>1, <2>2 DEF Line
  <2> QED BY <1>0, <2>1, <2>3, <2>4, LockKeeps
<1>11. ASSUME NEW c \in Sock, WriterDone(c) PROVE CtlInv'
  <2>1. /\ pump' = [pump EXCEPT ![c] = "ended"]
        /\ UNCHANGED <<conn, holder, input, reader, rest, queue, inHand, answer, wire>>
    BY <1>11 DEF WriterDone
  <2>2. pump' \in [Sock -> {"on", "writing", "ended"}]
        /\ \A d \in Sock : pump'[d] = "writing" => pump[d] = "writing"
    BY <1>0, <2>1 DEF CtlTypeOK
  <2>3. CtlTypeOK'
    BY <1>0, <2>1, <2>2 DEF CtlTypeOK
  <2>4. /\ \A d \in Sock : pump'[d] = "writing" => inHand[d] # <<>> /\ holder = d
        /\ \A p \in Post : holder = p => reader[p] = "passing"
    BY <1>0, <2>2 DEF Line, PostLine
  <2> QED BY <2>1, <2>3, <2>4, LockKeeps
<1>12. ASSUME NEW p \in Post, LockPost(p) PROVE CtlInv'
  <2>1. /\ holder' = p /\ reader[p] = "passing" /\ holder = NoOne
        /\ UNCHANGED <<conn, input, reader, rest, queue, inHand, pump, answer, wire>>
    BY <1>12 DEF LockPost
  <2>2. CtlTypeOK'
    BY <1>0, <2>1 DEF CtlTypeOK
  <2>3. \A d \in Sock : pump[d] # "writing"
    BY <1>0, <2>1 DEF Line
  <2> QED BY <1>0, <2>1, <2>2, <2>3, LockKeeps
<1>13. ASSUME NEW p \in Post, NEW code \in Codes, holder = p, holder' = NoOne, Answer(p, code),
              UNCHANGED <<conn, input, rest, queue, inHand, pump, wire>>
       PROVE  CtlInv'
  <2>1. /\ answer' \in [Post -> Codes]
        /\ reader' \in [Sender -> {"reading", "parsed", "passing", "gone"}]
        /\ reader'[p] = "gone" /\ \A d \in Sender : d # p => reader'[d] = reader[d]
    BY <1>0, <1>13 DEF Answer, CtlTypeOK
  <2>2. CtlTypeOK'
    BY <1>0, <1>13, <2>1 DEF CtlTypeOK
  <2>3. \A d \in Sock : pump[d] # "writing"
    BY <1>0, <1>13 DEF Line
  <2>4. /\ \A d \in Sock : reader'[d] = reader[d]
        /\ \A q \in Post : reader'[q] \in {reader[q], "gone"} /\ (holder = q => reader'[q] = "gone")
    BY <1>0, <1>13, <2>1
  <2> QED BY <1>0, <1>13, <2>2, <2>3, <2>4, LockKeeps
<1>14. ASSUME NEW p \in Post, WritePost(p) PROVE CtlInv'
  <2>1. CASE conn = "open"
    BY <1>14, <2>1, WritePostKeeps
  <2>2. CASE conn # "open"
    BY <1>13, <1>14, <2>2 DEF WritePost
  <2> QED BY <2>1, <2>2
<1>15. ASSUME NEW p \in Post, PostDone(p) PROVE CtlInv'
  BY <1>13, <1>15 DEF PostDone
<1>16. CASE ControlConnected \/ Cancel \/ UNCHANGED ctlVars
  BY <1>0, <1>9, <1>16 DEF ControlConnected, Cancel, ctlVars
<1> QED BY <1>1, <1>2, <1>3, <1>4, <1>5, <1>6, <1>7, <1>8, <1>10, <1>11, <1>12, <1>14, <1>15,
           <1>16 DEF CtlNext

\* The types of the control path (ws.go, handlers.go, control.go).
THEOREM CtlTypes == CtlSpec => []CtlTypeOK
  BY CtlInitInv, CtlStep, PTL DEF CtlSpec, CtlInv

\* The device gets the input of one sender in the order the user made it, none
\* twice, and nothing between the two messages of a POST, for every number of
\* clients, requests and events and every capacity of the queues.
THEOREM ControlInputOrdered == CtlSpec => []InputOrdered
<1>1. CtlInv => InputOrdered
  BY DEF CtlInv, InOrder, Paired, InputOrdered, By, Before
<1> QED BY <1>1, CtlInitInv, CtlStep, PTL DEF CtlSpec

\* controlMu is locked only by a goroutine that is writing its message, or by a POST
\* that is writing and not yet answered.
ControlInUse ==
  /\ \A c \in Sock : holder = c <=> pump[c] = "writing"
  /\ \A p \in Post : holder = p => reader[p] = "passing" /\ answer[p] = "none"

\* No path out of a write keeps controlMu: after a write that failed, without a
\* socket, and when a POST has been answered, the lock is with somebody else or
\* free (the state behind ControlWritersEnd).
THEOREM ControlMutexInUse == CtlSpec => []ControlInUse
<1> DEFINE Unanswered == \A p \in Post : reader[p] = "gone" \/ answer[p] = "none"
           Kept == ControlInUse /\ Unanswered
<1>1. CtlInit => Kept
  BY ControlAssumption DEF CtlInit, ControlInUse, NoOne, Sender
<1>2. CtlInv /\ Kept /\ [CtlNext]_ctlVars => Kept'
  <2> SUFFICES ASSUME CtlInv, Kept, [CtlNext]_ctlVars PROVE Kept'
    OBVIOUS
  <2>0. /\ holder \in Sender \cup {NoOne} /\ reader \in [Sender -> {"reading", "parsed", "passing", "gone"}]
        /\ pump \in [Sock -> {"on", "writing", "ended"}]
        /\ answer \in [Post -> {"none", "unavailable", "refused", "failed", "done"}]
        /\ NoOne \notin Sender /\ Sock \cap Post = {} /\ Sock \subseteq Sender /\ Post \subseteq Sender
    BY ControlAssumption DEF CtlInv, CtlTypeOK, NoOne, Sender
  <2> USE <2>0 DEF ControlInUse
  <2>1. CASE UNCHANGED ctlVars \/ ControlConnected \/ Cancel
    BY <2>1 DEF ctlVars, ControlConnected, Cancel
  <2>2. ASSUME NEW c \in Sender, Accept(c) \/ \E type \in Event : Receive(c, type) PROVE Kept'
    BY <2>2 DEF Accept, Receive
  <2>3. ASSUME NEW c \in Sock, Skip(c) \/ Enqueue(c) \/ Gone(c) \/ Take(c) PROVE Kept'
    BY <2>3 DEF Skip, Enqueue, Gone, Take
  <2>4. ASSUME NEW c \in Sock, Lock(c) \/ WriteOne(c) \/ WriterDone(c) PROVE Kept'
    BY <2>4 DEF Lock, WriteOne, WriterDone
  <2>5. ASSUME NEW p \in Post, Refuse(p) \/ LockPost(p) \/ WritePost(p) \/ PostDone(p) PROVE Kept'
    BY <2>5 DEF Refuse, LockPost, WritePost, PostDone, Answer
  <2> QED BY <2>1, <2>2, <2>3, <2>4, <2>5 DEF CtlNext
<1> QED BY <1>1, <1>2, CtlInitInv, CtlStep, PTL DEF CtlSpec

-----------------------------------------------------------------------------
(* The input of iOS devices.                                               *)

JobKind == {"touch", "button", "edge", "text"}
JobSize == Size \cup {Unknown, Default}
Jobs == [kind : JobKind, at : {"ensure", "size", "act", "ended"}, from : Point, to : Point,
         size : JobSize]
Touches == [from : Point, to : Point, own : Point]
Acts == [job : Nat, from : Point, to : Point, size : JobSize]

\* A goroutine that is about to act on the screen has a size.
Sized(j) == jobs[j].kind \in {"touch", "edge"} /\ jobs[j].at = "act" => jobs[j].size # Unknown

\* What was carried out is the copy its goroutine got, and the goroutine is done.
CarriedOut(i) ==
  LET a == acts[i] IN
  /\ a.job \in 1..Len(jobs)
  /\ a.from = jobs[a.job].from /\ a.to = jobs[a.job].to
  /\ jobs[a.job].kind \in {"touch", "edge"} => a.size # Unknown
  /\ jobs[a.job].at = "ended"

TouchInv ==
  /\ origin \in Point /\ pressed \in [Hand -> Point]
  /\ logical \in Size \cup {Unknown} /\ window \in Size
  /\ jobs \in Seq(Jobs) /\ touches \in Seq(Touches) /\ acts \in Seq(Acts)
  /\ Len(touches) = Len(jobs)
  /\ \A j \in 1..Len(jobs) : touches[j].from = jobs[j].from /\ touches[j].to = jobs[j].to
  /\ \A j \in 1..Len(jobs) : Sized(j)
  /\ \A i \in 1..Len(acts) : CarriedOut(i)
  /\ \A i, k \in 1..Len(acts) : acts[i].job = acts[k].job => i = k

LEMMA JobFields ==
  ASSUME NEW r \in Jobs
  PROVE  r.kind \in JobKind /\ r.from \in Point /\ r.to \in Point /\ r.size \in JobSize
  BY DEF Jobs

\* What a history entry says stays true while the goroutine it names is at its end.
LEMMA CarriedOutStays ==
  ASSUME NEW i \in 1..Len(acts), CarriedOut(i), acts'[i] = acts[i], Len(jobs) \in Nat,
         Len(jobs') \in Nat, Len(jobs') >= Len(jobs), jobs'[acts[i].job] = jobs[acts[i].job]
  PROVE  CarriedOut(i)'
  BY DEF CarriedOut

\* A new goroutine.
LEMMA SpawnKeeps ==
  ASSUME TouchInv, NEW c \in Hand, NEW kind \in JobKind, NEW l \in {"ensure", "act"},
         NEW to \in Point, NEW size \in JobSize, Spawn(c, kind, l, origin, to, size),
         l = "act" => kind \notin {"touch", "edge"}
  PROVE  TouchInv'
<1> USE DEF TouchInv
<1> DEFINE job == [kind |-> kind, at |-> l, from |-> origin, to |-> to, size |-> size]
           touch == [from |-> origin, to |-> to, own |-> pressed[c]]
<1>1. /\ jobs' = Append(jobs, job) /\ touches' = Append(touches, touch)
      /\ UNCHANGED <<origin, pressed, logical, window, acts>>
  BY DEF Spawn
<1>2. job \in Jobs /\ touch \in Touches
  BY DEF Jobs, Touches
<1>3. job.from = touch.from /\ job.to = touch.to /\ job.kind = kind /\ job.at = l
  OBVIOUS
<1> HIDE DEF job, touch
<1>4. /\ jobs' \in Seq(Jobs) /\ touches' \in Seq(Touches)
      /\ Len(jobs') = Len(jobs) + 1 /\ Len(touches') = Len(jobs')
      /\ \A j \in 1..Len(jobs) : jobs'[j] = jobs[j] /\ touches'[j] = touches[j]
      /\ jobs'[Len(jobs) + 1] = job /\ touches'[Len(jobs) + 1] = touch
      /\ Len(jobs) \in Nat
  BY <1>1, <1>2
<1>5. ASSUME NEW j \in 1..Len(jobs')
      PROVE  /\ touches'[j].from = jobs'[j].from /\ touches'[j].to = jobs'[j].to
             /\ Sized(j)'
  <2>1. j \in 1..Len(jobs) \/ j = Len(jobs) + 1
    BY <1>4
  <2>2. CASE j \in 1..Len(jobs)
    BY <1>4, <2>2 DEF Sized
  <2>3. CASE j = Len(jobs) + 1
    BY <1>3, <1>4, <2>3 DEF Sized
  <2> QED BY <2>1, <2>2, <2>3
<1>6. ASSUME NEW i \in 1..Len(acts) PROVE CarriedOut(i)'
  <2>1. CarriedOut(i) /\ acts[i].job \in 1..Len(jobs)
    BY DEF CarriedOut
  <2>2. Len(jobs') \in Nat /\ Len(jobs') >= Len(jobs)
    BY <1>4
  <2> QED BY <1>1, <1>4, <2>1, <2>2, CarriedOutStays
<1> QED BY <1>1, <1>4, <1>5, <1>6

\* A step of the goroutine of input j that carries nothing out.
LEMMA JobKeeps ==
  ASSUME TouchInv, NEW j \in 1..Len(jobs), jobs[j].at # "ended",
         NEW l \in {"size", "act", "ended"}, NEW size \in JobSize, Job(j, l, size),
         l = "act" /\ jobs[j].kind \in {"touch", "edge"} => size # Unknown,
         logical' \in Size \cup {Unknown}, UNCHANGED <<origin, pressed, window, touches, acts>>
  PROVE  TouchInv'
<1> DEFINE job == [jobs[j] EXCEPT !.at = l, !.size = size]
<1>1. jobs[j] \in Jobs /\ Len(jobs) \in Nat
  BY DEF TouchInv
<1>2. /\ job \in Jobs /\ job.kind = jobs[j].kind /\ job.from = jobs[j].from
      /\ job.to = jobs[j].to /\ job.at = l /\ job.size = size
  <2>1. job = [jobs[j] EXCEPT !.at = l, !.size = size]
    OBVIOUS
  <2> HIDE DEF job
  <2> QED BY <1>1, <2>1 DEF Jobs
<1> USE DEF TouchInv
<1>3. jobs' = [jobs EXCEPT ![j] = job]
  BY DEF Job
<1> HIDE DEF job
<1>4. /\ jobs' \in Seq(Jobs) /\ Len(jobs') = Len(jobs) /\ jobs'[j] = job
      /\ \A k \in 1..Len(jobs) : k # j => jobs'[k] = jobs[k]
  BY <1>1, <1>2, <1>3
<1>5. ASSUME NEW k \in 1..Len(jobs)
      PROVE  /\ touches'[k].from = jobs'[k].from /\ touches'[k].to = jobs'[k].to
             /\ Sized(k)'
  <2>1. CASE k = j
    BY <1>2, <1>4, <2>1 DEF Sized
  <2>2. CASE k # j
    BY <1>4, <2>2 DEF Sized
  <2> QED BY <2>1, <2>2
<1>6. ASSUME NEW i \in 1..Len(acts) PROVE CarriedOut(i)'
  <2>1. acts[i].job # j /\ acts[i].job \in 1..Len(jobs) /\ CarriedOut(i)
    BY DEF CarriedOut
  <2>2. jobs'[acts[i].job] = jobs[acts[i].job]
    BY <1>4, <2>1
  <2>3. Len(jobs') \in Nat /\ Len(jobs') >= Len(jobs) /\ acts'[i] = acts[i]
    BY <1>1, <1>4
  <2> QED BY <1>1, <2>1, <2>2, <2>3, CarriedOutStays
<1> QED BY <1>4, <1>5, <1>6

\* WebDriverAgent carries the input out.
LEMMA ActKeeps ==
  ASSUME TouchInv, NEW j \in 1..Len(jobs), NEW ok \in BOOLEAN, Act(j, ok)
  PROVE  TouchInv'
<1>1. jobs[j] \in Jobs /\ jobs[j].size \in JobSize /\ Len(jobs) \in Nat /\ Sized(j)
  <2>1. jobs[j] \in Jobs /\ Len(jobs) \in Nat /\ Sized(j)
    BY DEF TouchInv
  <2> QED BY <2>1, JobFields
<1>2. CASE ~ok
  BY <1>1, <1>2, JobKeeps DEF Act, TouchInv
<1>3. CASE ok
  <2> DEFINE job == [jobs[j] EXCEPT !.at = "ended", !.size = jobs[j].size]
             act == [job |-> j, from |-> jobs[j].from, to |-> jobs[j].to, size |-> jobs[j].size]
  <2>1. /\ jobs' = [jobs EXCEPT ![j] = job] /\ acts' = Append(acts, act) /\ jobs[j].at = "act"
        /\ UNCHANGED <<origin, pressed, logical, window, touches>>
    BY <1>3 DEF Act, Job
  <2>2. /\ job \in Jobs /\ job.kind = jobs[j].kind /\ job.from = jobs[j].from
        /\ job.to = jobs[j].to /\ job.at = "ended" /\ act \in Acts
    <3>1. j \in Nat /\ jobs[j].from \in Point /\ jobs[j].to \in Point
      BY <1>1, JobFields
    <3>2. act \in Acts
      BY <1>1, <3>1 DEF Acts
    <3>3. job = [jobs[j] EXCEPT !.at = "ended", !.size = jobs[j].size]
      OBVIOUS
    <3> HIDE DEF act, job
    <3> QED BY <1>1, <3>2, <3>3 DEF Jobs
  <2>3. /\ act.job = j /\ act.from = jobs[j].from /\ act.to = jobs[j].to
        /\ act.size = jobs[j].size
    OBVIOUS
  <2> HIDE DEF job, act
  <2> USE DEF TouchInv
  <2>4. /\ jobs' \in Seq(Jobs) /\ Len(jobs') = Len(jobs) /\ jobs'[j] = job
        /\ \A k \in 1..Len(jobs) : k # j => jobs'[k] = jobs[k]
    BY <2>1, <2>2
  <2>5. /\ acts' \in Seq(Acts) /\ Len(acts') = Len(acts) + 1 /\ Len(acts) \in Nat
        /\ acts'[Len(acts) + 1] = act /\ \A i \in 1..Len(acts) : acts'[i] = acts[i]
    BY <2>1, <2>2
  <2>6. \A k \in 1..Len(jobs) : /\ touches'[k].from = jobs'[k].from
                                /\ touches'[k].to = jobs'[k].to
                                /\ Sized(k)'
    BY <2>1, <2>2, <2>4 DEF Sized
  <2>7. \A i \in 1..Len(acts) : acts[i].job # j
    BY <2>1 DEF CarriedOut
  <2>8. ASSUME NEW i \in 1..Len(acts') PROVE CarriedOut(i)'
    <3>1. i \in 1..Len(acts) \/ i = Len(acts) + 1
      BY <2>5
    <3>2. CASE i \in 1..Len(acts)
      <4>1. CarriedOut(i) /\ acts[i].job \in 1..Len(jobs) /\ acts[i].job # j
        BY <2>7, <3>2 DEF CarriedOut
      <4>2. jobs'[acts[i].job] = jobs[acts[i].job]
        BY <2>4, <4>1
      <4>3. Len(jobs') \in Nat /\ Len(jobs') >= Len(jobs) /\ acts'[i] = acts[i]
        BY <1>1, <2>4, <2>5, <3>2
      <4> QED BY <1>1, <3>2, <4>1, <4>2, <4>3, CarriedOutStays
    <3>3. CASE i = Len(acts) + 1
      BY <1>1, <2>1, <2>2, <2>3, <2>4, <2>5, <3>3 DEF CarriedOut, Sized
    <3> QED BY <3>1, <3>2, <3>3
  <2>9. \A i, k \in 1..Len(acts') : acts'[i].job = acts'[k].job => i = k
    <3>1. \A i \in 1..Len(acts') : i \in 1..Len(acts) \/ i = Len(acts) + 1
      BY <2>5
    <3>2. \A i \in 1..Len(acts) : acts'[i].job = acts[i].job /\ acts[i].job # j
      BY <2>5, <2>7
    <3>3. acts'[Len(acts) + 1].job = j
      BY <2>3, <2>5
    <3> HIDE DEF TouchInv
    <3>4. \A i, k \in 1..Len(acts) : acts[i].job = acts[k].job => i = k
      BY DEF TouchInv
    <3> QED BY <3>1, <3>2, <3>3, <3>4
  <2> QED BY <2>1, <2>4, <2>5, <2>6, <2>8, <2>9
<1> QED BY <1>2, <1>3

LEMMA TouchStepKeeps == TouchInv /\ [TouchNext]_touchVars => TouchInv'
<1> SUFFICES ASSUME TouchInv, [TouchNext]_touchVars PROVE TouchInv'
  OBVIOUS
<1>0. Unknown \in JobSize /\ logical \in JobSize /\ Size \subseteq JobSize /\ Default \in JobSize
  BY DEF TouchInv, JobSize
<1>1. CASE UNCHANGED touchVars
  BY <1>1 DEF touchVars, TouchInv, Sized, CarriedOut
<1>2. ASSUME NEW c \in Hand, NEW x \in Point, Down(c, x) PROVE TouchInv'
  BY <1>2 DEF Down, TouchInv, Sized, CarriedOut
<1>3. ASSUME NEW c \in Hand, NEW x \in Point, Up(c, x) PROVE TouchInv'
  BY <1>0, <1>3, SpawnKeeps DEF Up, JobKind
<1>4. ASSUME NEW c \in Hand, NEW k \in {"button", "edge"}, Key(c, k) PROVE TouchInv'
  BY <1>0, <1>4, SpawnKeeps DEF Key, JobKind, TouchInv
<1>5. ASSUME NEW c \in Hand, Text(c) PROVE TouchInv'
  BY <1>0, <1>5, SpawnKeeps DEF Text, JobKind, TouchInv
<1>6. ASSUME NEW j \in 1..Len(jobs), NEW ok \in BOOLEAN, EnsureSession(j, ok) PROVE TouchInv'
  <2> DEFINE l == CASE ~ok -> "ended" [] ok /\ jobs[j].kind = "button" -> "act" [] OTHER -> "size"
             s == IF jobs[j].kind = "edge" THEN logical ELSE jobs[j].size
  <2>1. l \in {"size", "act", "ended"} /\ (l = "act" => jobs[j].kind = "button")
    <3>1. CASE ~ok
      BY <3>1
    <3>2. CASE ok /\ jobs[j].kind = "button"
      BY <3>2
    <3>3. CASE ok /\ jobs[j].kind # "button"
      BY <3>3
    <3> QED BY <3>1, <3>2, <3>3
  <2>2. s \in JobSize
    <3>1. jobs[j] \in Jobs
      BY DEF TouchInv
    <3> QED BY <1>0, <3>1, JobFields
  <2>3. /\ Job(j, l, s) /\ jobs[j].at = "ensure"
        /\ UNCHANGED <<origin, pressed, logical, window, touches, acts>>
    BY <1>6 DEF EnsureSession
  <2>4. logical \in Size \cup {Unknown}
    BY DEF TouchInv
  <2> HIDE DEF l, s
  <2> QED BY <2>1, <2>2, <2>3, <2>4, JobKeeps
<1>7. ASSUME NEW j \in 1..Len(jobs), NEW ok \in BOOLEAN, GetWindowSize(j, ok) PROVE TouchInv'
  <2>1. window \in Size /\ window # Unknown /\ Default # Unknown /\ jobs[j].size \in JobSize
        /\ logical \in Size \cup {Unknown}
    <3>1. jobs[j] \in Jobs /\ window \in Size /\ logical \in Size \cup {Unknown}
      BY DEF TouchInv
    <3> QED BY <3>1, TouchAssumption, JobFields DEF Unknown, Default
  <2>2. PICK s \in JobSize : Job(j, "act", s) /\ s # Unknown /\ jobs[j].at = "size"
    BY <1>0, <1>7, <2>1 DEF GetWindowSize
  <2>3. logical' \in Size \cup {Unknown} /\ UNCHANGED <<origin, pressed, window, touches, acts>>
    BY <1>7, <2>1 DEF GetWindowSize
  <2> QED BY <2>2, <2>3, JobKeeps
<1>8. ASSUME NEW j \in 1..Len(jobs), NEW ok \in BOOLEAN, Act(j, ok) PROVE TouchInv'
  BY <1>8, ActKeeps
<1>9. CASE Rotate
  BY <1>9 DEF Rotate, TouchInv, Sized, CarriedOut
<1> QED BY <1>1, <1>2, <1>3, <1>4, <1>5, <1>6, <1>7, <1>8, <1>9 DEF TouchNext

\* However the gestures of the clients interleave with the goroutines that carry
\* them out, each is carried out at most once, as it was when the finger left the
\* screen and with a size, for any number of clients.
THEOREM TouchesFaithful == TouchSpec => []GesturesFaithful
<1>1. TouchInit => TouchInv
  BY DEF TouchInit, TouchInv
<1>2. TouchInv => GesturesFaithful
  BY DEF TouchInv, CarriedOut, GesturesFaithful
<1> QED BY <1>1, <1>2, TouchStepKeeps, PTL DEF TouchSpec
=============================================================================
