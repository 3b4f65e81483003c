-------------------------------- MODULE Vnc --------------------------------
(***************************************************************************)
(* The VNC server of vnc/vncserver (package rfb and the program around     *)
(* it), with viewers that use vnc/vncclient.                               *)
(*                                                                         *)
(* For every connection the server runs serve, which reads the viewer's    *)
(* messages, and from the first request for an update on pushFramesLoop,   *)
(* which writes.  main takes the connections one after the other from      *)
(* Conns; handleConn starts a painter that draws slides and feeds them to  *)
(* the connection, and receives the viewer's events until Event is closed. *)
(* The picture has two pixels, drawn and encoded one after the other.      *)
(***************************************************************************)
EXTENDS Integers, Sequences

CONSTANTS
  Viewers,    \* the viewers
  ViewerPlans,   \* what they do, for each viewer [version, auth: the security types it knows,
                 \* reads: does its user receive from ServerMessageCh?, calls: its calls, in order]
  Palette,    \* the colour <<r, g, b>> of each slide; as many are drawn
  ConnsCap, FeedCap, FbupcCap, EventCap, Wire   \* capacities (16, 16, 128, 16 and the network's)

\* A pixel format.  The other maxima and the shifts are those of the initial
\* format; the fields that vary lie in one machine word.
PixelFormat(bpp, big, true, max) == [BPP |-> bpp, BigEndian |-> big, TrueColour |-> true, RedMax |-> max]
ScreensThousands == PixelFormat(16, FALSE, TRUE, 31)

Nobody == "nobody"
NoViewer == [version |-> 0, auth |-> {}, reads |-> FALSE, calls |-> <<>>]   \* never connects
AuthNone == 1

VARIABLES
  died,       \* a panic in a goroutine without recover has ended the process
  conns,      \* the channel Conns
  handling,   \* whom handleConn serves
  dropped,    \* the connections for which Conns had no room
  paint,      \* the painter of each handleConn, its image and the image's lock
  conn,       \* each rfb.Conn: serve, pushFramesLoop and their channels
  viewer,     \* each vncclient.ClientConn and its user
  up, down    \* the two directions of each connection

vncVars == <<died, conns, handling, dropped, paint, conn, viewer, up, down>>

VncInit ==
    /\ died = FALSE /\ conns = <<>> /\ handling = Nobody /\ dropped = {}
    /\ paint = [v \in Viewers |-> [at |-> "off", slide |-> 0, img |-> <<0, 0>>, lock |-> "free", fresh |-> FALSE]]
    /\ conn = [v \in Viewers |-> [serve |-> "off", format |-> ScreensThousands, req |-> FALSE, event |-> <<>>, taken |-> <<>>,
                                  feed |-> 0, fbupc |-> <<>>, loop |-> "off", big |-> FALSE, buf |-> <<>>]]
    /\ \E plan \in ViewerPlans :
          viewer = [v \in Viewers |-> [at |-> "off", plan |-> plan[v], calls |-> plan[v].calls, encs |-> {"raw"},
                                      message |-> <<>>, shown |-> <<>>, asked |-> FALSE, kept |-> TRUE, synced |-> TRUE]]
    /\ up = [v \in Viewers |-> <<>>] /\ down = up

Send(wire, v, m) == [wire EXCEPT ![v] = Append(@, m)]
Shift(wire, v) == [wire EXCEPT ![v] = Tail(@)]
Comes(wire, v, what) == wire[v] # <<>> /\ wire[v][1][1] = what

Closed(v) == viewer[v].at = "closed"

-----------------------------------------------------------------------------
(* Colours on the wire: two or four bytes, or one.                         *)

Bytes(u, n, big) ==
    LET little == [i \in 1..n |-> (u \div 256 ^ (i - 1)) % 256]
    IN  IF big THEN [i \in 1..n |-> little[n + 1 - i]] ELSE little

High5(c) == 8 * (c \div 8)   \* c & 248

\* pushRGBAScreensThousandsLocked
FastPixel(c, big) == Bytes(High5(c[1]) * 2 ^ 7 + High5(c[2]) * 2 ^ 2 + c[3] \div 8, 2, big)

\* pushGenericLocked: RGBA() has 16 bits a component, of which five stay
InRange(c) == (c * 257) \div 2 ^ 11
GenericPixel(c, f) ==
    Bytes(InRange(c[1]) * 2 ^ 10 + InRange(c[2]) * 2 ^ 5 + InRange(c[3]), f.BPP \div 8, f.BigEndian)

IsScreensThousands(f) == f.BPP = 16 /\ f.TrueColour /\ f.RedMax = 31

\* RawEncoding.Read, in the format of ServerInit, which nothing changes
RawPixel(b) == LET u == b[1] + b[2] * 256 IN <<(u \div 2 ^ 10) % 32, (u \div 2 ^ 5) % 32, u % 32>>

-----------------------------------------------------------------------------
(* Server.Serve and Conn.serve.                                            *)

\* Dial and Accept; Conns is offered the connection, and serve is started.
Connect(v) ==
    /\ viewer[v].at = "off" /\ viewer[v].plan # NoViewer
    /\ viewer' = [viewer EXCEPT ![v].at = "version"]
    /\ IF Len(conns) < ConnsCap THEN conns' = Append(conns, v) /\ UNCHANGED dropped
                                ELSE dropped' = dropped \cup {v} /\ UNCHANGED conns
    /\ conn' = [conn EXCEPT ![v].serve = "version"]
    /\ down' = Send(down, v, <<"version">>)
    /\ UNCHANGED <<died, handling, paint, up>>

Serves(v, at) == conn' = [conn EXCEPT ![v].serve = at]

ServeVersion(v) ==
    /\ conn[v].serve = "version" /\ Comes(up, v, "version")
    /\ up' = Shift(up, v)
    /\ LET ver == up[v][1][2]
       IN  IF ver \notin {3, 7, 8} THEN Serves(v, "ending") /\ UNCHANGED down
           ELSE Serves(v, IF ver >= 7 THEN "type" ELSE "shared") /\ down' = Send(down, v, <<"types">>)
    /\ UNCHANGED <<died, conns, handling, dropped, paint, viewer>>

\* The version the viewer has asked for decides whether it gets a result.
ServeType(v) ==
    /\ conn[v].serve = "type" /\ Comes(up, v, "type")
    /\ up' = Shift(up, v)
    /\ IF up[v][1][2] # AuthNone THEN Serves(v, "ending") /\ UNCHANGED down
       ELSE /\ Serves(v, "shared")
            /\ down' = IF viewer[v].plan.version >= 8 THEN Send(down, v, <<"result">>) ELSE down
    /\ UNCHANGED <<died, conns, handling, dropped, paint, viewer>>

ServeInit(v) ==
    /\ conn[v].serve = "shared" /\ Comes(up, v, "shared")
    /\ up' = Shift(up, v)
    /\ conn' = [conn EXCEPT ![v].serve = "command", ![v].format = ScreensThousands]
    /\ down' = Send(down, v, <<"serverinit">>)
    /\ UNCHANGED <<died, conns, handling, dropped, paint, viewer>>

\* handleKeyEvent, handlePointerEvent: no event waits for handleConn.
Notice(c, e) == IF Len(c.event) < EventCap THEN [c EXCEPT !.event = Append(@, e)] ELSE c

\* One command that is handled without waiting; SetEncodings is read and
\* ignored, and a command of another type is a panic, which serve recovers.
Handled(c, m) ==
    CASE m[1] = "format" -> [c EXCEPT !.format = m[2]]
      [] m[1] = "event" -> Notice(c, m[2])
      [] m[1] = "encodings" -> c
      [] OTHER -> [c EXCEPT !.serve = "ending"]

ServeCommand(v) ==
    /\ conn[v].serve = "command" /\ up[v] # <<>> /\ up[v][1][1] # "request"
    /\ up' = Shift(up, v)
    /\ conn' = [conn EXCEPT ![v] = Handled(@, up[v][1])]
    /\ UNCHANGED <<died, conns, handling, dropped, paint, viewer, down>>

\* handleUpdateRequest: the first one waits for a first frame before it
\* reads on, and starts pushFramesLoop.
ServeRequest(v) ==
    /\ conn[v].serve = "command" /\ Comes(up, v, "request")
    /\ Serves(v, IF conn[v].loop = "off" THEN "first" ELSE "body")
    /\ UNCHANGED <<died, conns, handling, dropped, paint, viewer, up, down>>

\* Mutant: the loop is not started.
ServeFirstAlone(v) ==
    /\ conn[v].serve = "first" /\ conn[v].feed > 0
    /\ conn' = [conn EXCEPT ![v].serve = "body", ![v].feed = @ - 1]
    /\ UNCHANGED <<died, conns, handling, dropped, paint, viewer, up, down>>

ServeFirst(v) ==
    /\ conn[v].serve = "first" /\ conn[v].feed > 0
    /\ conn' = [conn EXCEPT ![v].serve = "body", ![v].feed = @ - 1, ![v].loop = "select"]
    /\ UNCHANGED <<died, conns, handling, dropped, paint, viewer, up, down>>

ServeBody(v) ==
    /\ conn[v].serve = "body" /\ up[v] # <<>>
    /\ up' = Shift(up, v)
    /\ conn' = [conn EXCEPT ![v].serve = "push", ![v].req = up[v][1][2]]
    /\ UNCHANGED <<died, conns, handling, dropped, paint, viewer, down>>

ServePush(v) ==
    /\ conn[v].serve = "push" /\ Len(conn[v].fbupc) < FbupcCap
    /\ conn' = [conn EXCEPT ![v].serve = "command", ![v].fbupc = Append(@, conn[v].req)]
    /\ UNCHANGED <<died, conns, handling, dropped, paint, viewer, up, down>>

\* A read fails once the viewer has closed the connection.
ServeFails(v) ==
    /\ conn[v].serve \in {"version", "type", "shared", "command", "body"} /\ Closed(v)
    /\ Serves(v, "ending")
    /\ UNCHANGED <<died, conns, handling, dropped, paint, viewer, up, down>>

\* The deferred calls: Event is closed first, then fbupc and the connection.
EventClosed(v) == conn[v].serve \in {"ending", "ended"}

ServeEnds(v) ==
    /\ conn[v].serve = "ending" /\ Serves(v, "ended")
    /\ UNCHANGED <<died, conns, handling, dropped, paint, viewer, up, down>>

-----------------------------------------------------------------------------
(* pushFramesLoop.  c.last is set before the loop starts, and it is always *)
(* the one image of handleConn.                                            *)

Loops(v, at) == conn' = [conn EXCEPT ![v].loop = at]

LoopRequest(v) ==
    /\ conn[v].loop = "select" /\ conn[v].fbupc # <<>>
    /\ conn' = [conn EXCEPT ![v].fbupc = Tail(@), ![v].loop = IF conn[v].fbupc[1] THEN "copy" ELSE "image"]
    /\ UNCHANGED <<died, conns, handling, dropped, paint, viewer, up, down>>

LoopFeed(v) ==
    /\ conn[v].loop = "select" /\ conn[v].feed > 0
    /\ conn' = [conn EXCEPT ![v].feed = @ - 1, ![v].loop = "image"]
    /\ UNCHANGED <<died, conns, handling, dropped, paint, viewer, up, down>>

\* Mutant: the image is not locked while it is encoded.
LockImageNot(v) == UNCHANGED paint

LockImage(v) == paint[v].lock = "free" /\ paint' = [paint EXCEPT ![v].lock = "loop"]

\* pushFrame, incremental: a rectangle that copies the picture onto itself,
\* whatever encodings the viewer has set.
LoopCopy(v) ==
    /\ conn[v].loop = "copy" /\ LockImage(v)
    /\ conn' = [conn EXCEPT ![v].loop = "flush", ![v].buf = <<"update", "copyrect", <<>>>>]
    /\ UNCHANGED <<died, conns, handling, dropped, viewer, up, down>>

\* pushImage: the byte order of the fast path is looked at once.
LoopImage(v) ==
    /\ conn[v].loop = "image" /\ LockImage(v)
    /\ IF conn[v].format.TrueColour
         THEN /\ conn' = [conn EXCEPT ![v].loop = IF IsScreensThousands(conn[v].format) THEN "fast" ELSE "generic",
                                     ![v].big = conn[v].format.BigEndian, ![v].buf = <<"update", "raw", <<>>>>]
              /\ UNCHANGED died
         ELSE died' = TRUE /\ UNCHANGED conn
    /\ UNCHANGED <<conns, handling, dropped, viewer, up, down>>

\* The next pixel; the generic path looks at the format for every one.
Encode(v, bytes) ==
    LET n == Len(conn[v].buf[3])
    IN  conn' = [conn EXCEPT ![v].buf[3] = Append(@, bytes), ![v].loop = IF n = 1 THEN "flush" ELSE @]

Colour(v) == Palette[paint[v].img[Len(conn[v].buf[3]) + 1]]

LoopFast(v) ==
    /\ conn[v].loop = "fast" /\ Encode(v, FastPixel(Colour(v), conn[v].big))
    /\ UNCHANGED <<died, conns, handling, dropped, paint, viewer, up, down>>

LoopGeneric(v) ==
    /\ conn[v].loop = "generic"
    /\ IF conn[v].format.RedMax = 31 /\ conn[v].format.BPP \in {8, 16, 32}
         THEN Encode(v, GenericPixel(Colour(v), conn[v].format)) /\ UNCHANGED died
         ELSE died' = TRUE /\ UNCHANGED conn
    /\ UNCHANGED <<conns, handling, dropped, paint, viewer, up, down>>

\* flush waits for room on the wire, and fails once the connection is closed
\* by either side; no error is looked at.
LoopFlush(v) ==
    /\ conn[v].loop = "flush"
    /\ IF Closed(v) \/ conn[v].serve = "ended" THEN UNCHANGED down
       ELSE Len(down[v]) < Wire /\ down' = Send(down, v, conn[v].buf)
    /\ conn' = [conn EXCEPT ![v].loop = "select", ![v].buf = <<>>]
    /\ paint' = [paint EXCEPT ![v].lock = "free"]
    /\ UNCHANGED <<died, conns, handling, dropped, viewer, up>>

LoopEnds(v) ==
    /\ conn[v].loop = "select" /\ conn[v].serve = "ended" /\ conn[v].fbupc = <<>>
    /\ Loops(v, "ended")
    /\ UNCHANGED <<died, conns, handling, dropped, paint, viewer, up, down>>

-----------------------------------------------------------------------------
(* main and handleConn.                                                    *)

TakeConn ==
    /\ handling = Nobody /\ conns # <<>>
    /\ handling' = Head(conns) /\ conns' = Tail(conns)
    /\ paint' = [paint EXCEPT ![Head(conns)].at = "idle"]
    /\ UNCHANGED <<died, dropped, conn, viewer, up, down>>

TakeEvent(v) ==
    /\ handling = v /\ conn[v].event # <<>>
    /\ conn' = [conn EXCEPT ![v].event = Tail(@), ![v].taken = Append(@, Head(conn[v].event))]
    /\ UNCHANGED <<died, conns, handling, dropped, paint, viewer, up, down>>

HandleEnds(v) ==
    /\ handling = v /\ EventClosed(v) /\ conn[v].event = <<>>
    /\ handling' = Nobody
    /\ UNCHANGED <<died, conns, dropped, paint, conn, viewer, up, down>>

\* The painter: a tick, the two pixels of the next slide under the lock.
PaintTick(v) ==
    /\ paint[v].at = "idle" /\ paint[v].slide < Len(Palette)
    /\ paint' = [paint EXCEPT ![v].at = "lock", ![v].slide = @ + 1]
    /\ UNCHANGED <<died, conns, handling, dropped, conn, viewer, up, down>>

PaintLock(v) ==
    /\ paint[v].at = "lock" /\ paint[v].lock = "free"
    /\ paint' = [paint EXCEPT ![v].at = "draw", ![v].lock = "painter", ![v].img[1] = paint[v].slide]
    /\ UNCHANGED <<died, conns, handling, dropped, conn, viewer, up, down>>

PaintDone(v) ==
    /\ paint[v].at = "draw"
    /\ paint' = [paint EXCEPT ![v].at = "idle", ![v].lock = "free", ![v].img[2] = paint[v].slide, ![v].fresh = TRUE]
    /\ UNCHANGED <<died, conns, handling, dropped, conn, viewer, up, down>>

PaintFeed(v) ==
    /\ paint[v].at = "idle" /\ paint[v].fresh /\ conn[v].feed < FeedCap
    /\ conn' = [conn EXCEPT ![v].feed = @ + 1] /\ paint' = [paint EXCEPT ![v].fresh = FALSE]
    /\ UNCHANGED <<died, conns, handling, dropped, viewer, up, down>>

PaintEnds(v) ==
    /\ paint[v].at = "idle" /\ handling # v
    /\ paint' = [paint EXCEPT ![v].at = "ended"]
    /\ UNCHANGED <<died, conns, handling, dropped, conn, viewer, up, down>>

-----------------------------------------------------------------------------
(* The viewer: Client with its handshake, the methods its user calls, and  *)
(* mainLoop.  Viewers of version 3 and 7 are not vncclient's.              *)

Gone(v) == viewer' = [viewer EXCEPT ![v].at = "closed"]

ShakeVersion(v) ==
    /\ viewer[v].at = "version" /\ Comes(down, v, "version")
    /\ down' = Shift(down, v) /\ up' = Send(up, v, <<"version", viewer[v].plan.version>>)
    /\ viewer' = [viewer EXCEPT ![v].at = "types"]
    /\ UNCHANGED <<died, conns, handling, dropped, paint, conn>>

\* Without a security type they share, the viewer closes the connection.
ShakeTypes(v) ==
    /\ viewer[v].at = "types" /\ Comes(down, v, "types")
    /\ down' = Shift(down, v)
    /\ IF viewer[v].plan.version = 3
         THEN up' = Send(up, v, <<"shared">>) /\ viewer' = [viewer EXCEPT ![v].at = "init"]
       ELSE IF AuthNone \notin viewer[v].plan.auth THEN Gone(v) /\ UNCHANGED up
       ELSE /\ up' = [up EXCEPT ![v] = @ \o <<<<"type", AuthNone>>>>
                                         \o IF viewer[v].plan.version = 7 THEN <<<<"shared">>>> ELSE <<>>]
            /\ viewer' = [viewer EXCEPT ![v].at = IF viewer[v].plan.version = 7 THEN "init" ELSE "result"]
    /\ UNCHANGED <<died, conns, handling, dropped, paint, conn>>

ShakeResult(v) ==
    /\ viewer[v].at = "result" /\ Comes(down, v, "result")
    /\ down' = Shift(down, v) /\ up' = Send(up, v, <<"shared">>)
    /\ viewer' = [viewer EXCEPT ![v].at = "init"]
    /\ UNCHANGED <<died, conns, handling, dropped, paint, conn>>

ShakeInit(v) ==
    /\ viewer[v].at = "init" /\ Comes(down, v, "serverinit")
    /\ down' = Shift(down, v)
    /\ viewer' = [viewer EXCEPT ![v].at = "open"]
    /\ UNCHANGED <<died, conns, handling, dropped, paint, conn, up>>

\* What a method of ClientConn leaves behind; SetPixelFormat does not change
\* the PixelFormat that RawEncoding.Read decodes with.
After(w, m) ==
    CASE m[1] = "encodings" -> [w EXCEPT !.encs = {"raw"} \cup m[2]]
      [] m[1] = "format" -> [w EXCEPT !.kept = @ /\ m[2] = ScreensThousands]
      [] m[1] = "request" -> [w EXCEPT !.asked = TRUE]
      [] m[1] = "close" -> [w EXCEPT !.at = "closed"]
      [] OTHER -> w

\* SetEncodings, SetPixelFormat, FramebufferUpdateRequest, KeyEvent,
\* PointerEvent, CutText and Close
Call(v) ==
    /\ viewer[v].at = "open" /\ viewer[v].calls # <<>>
    /\ LET m == Head(viewer[v].calls)
       IN  /\ IF m[1] = "close" THEN UNCHANGED up
              ELSE Len(up[v]) < Wire /\ up' = Send(up, v, m)
           /\ viewer' = [viewer EXCEPT ![v] = After([@ EXCEPT !.calls = Tail(@)], m)]
    /\ UNCHANGED <<died, conns, handling, dropped, paint, conn, down>>

\* FramebufferUpdateMessage.Read: an encoding that has not been set is an
\* error, and pixels of another size leave the reader in the middle of the
\* server's bytes, where it may or may not find something it takes for an error.
ReadUpdate(v, m) ==
    LET known == m[2] \in viewer[v].encs
        whole == \A i \in DOMAIN m[3] : Len(m[3][i]) = 2
    IN  \/ /\ viewer[v].synced /\ known /\ whole
           /\ viewer' = [viewer EXCEPT ![v].message = <<[i \in DOMAIN m[3] |-> RawPixel(m[3][i])]>>]
        \/ viewer[v].synced /\ known /\ ~whole /\ viewer' = [viewer EXCEPT ![v].synced = FALSE]
        \/ viewer[v].synced /\ ~known /\ Gone(v)
        \/ ~viewer[v].synced /\ (Gone(v) \/ UNCHANGED viewer)

MainLoop(v) ==
    /\ viewer[v].at = "open" /\ viewer[v].message = <<>> /\ down[v] # <<>>
    /\ down' = Shift(down, v) /\ ReadUpdate(v, Head(down[v]))
    /\ UNCHANGED <<died, conns, handling, dropped, paint, conn, up>>

\* The user receives from ServerMessageCh; the last two pictures are kept.
Receive(v) ==
    /\ viewer[v].at = "open" /\ viewer[v].plan.reads /\ viewer[v].message # <<>>
    /\ LET px == viewer[v].message[1]
           s == viewer[v].shown
       IN  viewer' = [viewer EXCEPT ![v].message = <<>>, ![v].asked = FALSE,
                        ![v].shown = IF px = <<>> THEN s ELSE SubSeq(Append(s, px), IF Len(s) < 2 THEN 1 ELSE 2, Len(s) + 1)]
    /\ UNCHANGED <<died, conns, handling, dropped, paint, conn, up, down>>

\* The handshake and mainLoop end when the server has closed the connection.
ViewerEnds(v) ==
    /\ viewer[v].at \notin {"off", "closed"} /\ viewer[v].message = <<>> /\ down[v] = <<>> /\ conn[v].serve = "ended"
    /\ Gone(v)
    /\ UNCHANGED <<died, conns, handling, dropped, paint, conn, up, down>>

-----------------------------------------------------------------------------

ServeSteps(v) == \/ ServeVersion(v) \/ ServeType(v) \/ ServeInit(v) \/ ServeCommand(v) \/ ServeRequest(v)
                 \/ ServeFirst(v) \/ ServeBody(v) \/ ServePush(v) \/ ServeFails(v) \/ ServeEnds(v)
LoopSteps(v) == \/ LoopRequest(v) \/ LoopFeed(v) \/ LoopCopy(v) \/ LoopImage(v) \/ LoopFast(v) \/ LoopGeneric(v) \/ LoopFlush(v) \/ LoopEnds(v)
MainSteps == TakeConn \/ \E v \in Viewers : TakeEvent(v) \/ HandleEnds(v)
PaintSteps(v) == \/ PaintTick(v) \/ PaintLock(v) \/ PaintDone(v) \/ PaintFeed(v) \/ PaintEnds(v)
ViewerSteps(v) == \/ ShakeVersion(v) \/ ShakeTypes(v) \/ ShakeResult(v) \/ ShakeInit(v) \/ MainLoop(v) \/ Receive(v) \/ ViewerEnds(v)

VncNext ==
    /\ ~died
    /\ \/ MainSteps
       \/ \E v \in Viewers : Connect(v) \/ Call(v) \/ ServeSteps(v) \/ LoopSteps(v) \/ PaintSteps(v) \/ ViewerSteps(v)

\* The goroutines run.  As many slides are drawn as there are colours, so a
\* select that could take a frame and something else takes the other in the end.
VncFairness ==
    /\ WF_vncVars(~died /\ MainSteps)
    /\ \A v \in Viewers : /\ WF_vncVars(~died /\ ServeSteps(v)) /\ WF_vncVars(~died /\ LoopSteps(v))
                           /\ WF_vncVars(~died /\ PaintSteps(v)) /\ WF_vncVars(~died /\ ViewerSteps(v))

-----------------------------------------------------------------------------
(* Properties.                                                             *)

\* The five high bits of each component of a slide's colour, in two pixels.
Picture(s) == [i \in 1..2 |-> [k \in 1..3 |-> Palette[s][k] \div 8]]

\* serve changes Conn.format while the loop may be encoding a picture, pixel by
\* pixel, with it.  A viewer that sets its format before its first request is
\* sent pixels of that size only.
FormatHeeded ==
    \A v \in Viewers :
       (\A i, j \in DOMAIN viewer[v].plan.calls :
           viewer[v].plan.calls[i][1] = "request" /\ viewer[v].plan.calls[j][1] = "format" => j < i)
       => \A k \in DOMAIN down[v] :
             down[v][k][1] = "update" => \A i \in DOMAIN down[v][k][3] : Len(down[v][k][3][i]) = conn[v].format.BPP \div 8

\* A viewer that stays with the server's pixel format is shown whole pictures
\* of one slide, in the colours drawn, and never an older one after a newer:
\* pushImage and the painter exclude each other by the image's lock.
PicturesWhole ==
    /\ FormatHeeded
    /\ \A v \in Viewers :
         viewer[v].kept =>
            /\ viewer[v].synced
            /\ \E s \in [DOMAIN viewer[v].shown -> DOMAIN Palette] :
                  /\ \A i \in DOMAIN s : viewer[v].shown[i] = Picture(s[i])
                  /\ \A i, j \in DOMAIN s : i < j => s[i] <= s[j]

Unanswered(v) ==
    viewer[v].asked /\ viewer[v].plan.reads /\ handling = v /\ ~Closed(v) /\ viewer[v].synced

\* A viewer whose user reads and whom handleConn serves is sent an update
\* after every request, unless it leaves, is made to leave, or has lost its
\* place in the server's bytes.  (The calls are finite, so "in the end no
\* request is unanswered" says it of each.)
RequestAnswered == <>[](died \/ \A v \in Viewers : ~Unanswered(v))

SessionOver(v) ==
    conn[v].serve = "ended" /\ conn[v].loop \in {"off", "ended"} /\ paint[v].at = "ended" /\ handling # v

\* When a viewer that main has taken from Conns closes its connection, in the
\* end all goroutines of the connection are over, whatever serve, the loop
\* and the painter were waiting for, and main has taken the next.
SessionEnds ==
    <>[](\/ died
         \/ /\ \A v \in Viewers : Closed(v) /\ paint[v].at # "off" => SessionOver(v)
            /\ handling = Nobody => conns = <<>>)

\* A viewer is served as long as it is there and its session ends with it.
ViewersServed == RequestAnswered /\ SessionEnds
=============================================================================
