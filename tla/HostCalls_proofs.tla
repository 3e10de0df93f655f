--------------------------- MODULE HostCalls_proofs ---------------------------
(***************************************************************************)
(* Proofs about the calls between hosts: what the two ends of a transfer   *)
(* agree on, the types of what hosts and applications keep, and what the   *)
(* applications know of their connections.                                 *)
(*                                                                         *)
(* The first part follows the state block of a connection from one side    *)
(* of the handshake to the other: SYN and SYN+ACK say all that matters     *)
(* about their senders' parameters.  The second is about the sockets, the  *)
(* third about the indications on their way: what a connection says last   *)
(* decides whether its server will have a thread for it.  The last derives *)
(* from these what can end the simulation.                                 *)
(***************************************************************************)
EXTENDS Hosts_proofs

\* The state block of a connection.
StateBlock ==
    [ws_support : BOOLEAN, ws_manual_scale : Nat \cup {-1}, ts_support : BOOLEAN,
     snd_mss : Nat, maxRcvBuffer : Nat, rcv_wnd : Nat, snd_wnd : Window,
     snd_ws : BOOLEAN, rcv_ws : BOOLEAN, ws_enabled : BOOLEAN,
     rcv_wnd_scale : Nat, snd_wnd_scale : 0 .. 14,
     snd_initial_ts : BOOLEAN, rcv_initial_ts : BOOLEAN, ts_enabled : BOOLEAN]

----------------------------------------------------------------------------
(* Scales and windows. *)

\* The least scale that makes a buffer fit the header.
LeastScale(buffer) ==
    CHOOSE s \in 0 .. 14 :
        /\ s = 14 \/ Scaled(buffer, s) <= RQ_MAX_WIN
        /\ \A r \in 0 .. s - 1 : Scaled(buffer, r) > RQ_MAX_WIN

ScaleOf(par) ==
    IF par.windowScalingFactor > -1 THEN par.windowScalingFactor
    ELSE LeastScale(par.advertisedWindow)

Least(m, n) == IF m < n THEN m ELSE n

LEMMA ScaledIsNat ==
  ASSUME NEW window \in Nat, NEW scale \in 0 .. 14
  PROVE  Scaled(window, scale) \in Nat
<1> DEFINE P(s) == 2^s \in Nat /\ 2^s > 0
<1>1. P(0) /\ P(1) /\ P(2) /\ P(3) /\ P(4) /\ P(5) /\ P(6) /\ P(7)
  OBVIOUS
<1>2. P(8) /\ P(9) /\ P(10) /\ P(11) /\ P(12) /\ P(13) /\ P(14)
  OBVIOUS
<1>3. P(scale)
  <2> HIDE DEF P
  <2> QED
    BY <1>1, <1>2
<1> DEFINE power == 2^scale
<1>4. power \in Nat /\ power > 0
  BY <1>3
<1>5. Scaled(window, scale) = IF scale = 0 THEN window ELSE window \div power
  BY DEF Scaled
<1> HIDE DEF power
<1>6. window \div power \in Nat
  BY <1>4
<1> QED
  BY <1>5, <1>6

\* If a scale of 14 makes a buffer fit the header, the scale that is chosen does.
LEMMA LeastScaleFits ==
  ASSUME NEW buffer \in Nat
  PROVE  /\ LeastScale(buffer) \in 0 .. 14
         /\ Scaled(buffer, 14) <= RQ_MAX_WIN => Scaled(buffer, LeastScale(buffer)) <= RQ_MAX_WIN
<1> DEFINE Fits(s) == s = 14 \/ Scaled(buffer, s) <= RQ_MAX_WIN
           S == {s \in 0 .. 14 : Fits(s)}
<1>1. PICK n \in S : \A m \in S : n <= m
  <2>1. S \in SUBSET Nat /\ 14 \in S
    OBVIOUS
  <2> HIDE DEF S
  <2> QED
    BY <2>1, LeastNatural
<1>2. n \in 0 .. 14 /\ Fits(n)
  BY <1>1
<1>3. ASSUME NEW r \in 0 .. n - 1 PROVE Scaled(buffer, r) > RQ_MAX_WIN
  <2>1. r \in 0 .. 14 /\ r \notin S
    BY <1>1, <1>2
  <2>2. ~(Scaled(buffer, r) <= RQ_MAX_WIN)
    BY <2>1
  <2>3. Scaled(buffer, r) \in Nat
    BY <2>1, ScaledIsNat
  <2> QED
    BY <2>2, <2>3 DEF RQ_MAX_WIN
<1>4. /\ LeastScale(buffer) \in 0 .. 14
      /\ LeastScale(buffer) = 14 \/ Scaled(buffer, LeastScale(buffer)) <= RQ_MAX_WIN
  BY <1>2, <1>3 DEF LeastScale
<1> QED
  BY <1>4

\* The scale of a state block.
LEMMA ScaleOfBlock ==
  ASSUME NEW st \in StateBlock
  PROVE  /\ WindowScale(st) = IF st.ws_manual_scale > -1 THEN st.ws_manual_scale
                              ELSE LeastScale(st.maxRcvBuffer)
         /\ WindowScale(st) \in Nat
<1>1. st.ws_manual_scale \in Nat \cup {-1} /\ st.maxRcvBuffer \in Nat
  BY DEF StateBlock
<1>2. WindowScale(st) = IF st.ws_manual_scale > -1 THEN st.ws_manual_scale
                        ELSE LeastScale(st.maxRcvBuffer)
  BY DEF WindowScale, LeastScale
<1>3. LeastScale(st.maxRcvBuffer) \in Nat
  BY <1>1, LeastScaleFits
<1> QED
  BY <1>1, <1>2, <1>3

LEMMA LowBits ==
  ASSUME NEW w \in Nat, NEW n \in Nat, n > 0
  PROVE  w % n \in 0 .. n - 1 /\ w % n <= w /\ (w < n => w % n = w)
<1>1. w % n \in 0 .. n - 1
  OBVIOUS
<1>2. w % n <= w
  OBVIOUS
<1>3. w < n => w % n = w
  OBVIOUS
<1> QED
  BY <1>1, <1>2, <1>3

\* A header has 16 bits for a window.
LEMMA SynWindowOK ==
  ASSUME NEW st \in StateBlock
  PROVE  /\ SynWindow(st) \in Window
         /\ SynWindow(st) <= st.rcv_wnd
         /\ st.rcv_wnd <= RQ_MAX_WIN => SynWindow(st) = st.rcv_wnd
<1> DEFINE w == st.rcv_wnd
           n == RQ_MAX_WIN + 1
           m == w % n
<1>1. w \in Nat /\ n \in Nat /\ n > 0 /\ RQ_MAX_WIN = n - 1 /\ Window = 0 .. n - 1
  <2>1. w \in Nat
    BY DEF StateBlock
  <2>2. RQ_MAX_WIN \in Nat
    BY DEF RQ_MAX_WIN
  <2>3. Window = 0 .. RQ_MAX_WIN
    BY DEF Window
  <2> HIDE DEF w
  <2>4. n \in Nat /\ n > 0 /\ RQ_MAX_WIN = n - 1
    BY <2>2
  <2> QED
    BY <2>1, <2>3, <2>4
<1>2. SynWindow(st) = m
  BY DEF SynWindow
<1> HIDE DEF w, n
<1>3. m \in 0 .. n - 1 /\ m <= w /\ (w < n => m = w)
  BY <1>1, LowBits
<1> HIDE DEF m
<1>4. /\ SynWindow(st) \in Window
      /\ SynWindow(st) <= w
      /\ w <= RQ_MAX_WIN => SynWindow(st) = w
  BY <1>1, <1>2, <1>3
<1> QED
  BY <1>4 DEF w

----------------------------------------------------------------------------
(* What the operations do to a state block. *)

LEMMA Configured ==
  ASSUME NEW st \in StateBlock, NEW par \in Parameters
  PROVE  LET new == Configure(st, par)
         IN  /\ new \in StateBlock
             /\ new.ws_support = par.windowScalingSupport
             /\ new.ws_manual_scale = par.windowScalingFactor
             /\ new.ts_support = par.timestampSupport
             /\ new.snd_mss = par.mss
             /\ new.maxRcvBuffer = par.advertisedWindow
             /\ \A f \in {"snd_ws", "rcv_ws", "ws_enabled", "rcv_wnd_scale", "snd_wnd_scale",
                          "snd_initial_ts", "rcv_initial_ts", "ts_enabled", "snd_wnd"} :
                   new[f] = st[f]
  BY DEF StateBlock, Parameters, Configure

LEMMA UnconfiguredBlock == Unconfigured \in StateBlock
  BY DEF Unconfigured, StateBlock, Window, RQ_MAX_WIN

LEMMA SndWndUpdated ==
  ASSUME NEW st \in StateBlock, NEW window \in Window
  PROVE  LET new == UpdateSndWnd(st, window)
         IN  /\ new \in StateBlock
             /\ new.snd_wnd = window
             /\ \A f \in DOMAIN st \ {"snd_wnd"} : new[f] = st[f]
  BY DEF StateBlock, UpdateSndWnd

LEMMA RcvWndUpdated ==
  ASSUME NEW st \in StateBlock
  PROVE  LET new == UpdateRcvWnd(st)
         IN  /\ new \in StateBlock
             /\ new.rcv_wnd = IF st.maxRcvBuffer > RQ_MAX_WIN /\ ~st.ws_enabled
                              THEN RQ_MAX_WIN ELSE st.maxRcvBuffer
             /\ \A f \in DOMAIN st \ {"rcv_wnd"} : new[f] = st[f]
  BY DEF StateBlock, UpdateRcvWnd, RQ_MAX_WIN

\* What a header's options change: an option that is missing changes nothing.
HasRead(new, st, opts) ==
    /\ new \in StateBlock
    /\ new.snd_mss = Least(opts.mss, st.snd_mss)
    /\ IF opts.ws = -1
       THEN /\ new.rcv_ws = st.rcv_ws /\ new.ws_enabled = st.ws_enabled
            /\ new.snd_wnd_scale = st.snd_wnd_scale
       ELSE /\ new.rcv_ws /\ new.ws_enabled = (st.ws_support /\ st.snd_ws)
            /\ new.snd_wnd_scale = Least(opts.ws, 14)
    /\ IF ~opts.ts \/ st.ts_enabled
       THEN new.rcv_initial_ts = st.rcv_initial_ts /\ new.ts_enabled = st.ts_enabled
       ELSE new.rcv_initial_ts /\ new.ts_enabled = (st.ts_support /\ st.snd_initial_ts)
    /\ \A f \in {"ws_support", "ws_manual_scale", "ts_support", "maxRcvBuffer", "rcv_wnd",
                 "snd_wnd", "snd_ws", "rcv_wnd_scale", "snd_initial_ts"} : new[f] = st[f]

LEMMA OptionsRead ==
  ASSUME NEW st \in StateBlock, st.snd_mss > 0, NEW opts,
         opts.mss \in Nat \ {0}, opts.ws \in Nat \cup {-1}, opts.ts \in BOOLEAN
  PROVE  HasRead(ReadOptions(st, opts), st, opts)
<1> DEFINE a == ReadMSS(st, opts.mss)
           b == ReadWS(a, opts.ws)
           new == ReadTS(b, opts.ts)
<1>1. /\ a \in StateBlock
      /\ a.snd_mss = Least(opts.mss, st.snd_mss)
      /\ \A f \in DOMAIN st \ {"snd_mss"} : a[f] = st[f]
  <2> DEFINE least == IF opts.mss < st.snd_mss THEN opts.mss ELSE st.snd_mss
  <2>1. least \in Nat \ {0} /\ least = Least(opts.mss, st.snd_mss) /\ opts.mss # 0
    BY DEF StateBlock, Least
  <2>2. a = [st EXCEPT !.snd_mss = least]
    BY <2>1 DEF ReadMSS
  <2> HIDE DEF least, a
  <2> QED
    BY <2>1, <2>2 DEF StateBlock
<1> HIDE DEF a
<1>2. /\ b \in StateBlock
      /\ IF opts.ws = -1
         THEN /\ b.rcv_ws = a.rcv_ws /\ b.ws_enabled = a.ws_enabled
              /\ b.snd_wnd_scale = a.snd_wnd_scale
         ELSE /\ b.rcv_ws /\ b.ws_enabled = (a.ws_support /\ a.snd_ws)
              /\ b.snd_wnd_scale = Least(opts.ws, 14)
      /\ \A f \in DOMAIN a \ {"rcv_ws", "ws_enabled", "snd_wnd_scale"} : b[f] = a[f]
  <2> DEFINE scales == a.ws_support /\ a.snd_ws
             scale == IF opts.ws > 14 THEN 14 ELSE opts.ws
  <2>1. CASE opts.ws = -1
    <3>1. b = a
      BY <2>1 DEF ReadWS
    <3> HIDE DEF b
    <3> QED
      BY <1>1, <2>1, <3>1
  <2>2. CASE opts.ws # -1
    <3>1. b = [a EXCEPT !.rcv_ws = TRUE, !.ws_enabled = scales, !.snd_wnd_scale = scale]
      BY <2>2 DEF ReadWS
    <3>2. scales \in BOOLEAN
      BY <1>1 DEF StateBlock
    <3>3. scale \in 0 .. 14 /\ scale = Least(opts.ws, 14)
      BY <2>2 DEF Least
    <3> HIDE DEF b, scales, scale
    <3>4. /\ b \in StateBlock /\ b.rcv_ws = TRUE /\ b.ws_enabled = scales
          /\ b.snd_wnd_scale = scale
          /\ \A f \in DOMAIN a \ {"rcv_ws", "ws_enabled", "snd_wnd_scale"} : b[f] = a[f]
      BY <1>1, <3>1, <3>2, <3>3 DEF StateBlock
    <3> QED
      BY <2>2, <3>3, <3>4 DEF scales
  <2> QED
    BY <2>1, <2>2
<1> HIDE DEF b
<1>3. /\ new \in StateBlock
      /\ IF ~opts.ts \/ b.ts_enabled
         THEN new.rcv_initial_ts = b.rcv_initial_ts /\ new.ts_enabled = b.ts_enabled
         ELSE /\ new.rcv_initial_ts
              /\ new.ts_enabled = (b.ts_support /\ b.snd_initial_ts)
      /\ \A f \in DOMAIN b \ {"rcv_initial_ts", "ts_enabled"} : new[f] = b[f]
  <2> DEFINE stamps == b.ts_support /\ b.snd_initial_ts
  <2>1. CASE ~opts.ts \/ b.ts_enabled
    <3>1. new = b
      BY <2>1 DEF ReadTS
    <3> HIDE DEF new
    <3> QED
      BY <1>2, <2>1, <3>1
  <2>2. CASE ~(~opts.ts \/ b.ts_enabled)
    <3>1. new = [b EXCEPT !.rcv_initial_ts = TRUE, !.ts_enabled = stamps]
      BY <2>2 DEF ReadTS
    <3>2. stamps \in BOOLEAN
      BY <1>2 DEF StateBlock
    <3> HIDE DEF new, stamps
    <3>3. /\ new \in StateBlock /\ new.rcv_initial_ts = TRUE /\ new.ts_enabled = stamps
          /\ \A f \in DOMAIN b \ {"rcv_initial_ts", "ts_enabled"} : new[f] = b[f]
      BY <1>2, <3>1, <3>2 DEF StateBlock
    <3> QED
      BY <2>2, <3>3 DEF stamps
  <2> QED
    BY <2>1, <2>2
<1>4. new = ReadOptions(st, opts)
  BY DEF ReadOptions, a, b
<1> HIDE DEF new
<1>5. DOMAIN st = DOMAIN a /\ DOMAIN a = DOMAIN b
      /\ DOMAIN st = {"ws_support", "ws_manual_scale", "ts_support", "snd_mss", "maxRcvBuffer",
                      "rcv_wnd", "snd_wnd", "snd_ws", "rcv_ws", "ws_enabled", "rcv_wnd_scale",
                      "snd_wnd_scale", "snd_initial_ts", "rcv_initial_ts", "ts_enabled"}
  BY <1>1, <1>2 DEF StateBlock
<1>6. new.snd_mss = Least(opts.mss, st.snd_mss)
  BY <1>1, <1>2, <1>3, <1>5
<1>7. IF opts.ws = -1
      THEN /\ new.rcv_ws = st.rcv_ws /\ new.ws_enabled = st.ws_enabled
           /\ new.snd_wnd_scale = st.snd_wnd_scale
      ELSE /\ new.rcv_ws /\ new.ws_enabled = (st.ws_support /\ st.snd_ws)
           /\ new.snd_wnd_scale = Least(opts.ws, 14)
  <2>1. /\ a.rcv_ws = st.rcv_ws /\ a.ws_enabled = st.ws_enabled
        /\ a.snd_wnd_scale = st.snd_wnd_scale /\ a.ws_support = st.ws_support
        /\ a.snd_ws = st.snd_ws
    BY <1>1, <1>5
  <2>2. /\ new.rcv_ws = b.rcv_ws /\ new.ws_enabled = b.ws_enabled
        /\ new.snd_wnd_scale = b.snd_wnd_scale
    BY <1>3, <1>5
  <2> QED
    BY <1>2, <2>1, <2>2
<1>8. IF ~opts.ts \/ st.ts_enabled
      THEN new.rcv_initial_ts = st.rcv_initial_ts /\ new.ts_enabled = st.ts_enabled
      ELSE /\ new.rcv_initial_ts
           /\ new.ts_enabled = (st.ts_support /\ st.snd_initial_ts)
  <2>1. /\ b.rcv_initial_ts = st.rcv_initial_ts /\ b.ts_enabled = st.ts_enabled
        /\ b.ts_support = st.ts_support /\ b.snd_initial_ts = st.snd_initial_ts
    BY <1>1, <1>2, <1>5
  <2> QED
    BY <1>3, <2>1
<1>9. \A f \in {"ws_support", "ws_manual_scale", "ts_support", "maxRcvBuffer", "rcv_wnd",
                "snd_wnd", "snd_ws", "rcv_wnd_scale", "snd_initial_ts"} : new[f] = st[f]
  BY <1>1, <1>2, <1>3, <1>5
<1> QED
  BY <1>3, <1>4, <1>6, <1>7, <1>8, <1>9 DEF HasRead

\* What writing a SYN changes.
HasWritten(new, st, opening) ==
    /\ new \in StateBlock
    /\ IF WritesWS(st, opening)
       THEN new.rcv_wnd_scale = WindowScale(st) /\ new.snd_ws /\ new.ws_enabled = st.rcv_ws
       ELSE /\ new.rcv_wnd_scale = st.rcv_wnd_scale /\ new.snd_ws = st.snd_ws
            /\ new.ws_enabled = st.ws_enabled
    /\ IF WritesTS(st, opening)
       THEN new.snd_initial_ts /\ new.ts_enabled = st.rcv_initial_ts
       ELSE new.snd_initial_ts = st.snd_initial_ts /\ new.ts_enabled = st.ts_enabled
    /\ \A f \in {"ws_support", "ws_manual_scale", "ts_support", "snd_mss", "maxRcvBuffer",
                 "rcv_wnd", "snd_wnd", "rcv_ws", "snd_wnd_scale", "rcv_initial_ts"} :
          new[f] = st[f]

LEMMA SynWritten ==
  ASSUME NEW st \in StateBlock, NEW opening \in BOOLEAN
  PROVE  HasWritten(WriteSyn(st, opening), st, opening)
<1> DEFINE a == AfterWS(st, opening)
           new == AfterTS(a, opening)
           scale == WindowScale(st)
           ws == WritesWS(st, opening)
           ts == WritesTS(a, opening)
<1>1. scale \in Nat
  BY ScaleOfBlock
<1>2. a = IF ws THEN [st EXCEPT !.rcv_wnd_scale = scale, !.snd_ws = TRUE, !.ws_enabled = st.rcv_ws]
          ELSE st
  BY DEF AfterWS
<1>3. new = IF ts THEN [a EXCEPT !.snd_initial_ts = TRUE, !.ts_enabled = a.rcv_initial_ts] ELSE a
  BY DEF AfterTS
<1>4. new = WriteSyn(st, opening)
  BY DEF WriteSyn
<1> HIDE DEF ws, ts, scale, a, new
<1>5. /\ a \in StateBlock
      /\ IF ws
         THEN a.rcv_wnd_scale = scale /\ a.snd_ws /\ a.ws_enabled = st.rcv_ws
         ELSE /\ a.rcv_wnd_scale = st.rcv_wnd_scale /\ a.snd_ws = st.snd_ws
              /\ a.ws_enabled = st.ws_enabled
      /\ \A f \in DOMAIN st \ {"rcv_wnd_scale", "snd_ws", "ws_enabled"} : a[f] = st[f]
  BY <1>1, <1>2 DEF StateBlock
<1>6. /\ new \in StateBlock
      /\ IF ts
         THEN new.snd_initial_ts /\ new.ts_enabled = a.rcv_initial_ts
         ELSE new.snd_initial_ts = a.snd_initial_ts /\ new.ts_enabled = a.ts_enabled
      /\ \A f \in DOMAIN a \ {"snd_initial_ts", "ts_enabled"} : new[f] = a[f]
  BY <1>3, <1>5 DEF StateBlock
<1>7. DOMAIN st = DOMAIN a /\ ts = WritesTS(st, opening)
  BY <1>5 DEF StateBlock, WritesTS, ts
<1> QED
  BY <1>4, <1>5, <1>6, <1>7 DEF HasWritten, StateBlock, ws, scale

----------------------------------------------------------------------------
(* The handshake: what either end holds, and what SYN and SYN+ACK say. *)

BothScale(par, peer) == par.windowScalingSupport /\ peer.windowScalingSupport
BothStamp(par, peer) == par.timestampSupport /\ peer.timestampSupport

HasParameters(st, par) ==
    /\ st.ws_support = par.windowScalingSupport
    /\ st.ws_manual_scale = par.windowScalingFactor
    /\ st.ts_support = par.timestampSupport
    /\ st.maxRcvBuffer = par.advertisedWindow

\* The state block a SYN is sent from.
SynState(par) == UpdateRcvWnd(Configure(Unconfigured, par))

\* What both ends of a call hold in the end.
Negotiated(st, par, peer) ==
    /\ HasParameters(st, par)
    /\ st.snd_mss = Least(par.mss, peer.mss)
    /\ st.ws_enabled = BothScale(par, peer)
    /\ st.ts_enabled = BothStamp(par, peer)
    /\ BothScale(par, peer) =>
          /\ st.rcv_wnd_scale = ScaleOf(par)
          /\ st.snd_wnd_scale = Least(ScaleOf(peer), 14)

\* A window that a host announces to a peer: its buffer, or the low bits of it.
AnnouncedTo(window, par, peer) ==
    /\ window \in Window
    /\ window <= par.advertisedWindow
    /\ window = 0 => BothScale(par, peer) /\ par.advertisedWindow > RQ_MAX_WIN

\* A listener that nobody has called.
FreshState(st) ==
    /\ ~st.snd_ws /\ ~st.rcv_ws /\ ~st.ws_enabled
    /\ ~st.snd_initial_ts /\ ~st.rcv_initial_ts /\ ~st.ts_enabled

ServerState(st, par, peer) ==
    /\ Negotiated(st, par, peer)
    /\ st.snd_ws = BothScale(par, peer)
    /\ st.rcv_ws = peer.windowScalingSupport
    /\ st.snd_initial_ts = BothStamp(par, peer)
    /\ st.rcv_initial_ts = peer.timestampSupport
    /\ st.snd_wnd = SynWindow(SynState(peer))

ClientState(st, par, peer) ==
    /\ Negotiated(st, par, peer)
    /\ AnnouncedTo(st.snd_wnd, peer, par)

SynAckOptions(par, peer) ==
    [mss |-> Least(par.mss, peer.mss),
     ws |-> IF BothScale(par, peer) THEN ScaleOf(par) ELSE -1,
     ts |-> BothStamp(par, peer)]

\* A window is scaled as the host has announced.
ScalesOwn(st, par) ==
    /\ HasParameters(st, par)
    /\ st.ws_enabled => st.rcv_wnd_scale = ScaleOf(par)

\* The parameters of a host, as the configuration has them.
Sound(par) == par \in Parameters /\ ~InvalidWindow(par)

LEMMA SynStateIs ==
  ASSUME NEW par, Sound(par)
  PROVE  /\ SynState(par) \in StateBlock
         /\ HasParameters(SynState(par), par)
         /\ SynState(par).snd_mss = par.mss
         /\ FreshState(SynState(par))
         /\ SynState(par).rcv_wnd \in 1 .. RQ_MAX_WIN
         /\ SynState(par).rcv_wnd <= par.advertisedWindow
<1> DEFINE c == Configure(Unconfigured, par)
           st == SynState(par)
<1>1. /\ par \in Parameters
      /\ par.advertisedWindow \in Nat \ {0}
  BY DEF Sound, Parameters
<1>2. FreshState(Unconfigured)
  BY DEF FreshState, Unconfigured
<1>3. /\ c \in StateBlock /\ HasParameters(c, par) /\ c.snd_mss = par.mss
      /\ \A f \in {"snd_ws", "rcv_ws", "ws_enabled", "snd_initial_ts", "rcv_initial_ts",
                   "ts_enabled"} : c[f] = Unconfigured[f]
  BY <1>1, UnconfiguredBlock, Configured DEF HasParameters
<1>4. FreshState(c)
  BY <1>2, <1>3 DEF FreshState
<1>5. DOMAIN c = {"ws_support", "ws_manual_scale", "ts_support", "snd_mss", "maxRcvBuffer",
                  "rcv_wnd", "snd_wnd", "snd_ws", "rcv_ws", "ws_enabled", "rcv_wnd_scale",
                  "snd_wnd_scale", "snd_initial_ts", "rcv_initial_ts", "ts_enabled"}
  BY <1>3 DEF StateBlock
<1>6. st = UpdateRcvWnd(c)
  BY DEF SynState
<1> HIDE DEF c, st
<1>7. /\ st \in StateBlock
      /\ st.rcv_wnd = IF c.maxRcvBuffer > RQ_MAX_WIN /\ ~c.ws_enabled
                      THEN RQ_MAX_WIN ELSE c.maxRcvBuffer
      /\ \A f \in DOMAIN c \ {"rcv_wnd"} : st[f] = c[f]
  BY <1>3, <1>6, RcvWndUpdated
<1>8. HasParameters(st, par) /\ st.snd_mss = par.mss /\ FreshState(st)
  BY <1>3, <1>4, <1>5, <1>7 DEF HasParameters, FreshState
<1>9. st.rcv_wnd = IF par.advertisedWindow > RQ_MAX_WIN THEN RQ_MAX_WIN ELSE par.advertisedWindow
  BY <1>3, <1>4, <1>7 DEF HasParameters, FreshState
<1>10. RQ_MAX_WIN \in Nat \ {0}
  BY DEF RQ_MAX_WIN
<1>11. st.rcv_wnd \in 1 .. RQ_MAX_WIN /\ st.rcv_wnd <= par.advertisedWindow
  BY <1>1, <1>9, <1>10
<1> QED
  BY <1>7, <1>8, <1>11 DEF st

\* The scale of a host's own block.
LEMMA OwnScale ==
  ASSUME NEW par, Sound(par), NEW st \in StateBlock, HasParameters(st, par)
  PROVE  WindowScale(st) = ScaleOf(par) /\ ScaleOf(par) \in Nat
<1>1. /\ st.ws_manual_scale = par.windowScalingFactor
      /\ st.maxRcvBuffer = par.advertisedWindow
  BY DEF HasParameters
<1>2. /\ WindowScale(st) = IF st.ws_manual_scale > -1 THEN st.ws_manual_scale
                           ELSE LeastScale(st.maxRcvBuffer)
      /\ WindowScale(st) \in Nat
  BY ScaleOfBlock
<1> QED
  BY <1>1, <1>2 DEF ScaleOf

\* What a SYN says.
LEMMA SynSays ==
  ASSUME NEW par, Sound(par)
  PROVE  LET opts == SynOptions(SynState(par), TRUE)
         IN  /\ opts.mss = par.mss
             /\ opts.ws = IF par.windowScalingSupport THEN ScaleOf(par) ELSE -1
             /\ opts.ts = par.timestampSupport
             /\ SynWindow(SynState(par)) \in 1 .. RQ_MAX_WIN
             /\ SynWindow(SynState(par)) <= par.advertisedWindow
<1> DEFINE st == SynState(par)
<1>1. /\ st \in StateBlock /\ HasParameters(st, par) /\ st.snd_mss = par.mss
      /\ st.rcv_wnd \in 1 .. RQ_MAX_WIN /\ st.rcv_wnd <= par.advertisedWindow
  BY SynStateIs
<1> HIDE DEF st
<1>2. WindowScale(st) = ScaleOf(par)
  BY <1>1, OwnScale
<1>3. /\ SynOptions(st, TRUE).mss = st.snd_mss
      /\ SynOptions(st, TRUE).ws = IF st.ws_support THEN WindowScale(st) ELSE -1
      /\ SynOptions(st, TRUE).ts = st.ts_support
  <2>1. (WritesWS(st, TRUE) <=> st.ws_support) /\ WritesTS(st, TRUE) = st.ts_support
    BY <1>1 DEF WritesWS, WritesTS, StateBlock
  <2> QED
    BY <2>1 DEF SynOptions
<1>4. SynWindow(st) = st.rcv_wnd
  <2>1. RQ_MAX_WIN \in Nat
    BY DEF RQ_MAX_WIN
  <2>2. st.rcv_wnd <= RQ_MAX_WIN
    BY <1>1, <2>1
  <2> QED
    BY <1>1, <2>2, SynWindowOK
<1> QED
  BY <1>1, <1>2, <1>3, <1>4 DEF HasParameters, st

LEMMA OptionCarried ==
  ASSUME NEW scale \in Nat, NEW carried \in BOOLEAN, NEW ws,
         ws = IF carried THEN scale ELSE -1
  PROVE  ws \in Nat \cup {-1} /\ (ws = -1 <=> ~carried)
<1>1. CASE carried
  BY <1>1
<1>2. CASE ~carried
  BY <1>2
<1> QED
  BY <1>1, <1>2

\* A listener, fresh or taken before by the same caller, takes a SYN.
LEMMA ServerAnswers ==
  ASSUME NEW par, Sound(par), NEW peer, Sound(peer), NEW st \in StateBlock,
         FreshState(st) \/ ServerState(st, par, peer),
         NEW opts, opts = SynOptions(SynState(peer), TRUE),
         NEW window, window = SynWindow(SynState(peer))
  PROVE  LET read == ReadOptions(UpdateSndWnd(Configure(st, par), window), opts)
             heard == UpdateRcvWnd(read)
         IN  /\ read \in StateBlock /\ ScalesOwn(read, par)
             /\ WriteSyn(heard, FALSE) \in StateBlock
             /\ ServerState(WriteSyn(heard, FALSE), par, peer)
             /\ SynOptions(heard, FALSE) = SynAckOptions(par, peer)
             /\ AnnouncedTo(SynWindow(heard), par, peer)
<1> DEFINE c == Configure(st, par)
           w == UpdateSndWnd(c, window)
           r == ReadOptions(w, opts)
           heard == UpdateRcvWnd(r)
           new == WriteSyn(heard, FALSE)
           both == BothScale(par, peer)
           stamps == BothStamp(par, peer)
<1>1. /\ par \in Parameters /\ par.mss \in Nat \ {0} /\ par.advertisedWindow \in Nat \ {0}
      /\ par.windowScalingSupport \in BOOLEAN /\ par.timestampSupport \in BOOLEAN
      /\ peer.mss \in Nat \ {0} /\ peer.windowScalingSupport \in BOOLEAN
      /\ peer.timestampSupport \in BOOLEAN
      /\ both \in BOOLEAN /\ stamps \in BOOLEAN
  BY DEF Sound, Parameters, BothScale, BothStamp
<1>2. /\ opts.mss = peer.mss
      /\ opts.ws = IF peer.windowScalingSupport THEN ScaleOf(peer) ELSE -1
      /\ opts.ts = peer.timestampSupport
      /\ window \in 1 .. RQ_MAX_WIN /\ window <= peer.advertisedWindow
      /\ window \in Window
      /\ ScaleOf(peer) \in Nat
  <2>1. RQ_MAX_WIN \in Nat
    BY DEF RQ_MAX_WIN
  <2>2. ScaleOf(peer) \in Nat
    BY SynStateIs, OwnScale
  <2>3. /\ opts.mss = peer.mss
        /\ opts.ws = IF peer.windowScalingSupport THEN ScaleOf(peer) ELSE -1
        /\ opts.ts = peer.timestampSupport
        /\ window \in 1 .. RQ_MAX_WIN /\ window <= peer.advertisedWindow
    BY SynSays
  <2>4. window \in Window
    BY <2>1, <2>3 DEF Window
  <2> QED
    BY <2>2, <2>3, <2>4
<1> DEFINE all == {"ws_support", "ws_manual_scale", "ts_support", "snd_mss", "maxRcvBuffer",
                   "rcv_wnd", "snd_wnd", "snd_ws", "rcv_ws", "ws_enabled", "rcv_wnd_scale",
                   "snd_wnd_scale", "snd_initial_ts", "rcv_initial_ts", "ts_enabled"}
<1>3. /\ c \in StateBlock /\ HasParameters(c, par) /\ c.snd_mss = par.mss
      /\ c.snd_ws = st.snd_ws /\ c.rcv_ws = st.rcv_ws /\ c.ws_enabled = st.ws_enabled
      /\ c.snd_wnd_scale = st.snd_wnd_scale /\ c.rcv_wnd_scale = st.rcv_wnd_scale
      /\ c.snd_initial_ts = st.snd_initial_ts /\ c.rcv_initial_ts = st.rcv_initial_ts
      /\ c.ts_enabled = st.ts_enabled
      /\ DOMAIN c = all
  <2> HIDE DEF c
  <2>1. c \in StateBlock => DOMAIN c = all
    BY DEF StateBlock
  <2> QED
    BY <1>1, <2>1, Configured DEF HasParameters, c
<1> HIDE DEF c
<1>4. /\ w \in StateBlock /\ w.snd_wnd = window
      /\ HasParameters(w, par) /\ w.snd_mss = par.mss
      /\ w.snd_ws = st.snd_ws /\ w.rcv_ws = st.rcv_ws /\ w.ws_enabled = st.ws_enabled
      /\ w.snd_wnd_scale = st.snd_wnd_scale /\ w.rcv_wnd_scale = st.rcv_wnd_scale
      /\ w.snd_initial_ts = st.snd_initial_ts /\ w.rcv_initial_ts = st.rcv_initial_ts
      /\ w.ts_enabled = st.ts_enabled
  <2>1. /\ w \in StateBlock /\ w.snd_wnd = window
        /\ \A f \in DOMAIN c \ {"snd_wnd"} : w[f] = c[f]
    BY <1>2, <1>3, SndWndUpdated
  <2> HIDE DEF w
  <2> QED
    BY <1>3, <2>1 DEF HasParameters
<1> HIDE DEF w
<1>5. /\ r \in StateBlock /\ r.snd_wnd = window
      /\ HasParameters(r, par) /\ r.snd_mss = Least(peer.mss, par.mss)
      /\ r.snd_ws = st.snd_ws /\ r.snd_initial_ts = st.snd_initial_ts
      /\ r.rcv_wnd_scale = st.rcv_wnd_scale
      /\ IF ~peer.windowScalingSupport
         THEN r.rcv_ws = st.rcv_ws /\ r.ws_enabled = st.ws_enabled
         ELSE /\ r.rcv_ws /\ r.ws_enabled = (par.windowScalingSupport /\ st.snd_ws)
              /\ r.snd_wnd_scale = Least(ScaleOf(peer), 14)
      /\ IF ~peer.timestampSupport \/ st.ts_enabled
         THEN r.rcv_initial_ts = st.rcv_initial_ts /\ r.ts_enabled = st.ts_enabled
         ELSE r.rcv_initial_ts /\ r.ts_enabled = (par.timestampSupport /\ st.snd_initial_ts)
  <2>1. /\ w.snd_mss > 0 /\ opts.mss \in Nat \ {0} /\ opts.ws \in Nat \cup {-1}
        /\ opts.ts \in BOOLEAN /\ (opts.ws = -1 <=> ~peer.windowScalingSupport)
    <3>1. w.snd_mss \in Nat \ {0}
      BY <1>1, <1>4
    <3>2. opts.mss \in Nat \ {0} /\ opts.ts \in BOOLEAN
      BY <1>1, <1>2
    <3>3. ScaleOf(peer) \in Nat /\ peer.windowScalingSupport \in BOOLEAN
      BY <1>1, <1>2
    <3>4. opts.ws \in Nat \cup {-1} /\ (opts.ws = -1 <=> ~peer.windowScalingSupport)
      BY <1>2, <3>3, OptionCarried
    <3>5. w.snd_mss > 0
      BY <3>1
    <3> QED
      BY <3>2, <3>4, <3>5
  <2>2. HasRead(r, w, opts)
    BY <1>4, <2>1, OptionsRead
  <2> HIDE DEF r
  <2>3. /\ r.snd_wnd = w.snd_wnd /\ r.snd_ws = w.snd_ws /\ r.snd_initial_ts = w.snd_initial_ts
        /\ r.ws_support = w.ws_support /\ r.ws_manual_scale = w.ws_manual_scale
        /\ r.ts_support = w.ts_support /\ r.maxRcvBuffer = w.maxRcvBuffer
        /\ r.rcv_wnd_scale = w.rcv_wnd_scale
    BY <2>2 DEF HasRead
  <2>4. HasParameters(r, par) /\ w.ws_support = par.windowScalingSupport
        /\ w.ts_support = par.timestampSupport
    BY <1>4, <2>3 DEF HasParameters
  <2>5. IF ~peer.windowScalingSupport
        THEN r.rcv_ws = st.rcv_ws /\ r.ws_enabled = st.ws_enabled
        ELSE /\ r.rcv_ws /\ r.ws_enabled = (par.windowScalingSupport /\ st.snd_ws)
             /\ r.snd_wnd_scale = Least(ScaleOf(peer), 14)
    BY <1>2, <1>4, <2>1, <2>2, <2>4 DEF HasRead
  <2>6. IF ~peer.timestampSupport \/ st.ts_enabled
        THEN r.rcv_initial_ts = st.rcv_initial_ts /\ r.ts_enabled = st.ts_enabled
        ELSE r.rcv_initial_ts /\ r.ts_enabled = (par.timestampSupport /\ st.snd_initial_ts)
    BY <1>2, <1>4, <2>2, <2>4 DEF HasRead
  <2>7. r.snd_mss = Least(peer.mss, par.mss)
    BY <1>2, <1>4, <2>2 DEF HasRead
  <2> QED
    BY <1>4, <2>2, <2>3, <2>4, <2>5, <2>6, <2>7 DEF HasRead
<1> HIDE DEF r
<1>6. /\ r.rcv_ws = peer.windowScalingSupport /\ r.rcv_initial_ts = peer.timestampSupport
      /\ \/ ~r.ws_enabled /\ ~r.snd_ws
         \/ both /\ r.ws_enabled /\ r.snd_ws /\ r.rcv_wnd_scale = ScaleOf(par)
      /\ \/ ~r.ts_enabled /\ ~r.snd_initial_ts
         \/ stamps /\ r.ts_enabled /\ r.snd_initial_ts
  <2>1. /\ st.snd_ws \in BOOLEAN /\ st.rcv_ws \in BOOLEAN /\ st.ws_enabled \in BOOLEAN
        /\ st.snd_initial_ts \in BOOLEAN /\ st.rcv_initial_ts \in BOOLEAN
        /\ st.ts_enabled \in BOOLEAN
        /\ r.rcv_ws \in BOOLEAN /\ r.rcv_initial_ts \in BOOLEAN /\ r.ws_enabled \in BOOLEAN
        /\ r.ts_enabled \in BOOLEAN /\ r.snd_ws \in BOOLEAN /\ r.snd_initial_ts \in BOOLEAN
    BY <1>5 DEF StateBlock
  <2>2. CASE FreshState(st)
    <3>1. r.rcv_ws = peer.windowScalingSupport /\ ~r.ws_enabled /\ ~r.snd_ws
      BY <1>1, <1>5, <2>1, <2>2 DEF FreshState
    <3>2. r.rcv_initial_ts = peer.timestampSupport /\ ~r.ts_enabled /\ ~r.snd_initial_ts
      BY <1>1, <1>5, <2>1, <2>2 DEF FreshState
    <3> QED
      BY <3>1, <3>2
  <2>3. CASE ServerState(st, par, peer)
    <3>1. /\ st.snd_ws = both /\ st.ws_enabled = both
          /\ st.rcv_ws = peer.windowScalingSupport
          /\ st.snd_initial_ts = stamps /\ st.ts_enabled = stamps
          /\ st.rcv_initial_ts = peer.timestampSupport
          /\ both => st.rcv_wnd_scale = ScaleOf(par)
      BY <2>3 DEF ServerState, Negotiated
    <3>2. r.rcv_ws = peer.windowScalingSupport /\ r.ws_enabled = both /\ r.snd_ws = both
      BY <1>1, <1>5, <2>1, <3>1 DEF BothScale
    <3>3. r.rcv_initial_ts = peer.timestampSupport /\ r.ts_enabled = stamps
          /\ r.snd_initial_ts = stamps
      BY <1>1, <1>5, <2>1, <3>1 DEF BothStamp
    <3> HIDE DEF both, stamps
    <3> QED
      BY <1>1, <1>5, <3>1, <3>2, <3>3
  <2> QED
    BY <2>2, <2>3
<1>7. /\ heard \in StateBlock /\ HasParameters(heard, par)
      /\ heard.snd_mss = Least(peer.mss, par.mss) /\ heard.snd_wnd = window
      /\ heard.rcv_ws = r.rcv_ws /\ heard.snd_ws = r.snd_ws /\ heard.ws_enabled = r.ws_enabled
      /\ heard.rcv_initial_ts = r.rcv_initial_ts /\ heard.snd_initial_ts = r.snd_initial_ts
      /\ heard.ts_enabled = r.ts_enabled /\ heard.snd_wnd_scale = r.snd_wnd_scale
      /\ heard.rcv_wnd = IF par.advertisedWindow > RQ_MAX_WIN /\ ~heard.ws_enabled
                         THEN RQ_MAX_WIN ELSE par.advertisedWindow
  <2>1. DOMAIN r = all
    BY <1>5 DEF StateBlock
  <2>2. /\ heard \in StateBlock
        /\ heard.rcv_wnd = IF r.maxRcvBuffer > RQ_MAX_WIN /\ ~r.ws_enabled
                           THEN RQ_MAX_WIN ELSE r.maxRcvBuffer
        /\ \A f \in DOMAIN r \ {"rcv_wnd"} : heard[f] = r[f]
    BY <1>5, RcvWndUpdated
  <2> HIDE DEF heard
  <2>3. HasParameters(heard, par) /\ r.maxRcvBuffer = par.advertisedWindow
    BY <1>5, <2>1, <2>2 DEF HasParameters
  <2>4. heard.snd_mss = r.snd_mss /\ heard.snd_wnd = r.snd_wnd
        /\ heard.rcv_ws = r.rcv_ws /\ heard.snd_ws = r.snd_ws /\ heard.ws_enabled = r.ws_enabled
        /\ heard.rcv_initial_ts = r.rcv_initial_ts /\ heard.snd_initial_ts = r.snd_initial_ts
        /\ heard.ts_enabled = r.ts_enabled /\ heard.snd_wnd_scale = r.snd_wnd_scale
    BY <2>1, <2>2
  <2> QED
    BY <1>5, <2>2, <2>3, <2>4
<1> HIDE DEF heard
<1>8. /\ WritesWS(heard, FALSE) = both /\ WritesTS(heard, FALSE) = stamps
      /\ WindowScale(heard) = ScaleOf(par)
  <2>1. WritesWS(heard, FALSE) = both
    BY <1>1, <1>6, <1>7 DEF WritesWS, BothScale, HasParameters
  <2>2. WritesTS(heard, FALSE) = stamps
    BY <1>1, <1>6, <1>7 DEF WritesTS, BothStamp, HasParameters
  <2> QED
    BY <1>7, <2>1, <2>2, OwnScale
<1>9. Least(peer.mss, par.mss) = Least(par.mss, peer.mss)
  BY <1>1 DEF Least
<1>10. new \in StateBlock /\ ServerState(new, par, peer)
  <2>1. /\ new \in StateBlock
        /\ IF both
           THEN new.rcv_wnd_scale = ScaleOf(par) /\ new.snd_ws /\ new.ws_enabled = heard.rcv_ws
           ELSE new.snd_ws = heard.snd_ws /\ new.ws_enabled = heard.ws_enabled
        /\ IF stamps
           THEN new.snd_initial_ts /\ new.ts_enabled = heard.rcv_initial_ts
           ELSE new.snd_initial_ts = heard.snd_initial_ts /\ new.ts_enabled = heard.ts_enabled
        /\ \A f \in {"ws_support", "ws_manual_scale", "ts_support", "snd_mss", "maxRcvBuffer",
                     "rcv_wnd", "snd_wnd", "rcv_ws", "snd_wnd_scale", "rcv_initial_ts"} :
              new[f] = heard[f]
    <3>1. HasWritten(new, heard, FALSE)
      BY <1>7, SynWritten
    <3> HIDE DEF new, both, stamps
    <3> QED
      BY <1>8, <3>1 DEF HasWritten
  <2> HIDE DEF new, both, stamps
  <2>2. /\ HasParameters(new, par) /\ new.snd_mss = Least(par.mss, peer.mss)
        /\ new.snd_wnd = window /\ new.snd_wnd_scale = r.snd_wnd_scale
        /\ new.rcv_ws = peer.windowScalingSupport
        /\ new.rcv_initial_ts = peer.timestampSupport
    BY <1>6, <1>7, <1>9, <2>1 DEF HasParameters
  <2>3. /\ new.snd_ws \in BOOLEAN /\ new.ws_enabled \in BOOLEAN
        /\ new.snd_initial_ts \in BOOLEAN /\ new.ts_enabled \in BOOLEAN
    BY <2>1 DEF StateBlock
  <2>4. new.snd_ws = both /\ new.ws_enabled = both
    <3>1. both => peer.windowScalingSupport
      BY DEF both, BothScale
    <3> QED
      BY <1>1, <1>6, <1>7, <2>1, <2>3, <3>1
  <2>5. new.snd_initial_ts = stamps /\ new.ts_enabled = stamps
    <3>1. stamps => peer.timestampSupport
      BY DEF stamps, BothStamp
    <3> QED
      BY <1>1, <1>6, <1>7, <2>1, <2>3, <3>1
  <2>6. both => new.rcv_wnd_scale = ScaleOf(par) /\ new.snd_wnd_scale = Least(ScaleOf(peer), 14)
    <3>1. both => peer.windowScalingSupport
      BY DEF both, BothScale
    <3> QED
      BY <1>5, <2>1, <2>2, <3>1
  <2> QED
    BY <2>1, <2>2, <2>4, <2>5, <2>6 DEF ServerState, Negotiated, both, stamps
<1>11. SynOptions(heard, FALSE) = SynAckOptions(par, peer)
  BY <1>7, <1>8, <1>9 DEF SynOptions, SynAckOptions
<1>12. AnnouncedTo(SynWindow(heard), par, peer)
  <2>1. RQ_MAX_WIN \in Nat \ {0}
    BY DEF RQ_MAX_WIN
  <2>2. /\ SynWindow(heard) \in Window
        /\ SynWindow(heard) <= heard.rcv_wnd
        /\ heard.rcv_wnd <= RQ_MAX_WIN => SynWindow(heard) = heard.rcv_wnd
    BY <1>7, SynWindowOK
  <2>3. heard.rcv_wnd \in Nat \ {0} /\ heard.rcv_wnd <= par.advertisedWindow
        /\ (heard.rcv_wnd <= RQ_MAX_WIN \/ (heard.ws_enabled /\ par.advertisedWindow > RQ_MAX_WIN))
    BY <1>1, <1>7, <2>1
  <2>4. SynWindow(heard) \in Nat
    BY <2>1, <2>2 DEF Window
  <2>5. SynWindow(heard) = 0 => heard.ws_enabled /\ par.advertisedWindow > RQ_MAX_WIN
    BY <2>2, <2>3
  <2>6. heard.ws_enabled => both
    BY <1>6, <1>7
  <2> HIDE DEF heard
  <2>7. SynWindow(heard) <= par.advertisedWindow
    BY <1>1, <2>2, <2>3, <2>4
  <2> QED
    BY <2>2, <2>5, <2>6, <2>7 DEF AnnouncedTo
<1>13. ScalesOwn(r, par)
  BY <1>5, <1>6 DEF ScalesOwn
<1> QED
  BY <1>5, <1>10, <1>11, <1>12, <1>13 DEF heard, new, r, w, c

\* A client that hears the answer to its SYN.
LEMMA ClientHears ==
  ASSUME NEW par, Sound(par), NEW peer, Sound(peer),
         NEW st, st = WriteSyn(SynState(par), TRUE),
         NEW opts, opts = SynAckOptions(peer, par),
         NEW window, AnnouncedTo(window, peer, par)
  PROVE  LET read == ReadOptions(UpdateSndWnd(st, window), opts)
         IN  /\ read \in StateBlock /\ ScalesOwn(read, par)
             /\ ClientState(read, par, peer)
<1> DEFINE syn == SynState(par)
           w == UpdateSndWnd(st, window)
           r == ReadOptions(w, opts)
           both == BothScale(par, peer)
           stamps == BothStamp(par, peer)
<1>1. /\ par.mss \in Nat \ {0} /\ par.windowScalingSupport \in BOOLEAN
      /\ par.timestampSupport \in BOOLEAN
      /\ peer.mss \in Nat \ {0} /\ peer.windowScalingSupport \in BOOLEAN
      /\ peer.timestampSupport \in BOOLEAN
      /\ both \in BOOLEAN /\ stamps \in BOOLEAN
      /\ BothScale(peer, par) = both /\ BothStamp(peer, par) = stamps
  BY DEF Sound, Parameters, BothScale, BothStamp
<1>2. /\ syn \in StateBlock /\ HasParameters(syn, par) /\ syn.snd_mss = par.mss
      /\ FreshState(syn)
  BY SynStateIs
<1>3. ScaleOf(par) \in Nat /\ ScaleOf(peer) \in Nat /\ WindowScale(syn) = ScaleOf(par)
  BY <1>2, SynStateIs, OwnScale
<1>4. /\ st \in StateBlock /\ HasParameters(st, par) /\ st.snd_mss = par.mss
      /\ ~st.ws_enabled /\ ~st.ts_enabled
      /\ st.snd_ws = par.windowScalingSupport /\ st.snd_initial_ts = par.timestampSupport
      /\ par.windowScalingSupport => st.rcv_wnd_scale = ScaleOf(par)
  <2> HIDE DEF syn
  <2>1. /\ syn.ws_support = par.windowScalingSupport /\ syn.ts_support = par.timestampSupport
        /\ syn.ws_manual_scale = par.windowScalingFactor
        /\ syn.maxRcvBuffer = par.advertisedWindow
        /\ ~syn.snd_ws /\ ~syn.rcv_ws /\ ~syn.ws_enabled
        /\ ~syn.snd_initial_ts /\ ~syn.rcv_initial_ts /\ ~syn.ts_enabled
    BY <1>2 DEF HasParameters, FreshState
  <2>2. /\ syn.snd_ws \in BOOLEAN /\ syn.rcv_ws \in BOOLEAN /\ syn.ws_enabled \in BOOLEAN
        /\ syn.snd_initial_ts \in BOOLEAN /\ syn.rcv_initial_ts \in BOOLEAN
        /\ syn.ts_enabled \in BOOLEAN
    BY <1>2 DEF StateBlock
  <2>3. (WritesWS(syn, TRUE) <=> par.windowScalingSupport)
        /\ (WritesTS(syn, TRUE) <=> par.timestampSupport)
    BY <2>1 DEF WritesWS, WritesTS
  <2>4. st = WriteSyn(syn, TRUE)
    BY DEF syn
  <2>5. HasWritten(st, syn, TRUE)
    BY <1>2, <2>4, SynWritten
  <2>6. st.snd_ws \in BOOLEAN /\ st.snd_initial_ts \in BOOLEAN
    BY <2>5 DEF HasWritten, StateBlock
  <2>7. HasParameters(st, par) /\ st.snd_mss = par.mss
    BY <1>2, <2>1, <2>5 DEF HasParameters, HasWritten
  <2>8. ~st.ws_enabled /\ st.snd_ws = par.windowScalingSupport
        /\ (par.windowScalingSupport => st.rcv_wnd_scale = ScaleOf(par))
    BY <1>1, <1>3, <2>1, <2>2, <2>3, <2>5, <2>6 DEF HasWritten
  <2>9. ~st.ts_enabled /\ st.snd_initial_ts = par.timestampSupport
    BY <1>1, <2>1, <2>2, <2>3, <2>5, <2>6 DEF HasWritten
  <2> QED
    BY <2>5, <2>7, <2>8, <2>9 DEF HasWritten
<1> HIDE DEF syn
<1>5. /\ w \in StateBlock /\ w.snd_wnd = window
      /\ HasParameters(w, par) /\ w.snd_mss = par.mss
      /\ ~w.ws_enabled /\ ~w.ts_enabled
      /\ w.snd_ws = par.windowScalingSupport /\ w.snd_initial_ts = par.timestampSupport
      /\ par.windowScalingSupport => w.rcv_wnd_scale = ScaleOf(par)
  <2>1. window \in Window
    BY DEF AnnouncedTo
  <2>2. /\ w \in StateBlock /\ w.snd_wnd = window
        /\ \A f \in DOMAIN st \ {"snd_wnd"} : w[f] = st[f]
    BY <1>4, <2>1, SndWndUpdated
  <2>3. DOMAIN st = {"ws_support", "ws_manual_scale", "ts_support", "snd_mss", "maxRcvBuffer",
                   "rcv_wnd", "snd_wnd", "snd_ws", "rcv_ws", "ws_enabled", "rcv_wnd_scale",
                   "snd_wnd_scale", "snd_initial_ts", "rcv_initial_ts", "ts_enabled"}
    BY <1>4 DEF StateBlock
  <2> HIDE DEF w
  <2> QED
    BY <1>4, <2>2, <2>3 DEF HasParameters
<1> HIDE DEF w
<1>6. /\ opts.mss = Least(peer.mss, par.mss) /\ opts.mss \in Nat \ {0}
      /\ opts.ws = IF both THEN ScaleOf(peer) ELSE -1
      /\ opts.ts = stamps /\ opts.ts \in BOOLEAN
  <2>1. /\ opts.mss = Least(peer.mss, par.mss)
        /\ opts.ws = IF both THEN ScaleOf(peer) ELSE -1
        /\ opts.ts = stamps
    BY <1>1 DEF SynAckOptions
  <2>2. Least(peer.mss, par.mss) \in Nat \ {0}
    BY <1>1 DEF Least
  <2> QED
    BY <1>1, <2>1, <2>2
<1>7. opts.ws \in Nat \cup {-1} /\ (opts.ws = -1 <=> ~both)
  <2> HIDE DEF both
  <2> QED
    BY <1>1, <1>3, <1>6, OptionCarried
<1>8. HasRead(r, w, opts)
  <2>1. w.snd_mss \in Nat \ {0}
    BY <1>1, <1>5
  <2>2. w.snd_mss > 0
    BY <2>1
  <2> QED
    BY <1>5, <1>6, <1>7, <2>2, OptionsRead
<1> HIDE DEF r
<1>9. /\ r \in StateBlock /\ r.snd_wnd = window /\ HasParameters(r, par)
      /\ r.rcv_wnd_scale = w.rcv_wnd_scale
  BY <1>5, <1>8 DEF HasRead, HasParameters
<1>10. r.snd_mss = Least(par.mss, peer.mss)
  <2>1. r.snd_mss = Least(Least(peer.mss, par.mss), par.mss)
    BY <1>5, <1>6, <1>8 DEF HasRead
  <2> QED
    BY <1>1, <2>1 DEF Least
<1>11. r.ws_enabled = both /\ (both => r.snd_wnd_scale = Least(ScaleOf(peer), 14))
  <2>1. r.ws_enabled \in BOOLEAN
    BY <1>9 DEF StateBlock
  <2>2. CASE both
    <3>1. par.windowScalingSupport /\ w.ws_support = par.windowScalingSupport
      BY <1>5, <2>2 DEF BothScale, HasParameters
    <3>2. r.ws_enabled /\ r.snd_wnd_scale = Least(ScaleOf(peer), 14)
      BY <1>5, <1>6, <1>7, <1>8, <2>2, <3>1 DEF HasRead
    <3> QED
      BY <2>1, <2>2, <3>2
  <2>3. CASE ~both
    <3>1. r.ws_enabled = w.ws_enabled
      BY <1>7, <1>8, <2>3 DEF HasRead
    <3> QED
      BY <1>1, <1>5, <2>1, <2>3, <3>1
  <2> QED
    BY <2>2, <2>3
<1>12. r.ts_enabled = stamps
  <2>1. r.ts_enabled \in BOOLEAN
    BY <1>9 DEF StateBlock
  <2>2. CASE stamps
    <3>1. par.timestampSupport /\ w.ts_support = par.timestampSupport
      BY <1>5, <2>2 DEF BothStamp, HasParameters
    <3>2. r.ts_enabled
      BY <1>5, <1>6, <1>8, <2>2, <3>1 DEF HasRead
    <3> QED
      BY <2>1, <2>2, <3>2
  <2>3. CASE ~stamps
    <3>1. r.ts_enabled = w.ts_enabled
      BY <1>6, <1>8, <2>3 DEF HasRead
    <3> QED
      BY <1>1, <1>5, <2>1, <2>3, <3>1
  <2> QED
    BY <2>2, <2>3
<1>13. both => r.rcv_wnd_scale = ScaleOf(par)
  BY <1>5, <1>9 DEF BothScale
<1>14. ClientState(r, par, peer)
  BY <1>9, <1>10, <1>11, <1>12, <1>13 DEF ClientState, Negotiated
<1>15. ScalesOwn(r, par)
  BY <1>9, <1>11, <1>13 DEF ScalesOwn
<1> QED
  BY <1>9, <1>14, <1>15 DEF r, w

\* An update of the receive window leaves all of this as it is.
LEMMA WindowMoves ==
  ASSUME NEW st \in StateBlock, NEW par, NEW peer
  PROVE  LET new == UpdateRcvWnd(st)
         IN  /\ new \in StateBlock
             /\ FreshState(st) => FreshState(new)
             /\ ServerState(st, par, peer) => ServerState(new, par, peer)
             /\ ClientState(st, par, peer) => ClientState(new, par, peer)
<1> DEFINE new == UpdateRcvWnd(st)
<1>1. new \in StateBlock /\ \A f \in DOMAIN st \ {"rcv_wnd"} : new[f] = st[f]
  BY RcvWndUpdated
<1>2. DOMAIN st = {"ws_support", "ws_manual_scale", "ts_support", "snd_mss", "maxRcvBuffer",
                   "rcv_wnd", "snd_wnd", "snd_ws", "rcv_ws", "ws_enabled", "rcv_wnd_scale",
                   "snd_wnd_scale", "snd_initial_ts", "rcv_initial_ts", "ts_enabled"}
  BY DEF StateBlock
<1> HIDE DEF new
<1>3. /\ new.ws_support = st.ws_support /\ new.ws_manual_scale = st.ws_manual_scale
      /\ new.ts_support = st.ts_support /\ new.maxRcvBuffer = st.maxRcvBuffer
      /\ new.snd_mss = st.snd_mss /\ new.snd_wnd = st.snd_wnd
      /\ new.snd_ws = st.snd_ws /\ new.rcv_ws = st.rcv_ws /\ new.ws_enabled = st.ws_enabled
      /\ new.rcv_wnd_scale = st.rcv_wnd_scale /\ new.snd_wnd_scale = st.snd_wnd_scale
      /\ new.snd_initial_ts = st.snd_initial_ts /\ new.rcv_initial_ts = st.rcv_initial_ts
      /\ new.ts_enabled = st.ts_enabled
  BY <1>1, <1>2
<1>4. FreshState(st) => FreshState(new)
  BY <1>3 DEF FreshState
<1>5. Negotiated(st, par, peer) => Negotiated(new, par, peer)
  BY <1>3 DEF Negotiated, HasParameters
<1>6. ServerState(st, par, peer) => ServerState(new, par, peer)
  BY <1>3, <1>5 DEF ServerState
<1>7. ClientState(st, par, peer) => ClientState(new, par, peer)
  BY <1>3, <1>5 DEF ClientState
<1> QED
  BY <1>1, <1>4, <1>6, <1>7 DEF new

\* A window fits its header unless it cannot: its scale is set by hand, or 14 is not enough.
LEMMA WindowFitsUnless ==
  ASSUME NEW par, Sound(par), NEW st \in StateBlock, ~st.ws_enabled \/ ScalesOwn(st, par)
  PROVE  \/ WindowFits(UpdateRcvWnd(st))
         \/ par.windowScalingFactor > -1
         \/ Scaled(par.advertisedWindow, 14) > RQ_MAX_WIN
<1> DEFINE new == UpdateRcvWnd(st)
<1>1. /\ new.rcv_wnd = IF st.maxRcvBuffer > RQ_MAX_WIN /\ ~st.ws_enabled
                       THEN RQ_MAX_WIN ELSE st.maxRcvBuffer
      /\ \A f \in DOMAIN st \ {"rcv_wnd"} : new[f] = st[f]
  BY RcvWndUpdated
<1>2. /\ {"ws_enabled", "rcv_wnd_scale"} \subseteq DOMAIN st \ {"rcv_wnd"}
      /\ st.maxRcvBuffer \in Nat /\ st.ws_enabled \in BOOLEAN
  BY DEF StateBlock
<1> HIDE DEF new
<1>3. new.ws_enabled = st.ws_enabled /\ new.rcv_wnd_scale = st.rcv_wnd_scale
  BY <1>1, <1>2
<1>4. RQ_MAX_WIN \in Nat
  BY DEF RQ_MAX_WIN
<1>5. CASE ~st.ws_enabled
  <2>1. new.rcv_wnd <= RQ_MAX_WIN
    BY <1>1, <1>2, <1>4, <1>5
  <2>2. WindowFits(new)
    BY <1>3, <1>5, <2>1 DEF WindowFits, Scaled
  <2> QED
    BY <2>2 DEF new
<1>6. CASE st.ws_enabled /\ ScalesOwn(st, par)
  <2>1. /\ new.rcv_wnd = par.advertisedWindow /\ new.rcv_wnd_scale = ScaleOf(par)
        /\ new.ws_enabled
    BY <1>1, <1>3, <1>6 DEF ScalesOwn, HasParameters
  <2>2. par.advertisedWindow \in Nat
    BY DEF Sound, Parameters
  <2>3. /\ LeastScale(par.advertisedWindow) \in 0 .. 14
        /\ Scaled(par.advertisedWindow, 14) <= RQ_MAX_WIN =>
              Scaled(par.advertisedWindow, LeastScale(par.advertisedWindow)) <= RQ_MAX_WIN
    BY <2>2, LeastScaleFits
  <2>4. Scaled(par.advertisedWindow, 14) \in Nat
    <3>1. 14 \in 0 .. 14
      OBVIOUS
    <3> QED
      BY <2>2, <3>1, ScaledIsNat
  <2>5. CASE ~(par.windowScalingFactor > -1) /\ Scaled(par.advertisedWindow, 14) <= RQ_MAX_WIN
    <3>1. ScaleOf(par) = LeastScale(par.advertisedWindow)
      BY <2>5 DEF ScaleOf
    <3>2. ScaleOf(par) <= 14 /\ Scaled(par.advertisedWindow, ScaleOf(par)) <= RQ_MAX_WIN
      BY <2>3, <2>5, <3>1
    <3>3. WindowFits(new)
      BY <2>1, <3>2 DEF WindowFits
    <3> QED
      BY <3>3 DEF new
  <2> QED
    BY <1>4, <2>4, <2>5
<1> QED
  BY <1>5, <1>6

----------------------------------------------------------------------------
(* What connections and segments hold. *)

ConnData(conn, h, par) ==
    /\ conn.st \in StateBlock
    /\ conn.pair.localPort \in Ephemeral =>
          /\ conn.pair.remoteAddr \in Host
          /\ conn.fsm = "SYN_SENT" => conn.st = WriteSyn(SynState(par[h]), TRUE)
          /\ conn.fsm \notin {"SYN_SENT", "CLOSED"} =>
                /\ ClientState(conn.st, par[h], par[conn.pair.remoteAddr])
                /\ conn.pair.remotePort \notin Ephemeral
    /\ conn.pair.localPort \notin Ephemeral =>
          /\ conn.fsm # "SYN_SENT"
          /\ conn.pair.remoteAddr = NoHost =>
                /\ FreshState(conn.st)
                /\ conn.pair = Listening(conn.pair.localAddr, conn.pair.localPort)
          /\ conn.pair.remoteAddr # NoHost =>
                /\ conn.pair.localAddr = h
                /\ ServerState(conn.st, par[h], par[conn.pair.remoteAddr])

SegmentData(s, par) ==
    /\ s.window \in Window
    /\ s.kind = "SYN" =>
          /\ s.opts = SynOptions(SynState(par[s.src]), TRUE)
          /\ s.window = SynWindow(SynState(par[s.src]))
    /\ s.kind = "SYNACK" =>
          /\ s.opts = SynAckOptions(par[s.src], par[s.dst])
          /\ AnnouncedTo(s.window, par[s.src], par[s.dst])
          /\ s.srcPort \notin Ephemeral

HostData(T, h, par) == \A p \in DOMAIN T.conns : ConnData(T.conns[p], h, par)

DataInv ==
    /\ \A h \in Host : HostData(tables[h], h, world.par)
    /\ \A s \in wire : SegmentData(s, world.par)

LEMMA SoundHosts ==
  ASSUME world \in Scenarios, NEW h \in Host
  PROVE  Sound(world.par[h])
<1> DEFINE w == world
<1>1. w \in Scenarios
  OBVIOUS
<1> HIDE DEF w
<1>2. w.par[h] \in Parameters /\ ~InvalidWindow(w.par[h])
  BY <1>1, ScenariosAssumption
<1> QED
  BY <1>2 DEF Sound, w

\* A step of one host.
LEMMA OneHostData ==
  ASSUME HostsInv, DataInv, NEW h \in Host, world' = world, NEW T,
         tables' = [tables EXCEPT ![h] = T], HostData(T, h, world.par),
         \A s \in wire' : s \in wire \/ SegmentData(s, world.par)
  PROVE  DataInv'
<1>1. DOMAIN tables = Host
  BY DEF HostsInv
<1>2. \A g \in Host : tables'[g] = IF g = h THEN T ELSE tables[g]
  BY <1>1
<1>3. \A g \in Host : HostData(tables'[g], g, world'.par)
  BY <1>2 DEF DataInv
<1>4. \A s \in wire' : SegmentData(s, world'.par)
  BY DEF DataInv
<1> QED
  BY <1>3, <1>4 DEF DataInv

LEMMA NoHostData ==
  ASSUME DataInv, world' = world, tables' = tables,
         \A s \in wire' : s \in wire \/ SegmentData(s, world.par)
  PROVE  DataInv'
  BY DEF DataInv

----------------------------------------------------------------------------
(* What a connection does in an event. *)

\* The connections of a host change to new: p alone does, to fsm and st, or is removed.
Moved(conns, new, p, fsm, st) ==
    /\ DOMAIN new \subseteq DOMAIN conns
    /\ DOMAIN conns \ {p} \subseteq DOMAIN new
    /\ \A q \in DOMAIN new \ {p} : new[q] = conns[q]
    /\ p \notin DOMAIN new => fsm = "CLOSED"
    /\ p \in DOMAIN new =>
          /\ new[p].gate = conns[p].gate /\ new[p].connId = conns[p].connId
          /\ new[p].pair = conns[p].pair
          /\ new[p].fsm = fsm /\ new[p].st = st

\* Its timers are left, and it is there unless a handler removes it.
Leaves(conns, new, p, timers, removes) ==
    /\ p \in DOMAIN new => new[p].timers = timers /\ new[p].done = conns[p].done
    /\ ~removes => p \in DOMAIN new

LEMMA PutMoves ==
  ASSUME NEW conns, NEW p \in DOMAIN conns, DOMAIN conns[p] = Fields,
         NEW fsm, NEW timers, NEW st
  PROVE  LET changed == [conns[p] EXCEPT !.fsm = fsm, !.timers = timers, !.st = st]
             put == Put(conns, p, changed)
         IN  /\ Moved(conns, put, p, fsm, st)
             /\ fsm = "CLOSED" => Moved(conns, Drop(put, p), p, fsm, st)
             /\ \A removes : Leaves(conns, put, p, timers, removes)
             /\ Leaves(conns, Drop(put, p), p, timers, TRUE)
<1> DEFINE conn == conns[p]
           changed == [conn EXCEPT !.fsm = fsm, !.timers = timers, !.st = st]
           put == Put(conns, p, changed)
           dropped == Drop(put, p)
<1>1. /\ changed.gate = conn.gate /\ changed.connId = conn.connId /\ changed.pair = conn.pair
      /\ changed.fsm = fsm /\ changed.st = st
      /\ changed.timers = timers /\ changed.done = conn.done
  <2>1. DOMAIN conn = Fields
    OBVIOUS
  <2> HIDE DEF conn
  <2> QED
    BY <2>1 DEF Fields
<1> HIDE DEF changed
<1>2. /\ DOMAIN put = DOMAIN conns /\ put[p] = changed
      /\ \A q \in DOMAIN conns \ {p} : put[q] = conns[q]
  <2>1. /\ DOMAIN put = DOMAIN conns \cup {p} /\ put[p] = changed
        /\ \A q \in DOMAIN conns \ {p} : put[q] = conns[q]
    BY DEF Put
  <2> HIDE DEF put
  <2>2. DOMAIN conns \cup {p} = DOMAIN conns
    OBVIOUS
  <2> QED
    BY <2>1, <2>2
<1> HIDE DEF put
<1>3. /\ DOMAIN dropped = DOMAIN conns \ {p}
      /\ \A q \in DOMAIN conns \ {p} : dropped[q] = conns[q]
  BY <1>2, DropGives
<1> HIDE DEF dropped
<1>4. Moved(conns, put, p, fsm, st) /\ (fsm = "CLOSED" => Moved(conns, dropped, p, fsm, st))
  BY <1>1, <1>2, <1>3 DEF Moved
<1>5. /\ \A removes : Leaves(conns, put, p, timers, removes)
      /\ Leaves(conns, dropped, p, timers, TRUE)
  BY <1>1, <1>2, <1>3 DEF Leaves
<1> QED
  BY <1>4, <1>5 DEF changed, put, dropped

\* All that Perform does.
Performs(h, p, event, sends, told, st, queue, gone) ==
    LET conn == tables[h].conns[p]
    IN  /\ UNCHANGED <<world, up, nextId, operations, error>>
        /\ Moved(tables[h].conns, tables'[h].conns, p, NextState(conn.fsm, event), st)
        /\ tables' = [tables EXCEPT ![h] = tables'[h]]
        /\ toApp' = [toApp EXCEPT ![h] = Heard(queue, conn, told)]
        /\ wire' = (wire \ gone) \cup UNION {Sent(h, conn.pair, k) : k \in sends}

LEMMA PerformDoes ==
  ASSUME HostsInv, NEW h \in Host, NEW p \in DOMAIN tables[h].conns,
         NEW event, NEW sends, NEW tells, NEW armed, NEW st, NEW queue, NEW gone, NEW removes,
         Perform(h, p, event, sends, tells, armed, st, queue, gone, removes)
  PROVE  LET fsm == tables[h].conns[p].fsm
             told == tells \o EntryTells(fsm, NextState(fsm, event), event)
             after == IF sends = {} THEN st ELSE UpdateRcvWnd(st)
         IN  \/ sends # {} /\ ~WindowFits(after) /\ Fail("WINDOW", h)
             \/ /\ sends # {} /\ tables[h].conns[p].pair.remoteAddr = NoHost
                /\ Fail("NO_PEER", h)
             \/ /\ Performs(h, p, event, sends, told, after, queue, gone)
                /\ Leaves(tables[h].conns, tables'[h].conns, p,
                          EntryTimers(fsm, NextState(fsm, event), armed), removes)
<1> DEFINE T == tables[h]
           conn == T.conns[p]
           new == NextState(conn.fsm, event)
           left == EntryTimers(conn.fsm, new, armed)
           after == IF sends = {} THEN st ELSE UpdateRcvWnd(st)
           changed == [conn EXCEPT !.fsm = new, !.timers = left, !.st = after]
           told == tells \o EntryTells(conn.fsm, new, event)
           put == Put(T.conns, p, changed)
           moved == WithConns(T, put)
           U == IF removes /\ new = "CLOSED" THEN RemoveConnection(moved, p) ELSE moved
<1> HIDE DEF new, left, after, told
<1> DEFINE small == sends # {} /\ ~WindowFits(after)
           alone == sends # {} /\ conn.pair.remoteAddr = NoHost
<1>1. CASE small
  BY <1>1 DEF Perform, after
<1>2. CASE ~small /\ alone
  BY <1>2 DEF Perform, after
<1>3. CASE ~small /\ ~alone
  <2>1. /\ tables' = [tables EXCEPT ![h] = U]
        /\ toApp' = [toApp EXCEPT ![h] = Heard(queue, conn, told)]
        /\ wire' = (wire \ gone) \cup UNION {Sent(h, conn.pair, k) : k \in sends}
        /\ UNCHANGED <<world, up, nextId, operations, error>>
    BY <1>3 DEF Perform, WithConns, Heard, new, left, after, told
  <2>2. IsTables(T) /\ DOMAIN conn = Fields /\ DOMAIN tables = Host
    BY DEF HostsInv, HostOK, TablesOK, IsConnection
  <2>3. tables'[h] = U
    BY <2>1, <2>2
  <2>4. /\ Moved(T.conns, put, p, new, after)
        /\ new = "CLOSED" => Moved(T.conns, Drop(put, p), p, new, after)
        /\ \A some : Leaves(T.conns, put, p, left, some)
        /\ Leaves(T.conns, Drop(put, p), p, left, TRUE)
    BY <2>2, PutMoves
  <2> HIDE DEF put
  <2>5. moved.conns = put /\ RemoveConnection(moved, p).conns = Drop(put, p)
    <3>1. moved.conns = put /\ "conns" \in DOMAIN moved
      BY <2>2 DEF IsTables, WithConns
    <3> HIDE DEF moved
    <3>2. RemoveConnection(moved, p).conns = Drop(moved.conns, p)
      BY <3>1 DEF RemoveConnection
    <3> QED
      BY <3>1, <3>2
  <2> HIDE DEF moved
  <2>6. Moved(T.conns, U.conns, p, new, after)
    BY <2>4, <2>5
  <2>8. Leaves(T.conns, U.conns, p, left, removes)
    <3>1. CASE removes /\ new = "CLOSED"
      BY <2>4, <2>5, <3>1 DEF Leaves
    <3>2. CASE ~(removes /\ new = "CLOSED")
      BY <2>4, <2>5, <3>2
    <3> QED
      BY <3>1, <3>2
  <2> HIDE DEF U
  <2>7. Performs(h, p, event, sends, told, after, queue, gone)
    BY <2>1, <2>3, <2>6 DEF Performs, new
  <2> QED
    BY <2>3, <2>7, <2>8 DEF after, told, new, left
<1> QED
  BY <1>1, <1>2, <1>3

\* What becomes of a connection in an event that is neither a call nor an answer to one.
LEMMA EventsLead ==
  ASSUME NEW state \in States \ {"CLOSED"}, NEW event, event \notin {"OPEN_ACTIVE", "RCV_SYN_ACK"}
  PROVE  LET new == NextState(state, event)
         IN  /\ new = "SYN_SENT" => state = "SYN_SENT"
             /\ state = "SYN_SENT" => new \in {"SYN_SENT", "CLOSED"}
  BY DEF NextState, Moves, States

\* Segments that say nothing about parameters.
LEMMA PlainSegment ==
  ASSUME NEW par, NEW kind, kind \notin {"SYN", "SYNACK"}
  PROVE  /\ \A h, pair : \A s \in Sent(h, pair, kind) : SegmentData(s, par)
         /\ \A s0 : \A s \in Reply(s0, kind) : SegmentData(s, par)
<1>1. 0 \in Window
  BY DEF Window, RQ_MAX_WIN
<1>2. ASSUME NEW src, NEW dst, NEW srcPort, NEW destPort
      PROVE  LET s == Segment(kind, src, dst, srcPort, destPort)
             IN  SegmentData(s, par) /\ SegmentData([s EXCEPT !.copy = 2], par)
  <2> DEFINE s == Segment(kind, src, dst, srcPort, destPort)
  <2>1. /\ s.kind = kind /\ s.window = 0
        /\ [s EXCEPT !.copy = 2].kind = kind /\ [s EXCEPT !.copy = 2].window = 0
    BY DEF Segment
  <2> HIDE DEF s
  <2>2. SegmentData(s, par) /\ SegmentData([s EXCEPT !.copy = 2], par)
    BY <1>1, <2>1 DEF SegmentData
  <2> QED
    BY <2>2 DEF s
<1>3. ASSUME NEW h, NEW pair, NEW s \in Sent(h, pair, kind)
      PROVE  SegmentData(s, par)
  <2> DEFINE t == Segment(kind, h, pair.remoteAddr, pair.localPort, pair.remotePort)
  <2>1. s = t \/ s = [t EXCEPT !.copy = 2]
    BY <1>3 DEF Sent
  <2>2. SegmentData(t, par) /\ SegmentData([t EXCEPT !.copy = 2], par)
    BY <1>2
  <2> HIDE DEF t
  <2> QED
    BY <2>1, <2>2
<1>4. ASSUME NEW s0, NEW s \in Reply(s0, kind)
      PROVE  SegmentData(s, par)
  <2> DEFINE t == Segment(kind, s0.dst, s0.src, s0.destPort, s0.srcPort)
  <2>1. s = t
    BY <1>4 DEF Reply
  <2>2. SegmentData(t, par)
    BY <1>2
  <2> HIDE DEF t
  <2> QED
    BY <2>1, <2>2
<1> QED
  BY <1>3, <1>4

\* A connection keeps what it holds in such an event.
LEMMA DataKept ==
  ASSUME NEW conn, NEW new, NEW h, NEW par, ConnData(conn, h, par),
         conn.fsm \in States \ {"CLOSED"}, new.pair = conn.pair,
         NEW event, event \notin {"OPEN_ACTIVE", "RCV_SYN_ACK"},
         new.fsm = NextState(conn.fsm, event),
         new.st = conn.st \/ (new.st = UpdateRcvWnd(conn.st) /\ conn.fsm # "SYN_SENT")
  PROVE  ConnData(new, h, par)
<1> DEFINE pair == conn.pair
           peer == par[pair.remoteAddr]
<1>1. /\ new.fsm = "SYN_SENT" => conn.fsm = "SYN_SENT"
      /\ conn.fsm = "SYN_SENT" => new.fsm \in {"SYN_SENT", "CLOSED"}
  BY EventsLead
<1>2. conn.st \in StateBlock
  BY DEF ConnData
<1>3. /\ new.st \in StateBlock
      /\ FreshState(conn.st) => FreshState(new.st)
      /\ ServerState(conn.st, par[h], peer) => ServerState(new.st, par[h], peer)
      /\ ClientState(conn.st, par[h], peer) => ClientState(new.st, par[h], peer)
  BY <1>2, WindowMoves
<1>4. CASE pair.localPort \in Ephemeral
  <2>1. pair.remoteAddr \in Host
    BY <1>4 DEF ConnData
  <2>2. new.fsm = "SYN_SENT" => new.st = WriteSyn(SynState(par[h]), TRUE)
    BY <1>1, <1>4 DEF ConnData
  <2>3. new.fsm \notin {"SYN_SENT", "CLOSED"} =>
           ClientState(new.st, par[h], peer) /\ pair.remotePort \notin Ephemeral
    BY <1>1, <1>3, <1>4 DEF ConnData
  <2> HIDE DEF peer
  <2> QED
    BY <1>3, <1>4, <2>1, <2>2, <2>3 DEF ConnData, peer
<1>5. CASE pair.localPort \notin Ephemeral
  <2>1. new.fsm # "SYN_SENT"
    BY <1>1, <1>5 DEF ConnData
  <2>2. pair.remoteAddr = NoHost =>
           FreshState(new.st) /\ pair = Listening(pair.localAddr, pair.localPort)
    BY <1>3, <1>5 DEF ConnData
  <2>3. pair.remoteAddr # NoHost => pair.localAddr = h /\ ServerState(new.st, par[h], peer)
    BY <1>3, <1>5 DEF ConnData
  <2> QED
    BY <1>3, <1>5, <2>1, <2>2, <2>3 DEF ConnData
<1> QED
  BY <1>4, <1>5

LEMMA MovedData ==
  ASSUME NEW T, NEW U, NEW h, NEW par, HostData(T, h, par), NEW p \in DOMAIN T.conns,
         T.conns[p].fsm \in States \ {"CLOSED"},
         NEW event, event \notin {"OPEN_ACTIVE", "RCV_SYN_ACK"}, NEW st,
         st = T.conns[p].st \/ (st = UpdateRcvWnd(T.conns[p].st) /\ T.conns[p].fsm # "SYN_SENT"),
         Moved(T.conns, U.conns, p, NextState(T.conns[p].fsm, event), st)
  PROVE  HostData(U, h, par)
<1> DEFINE conn == T.conns[p]
           new == U.conns[p]
<1>1. ConnData(conn, h, par)
  BY DEF HostData
<1>2. CASE p \in DOMAIN U.conns
  <2>1. new.pair = conn.pair /\ new.fsm = NextState(conn.fsm, event) /\ new.st = st
    BY <1>2 DEF Moved
  <2> HIDE DEF conn, new
  <2>2. ConnData(new, h, par)
    BY <1>1, <2>1, DataKept DEF conn
  <2>3. \A q \in DOMAIN U.conns \ {p} : q \in DOMAIN T.conns /\ U.conns[q] = T.conns[q]
    BY DEF Moved
  <2> QED
    BY <2>2, <2>3 DEF HostData, new
<1>3. CASE p \notin DOMAIN U.conns
  BY <1>3 DEF Moved, HostData
<1> QED
  BY <1>2, <1>3

LEMMA PerformData ==
  ASSUME HostsInv, DataInv, NEW h \in Host, NEW p \in DOMAIN tables[h].conns,
         NEW event, NEW sends, NEW tells, NEW armed, NEW st, NEW queue, NEW gone, NEW removes,
         tables[h].conns[p].fsm # "CLOSED", st = tables[h].conns[p].st,
         event \notin {"OPEN_ACTIVE", "RCV_SYN_ACK"},
         sends \subseteq {"FIN", "ACK"}, sends # {} => tables[h].conns[p].fsm # "SYN_SENT",
         Perform(h, p, event, sends, tells, armed, st, queue, gone, removes)
  PROVE  DataInv'
<1> DEFINE T == tables[h]
           U == tables'[h]
           conn == T.conns[p]
           told == tells \o EntryTells(conn.fsm, NextState(conn.fsm, event), event)
           after == IF sends = {} THEN st ELSE UpdateRcvWnd(st)
<1>1. CASE \E reason : Fail(reason, h)
  BY <1>1, NoHostData DEF Fail
<1>2. CASE Performs(h, p, event, sends, told, after, queue, gone)
  <2>1. /\ world' = world /\ tables' = [tables EXCEPT ![h] = U]
        /\ Moved(T.conns, U.conns, p, NextState(conn.fsm, event), after)
        /\ wire' = (wire \ gone) \cup UNION {Sent(h, conn.pair, k) : k \in sends}
    BY <1>2 DEF Performs
  <2>2. conn.fsm \in States \ {"CLOSED"} /\ HostData(T, h, world.par)
    BY DEF HostsInv, HostOK, TablesOK, IsConnection, DataInv
  <2>3. after = conn.st \/ (after = UpdateRcvWnd(conn.st) /\ conn.fsm # "SYN_SENT")
    OBVIOUS
  <2>4. \A s \in wire' : s \in wire \/ SegmentData(s, world.par)
    <3>1. \A k \in sends : k \notin {"SYN", "SYNACK"}
      OBVIOUS
    <3> QED
      BY <2>1, <3>1, PlainSegment
  <2> HIDE DEF T, U, conn, after
  <2>5. HostData(U, h, world.par)
    BY <2>1, <2>2, <2>3, MovedData DEF conn, T
  <2> QED
    BY <2>1, <2>4, <2>5, OneHostData
<1> QED
  BY <1>1, <1>2, PerformDoes

----------------------------------------------------------------------------
(* What the operations on the tables do to the connections. *)

LEMMA CreatedConns ==
  ASSUME NEW T, "conns" \in DOMAIN T, NEW p, NEW conn
  PROVE  LET U == CreateConnection(T, p, conn)
         IN  "conns" \in DOMAIN U /\ U.conns = Put(T.conns, p, conn)
  BY DEF CreateConnection

LEMMA PairedConns ==
  ASSUME NEW T, "conns" \in DOMAIN T, NEW p, NEW pair
  PROVE  LET U == AddSockPair(T, p, pair)
             V == UpdateSockPair(T, p, pair)
             conns == Put(T.conns, p, WithPair(T.conns[p], pair))
         IN  /\ "conns" \in DOMAIN U /\ U.conns = conns
             /\ "conns" \in DOMAIN V /\ V.conns = conns
  BY DEF AddSockPair, UpdateSockPair, WithPair

\* createConnection and addSockPair.
LEMMA AddedConns ==
  ASSUME NEW T, "conns" \in DOMAIN T, NEW p, NEW conn, NEW pair
  PROVE  LET U == AddSockPair(CreateConnection(T, p, conn), p, pair)
         IN  /\ "conns" \in DOMAIN U
             /\ DOMAIN U.conns = DOMAIN T.conns \cup {p}
             /\ U.conns[p] = WithPair(conn, pair)
             /\ \A q \in DOMAIN T.conns \ {p} : U.conns[q] = T.conns[q]
<1> DEFINE V == CreateConnection(T, p, conn)
           U == AddSockPair(V, p, pair)
           created == V.conns
           new == WithPair(created[p], pair)
           conns == U.conns
<1>1. "conns" \in DOMAIN V /\ created = Put(T.conns, p, conn)
  BY CreatedConns
<1> HIDE DEF V
<1>2. "conns" \in DOMAIN U /\ conns = Put(created, p, new)
  BY <1>1, PairedConns
<1> HIDE DEF U, created
<1>3. /\ DOMAIN created = DOMAIN T.conns \cup {p} /\ created[p] = conn
      /\ \A q \in DOMAIN T.conns \ {p} : created[q] = T.conns[q]
  BY <1>1 DEF Put
<1>4. new = WithPair(conn, pair)
  BY <1>3
<1> HIDE DEF new, conns
<1>5. /\ DOMAIN conns = DOMAIN created \cup {p} /\ conns[p] = new
      /\ \A q \in DOMAIN created \ {p} : conns[q] = created[q]
  BY <1>2 DEF Put
<1> QED
  BY <1>2, <1>3, <1>4, <1>5 DEF conns, U, V

\* updateSockPair
LEMMA MovedConns ==
  ASSUME NEW T, "conns" \in DOMAIN T, NEW p \in DOMAIN T.conns, NEW pair
  PROVE  LET U == UpdateSockPair(T, p, pair)
         IN  /\ "conns" \in DOMAIN U
             /\ DOMAIN U.conns = DOMAIN T.conns
             /\ U.conns[p] = WithPair(T.conns[p], pair)
             /\ \A q \in DOMAIN T.conns \ {p} : U.conns[q] = T.conns[q]
<1> DEFINE U == UpdateSockPair(T, p, pair)
           new == WithPair(T.conns[p], pair)
           conns == U.conns
<1>1. "conns" \in DOMAIN U /\ conns = Put(T.conns, p, new)
  BY PairedConns
<1> HIDE DEF U, new, conns
<1>2. /\ DOMAIN conns = DOMAIN T.conns \cup {p} /\ conns[p] = new
      /\ \A q \in DOMAIN T.conns \ {p} : conns[q] = T.conns[q]
  BY <1>1 DEF Put
<1>3. DOMAIN T.conns \cup {p} = DOMAIN T.conns
  OBVIOUS
<1> QED
  BY <1>1, <1>2, <1>3 DEF U, new, conns

\* addForkedConnection
Forks(T, U, p, pair, id, q, conn) ==
    /\ "conns" \in DOMAIN U
    /\ DOMAIN U.conns = DOMAIN T.conns \cup {q}
    /\ U.conns[p] = SpunOff(T.conns[p], pair, id)
    /\ U.conns[q] = WithPair(conn, conn.pair)
    /\ \A r \in DOMAIN T.conns \ {p} : U.conns[r] = T.conns[r]

LEMMA ForkedConns ==
  ASSUME NEW T, "conns" \in DOMAIN T, NEW p \in DOMAIN T.conns, NEW pair, NEW id,
         NEW q, q \notin DOMAIN T.conns, NEW conn
  PROVE  Forks(T, AddForkedConnection(T, p, pair, id, q, conn), p, pair, id, q, conn)
<1> DEFINE V == UpdateSockPair(T, p, pair)
           A == AddSockPair(CreateConnection(V, q, conn), q, conn.pair)
           U == AddForkedConnection(T, p, pair, id, q, conn)
           new == SpunOff(T.conns[p], pair, id)
           before == A.conns
           conns == U.conns
<1>1. /\ "conns" \in DOMAIN V /\ DOMAIN V.conns = DOMAIN T.conns
      /\ V.conns[p] = WithPair(T.conns[p], pair)
      /\ \A r \in DOMAIN T.conns \ {p} : V.conns[r] = T.conns[r]
  BY MovedConns
<1>2. U = [A EXCEPT !.conns = Put(@, p, [@[p] EXCEPT !.connId = id]),
                    !.apps = Put(@, <<T.conns[p].gate, id>>, p)]
  BY DEF AddForkedConnection
<1> HIDE DEF V
<1>3. /\ "conns" \in DOMAIN A /\ DOMAIN before = DOMAIN V.conns \cup {q}
      /\ before[q] = WithPair(conn, conn.pair)
      /\ \A r \in DOMAIN V.conns \ {q} : before[r] = V.conns[r]
  BY <1>1, AddedConns
<1> HIDE DEF A
<1>4. "conns" \in DOMAIN U /\ conns = Put(before, p, [before[p] EXCEPT !.connId = id])
  BY <1>2, <1>3
<1> HIDE DEF U, before
<1>5. [before[p] EXCEPT !.connId = id] = new
  BY <1>1, <1>3 DEF SpunOff, WithPair
<1> HIDE DEF new, conns
<1>6. /\ DOMAIN conns = DOMAIN before \cup {p} /\ conns[p] = new
      /\ \A r \in DOMAIN before \ {p} : conns[r] = before[r]
  BY <1>4, <1>5 DEF Put
<1>7. DOMAIN before \cup {p} = DOMAIN T.conns \cup {q} /\ p # q
  BY <1>1, <1>3
<1> QED
  BY <1>1, <1>3, <1>4, <1>6, <1>7 DEF Forks, U, new, conns

----------------------------------------------------------------------------
(* Commands and calls. *)

LEMMA ConnsOf ==
  ASSUME HostsInv, NEW h \in Host
  PROVE  /\ "conns" \in DOMAIN tables[h]
         /\ \A p \in DOMAIN tables[h].conns :
               /\ p # NoConn /\ DOMAIN tables[h].conns[p] = Fields
               /\ tables[h].conns[p].fsm \in States
<1>1. TablesOK(tables[h], nextId)
  BY DEF HostsInv, HostOK
<1> QED
  BY <1>1, AddressAssumption DEF TablesOK, IsTables, IsConnection

LEMMA SynStateFits ==
  ASSUME NEW par, Sound(par)
  PROVE  WriteSyn(SynState(par), TRUE) \in StateBlock /\ SynWindow(SynState(par)) \in Window
<1>1. SynState(par) \in StateBlock
  BY SynStateIs
<1>2. HasWritten(WriteSyn(SynState(par), TRUE), SynState(par), TRUE)
  BY <1>1, SynWritten
<1> QED
  BY <1>1, <1>2, SynWindowOK DEF HasWritten

\* The segment of a call, or of its answer.
LEMMA SynSegment ==
  ASSUME NEW h, NEW pair, NEW kind, NEW st, NEW s \in SentSyn(h, pair, kind, st)
  PROVE  /\ s.kind = kind /\ s.src = h /\ s.dst = pair.remoteAddr /\ s.srcPort = pair.localPort
         /\ s.opts = SynOptions(st, kind = "SYN") /\ s.window = SynWindow(st)
<1> DEFINE t == Segment(kind, h, pair.remoteAddr, pair.localPort, pair.remotePort)
           opts == SynOptions(st, kind = "SYN")
           window == SynWindow(st)
<1>1. s = [t EXCEPT !.opts = opts, !.window = window]
  BY DEF SentSyn
<1> HIDE DEF opts, window
<1>2. /\ s.kind = kind /\ s.src = h /\ s.dst = pair.remoteAddr /\ s.srcPort = pair.localPort
      /\ s.opts = opts /\ s.window = window
  BY <1>1 DEF Segment
<1> QED
  BY <1>2 DEF opts, window

\* Hosts with one more connection, or with one changed.
LEMMA ChangedData ==
  ASSUME NEW T, NEW U, NEW h, NEW par, HostData(T, h, par), NEW p,
         DOMAIN U.conns \subseteq DOMAIN T.conns \cup {p},
         p \in DOMAIN U.conns => ConnData(U.conns[p], h, par),
         \A q \in DOMAIN U.conns \ {p} : U.conns[q] = T.conns[q]
  PROVE  HostData(U, h, par)
  BY DEF HostData

LEMMA CloseData ==
  ASSUME HostsInv, DataInv, NEW h \in Host, NEW gate, NEW connId, NEW queue,
         Close(h, gate, connId, queue)
  PROVE  DataInv'
<1> DEFINE T == tables[h]
           p == FindConnForApp(T, gate, connId)
           conn == T.conns[p]
           early == conn.fsm \in {"LISTEN", "SYN_SENT"}
           sends == IF early THEN {} ELSE {"FIN"}
           armed == IF early THEN conn.timers ELSE conn.timers \cup {"REXMIT"}
<1>1. CASE ~up[h]
  BY <1>1, NoHostData DEF Close
<1>2. CASE \E reason : Fail(reason, h)
  BY <1>2, NoHostData DEF Fail
<1>3. CASE up[h] /\ ~\E reason : Fail(reason, h)
  <2>1. /\ p # NoConn /\ conn.fsm # "CLOSED"
        /\ Perform(h, p, "CLOSE", sends, <<>>, armed, conn.st, queue, {}, TRUE)
    BY <1>3 DEF Close
  <2>2. p \in DOMAIN T.conns
    <3>1. <<gate, connId>> \in DOMAIN T.apps /\ p = T.apps[<<gate, connId>>]
      BY <2>1 DEF FindConnForApp
    <3>2. AppsAgree(T)
      BY DEF HostsInv, HostOK, TablesOK
    <3> HIDE DEF p
    <3> QED
      BY <3>1, <3>2 DEF AppsAgree
  <2>3. sends \subseteq {"FIN", "ACK"} /\ (sends # {} => conn.fsm # "SYN_SENT")
    OBVIOUS
  <2> DEFINE st == conn.st
             event == "CLOSE"
  <2>4. /\ Perform(h, p, event, sends, <<>>, armed, st, queue, {}, TRUE)
        /\ event \notin {"OPEN_ACTIVE", "RCV_SYN_ACK"}
        /\ st = tables[h].conns[p].st /\ tables[h].conns[p].fsm # "CLOSED"
        /\ sends # {} => tables[h].conns[p].fsm # "SYN_SENT"
    BY <2>1, <2>3
  <2> HIDE DEF sends, armed, p, st, event
  <2> QED
    BY <2>2, <2>3, <2>4, PerformData
<1> QED
  BY <1>1, <1>2, <1>3

LEMMA OpenData ==
  ASSUME HostsInv, DataInv, NEW h \in Host, NEW gate, NEW app,
         app.peer \in Host, OpenActive(h, gate, nextId, app)
  PROVE  DataInv'
<1> DEFINE T == tables[h]
           p == FreshPointer(T)
           par == world.par[h]
           st == SynState(par)
           syn == WriteSyn(st, TRUE)
           conn == Connection(gate, nextId, Closed, "SYN_SENT", {}, syn)
           port == GetEphemeralPort(T)
           pair == SockPair(NoHost, app.peer, port, app.port)
           A == AddSockPair(CreateConnection(T, p, conn), p, pair)
           U == [A EXCEPT !.lastPort = port]
           new == WithPair(conn, pair)
<1>1. CASE ~up[h]
  BY <1>1, NoHostData DEF OpenActive
<1>2. CASE \E reason : Fail(reason, h)
  BY <1>2, NoHostData DEF Fail
<1>3. CASE up[h] /\ ~\E reason : Fail(reason, h)
  <2>1. /\ ~Exhausted(T) /\ world' = world
        /\ wire' = wire \cup SentSyn(h, pair, "SYN", st)
    BY <1>3 DEF OpenActive, SynState
  <2>2. tables' = [tables EXCEPT ![h] = U]
    <3>1. pair.localPort = port
      BY DEF SockPair
    <3>2. tables' = [tables EXCEPT ![h] = [A EXCEPT !.lastPort = pair.localPort]]
      BY <1>3 DEF OpenActive, SynState
    <3> HIDE DEF pair, A
    <3> QED
      BY <3>1, <3>2
  <2>3. port \in Ephemeral
    <3>1. T.lastPort \in Ephemeral
      BY DEF HostsInv, HostOK, TablesOK, IsTables
    <3> QED
      BY <2>1, <3>1, FreePort
  <2>4. Sound(par)
    BY SoundHosts DEF HostsInv
  <2> HIDE DEF port, p
  <2>5. syn \in StateBlock /\ SynWindow(st) \in Window
    BY <2>4, SynStateFits
  <2>6. pair.localPort = port /\ pair.remoteAddr = app.peer
    BY DEF SockPair
  <2> HIDE DEF syn, pair
  <2>7. new.pair = pair /\ new.fsm = "SYN_SENT" /\ new.st = syn
    BY DEF Connection, WithPair
  <2>8. "conns" \in DOMAIN T /\ HostData(T, h, world.par)
    BY ConnsOf DEF DataInv
  <2>9. /\ "conns" \in DOMAIN A
        /\ DOMAIN A.conns = DOMAIN T.conns \cup {p}
        /\ A.conns[p] = new
        /\ \A q \in DOMAIN T.conns \ {p} : A.conns[q] = T.conns[q]
    BY <2>8, AddedConns
  <2> HIDE DEF A, conn, new
  <2>10. ConnData(new, h, world.par)
    BY <2>3, <2>5, <2>6, <2>7 DEF ConnData, syn
  <2>11. U.conns = A.conns
    BY <2>9
  <2> HIDE DEF U, T
  <2>12. HostData(U, h, world.par)
    BY <2>8, <2>9, <2>10, <2>11, ChangedData
  <2>13. ASSUME NEW s \in SentSyn(h, pair, "SYN", st)
         PROVE  SegmentData(s, world.par)
    <3>1. /\ s.kind = "SYN" /\ s.src = h /\ s.window = SynWindow(st)
          /\ s.opts = SynOptions(st, "SYN" = "SYN")
      BY <2>13, SynSegment
    <3>2. ("SYN" = "SYN") = TRUE
      OBVIOUS
    <3> QED
      BY <2>5, <3>1, <3>2 DEF SegmentData
  <2> QED
    BY <2>1, <2>2, <2>12, <2>13, OneHostData
<1> QED
  BY <1>1, <1>2, <1>3

\* LISTEN: the connection that listened, fresh or taken before by this caller, answers.
LEMMA AcceptData ==
  ASSUME HostsInv, DataInv, NEW h \in Host, NEW s \in wire, s.kind = "SYN", s.dst = h,
         NEW p \in DOMAIN tables[h].conns,
         p = FindConnForSegment(tables[h], s.src, h, s.srcPort, s.destPort),
         tables[h].conns[p].fsm = "LISTEN",
         Accept(h, s, p)
  PROVE  DataInv'
<1> DEFINE T == tables[h]
           conn == T.conns[p]
           par == world.par[h]
           peer == world.par[s.src]
           pair == SockPair(h, s.src, s.destPort, s.srcPort)
           heard == UpdateRcvWnd(ReadOptions(UpdateSndWnd(Configure(conn.st, par), s.window),
                                             s.opts))
           syn == WriteSyn(heard, FALSE)
           clone == Clone(conn, s.destPort)
           q == FreshPointer(T)
           F == AddForkedConnection(T, p, pair, nextId, q, clone)
           fsm == NextState(F.conns[p].fsm, "RCV_SYN")
           timers == F.conns[p].timers \cup {"CONN_ESTAB"}
           U == InPlace(F, p, fsm, timers, syn)
           spunOff == SpunOff(conn, pair, nextId)
           listener == WithPair(clone, clone.pair)
<1> HIDE DEF heard, syn, F, U, listener, spunOff, clone, q, fsm, timers
<1>1. /\ TablesOK(T, nextId) /\ nextId \in Nat \ {0} /\ world \in Scenarios /\ s.src \in Host
      /\ SegmentData(s, world.par) /\ HostData(T, h, world.par)
      /\ "conns" \in DOMAIN T /\ DOMAIN conn = Fields
  BY ConnsOf DEF HostsInv, HostOK, DataInv
<1>2. CASE \E reason : Fail(reason, h)
  BY <1>2, NoHostData DEF Fail
<1>3. CASE ~\E reason : Fail(reason, h)
  <2>1. /\ nextId <= world.maxId /\ world' = world
        /\ wire' = (wire \ {s}) \cup SentSyn(h, pair, "SYNACK", heard)
    BY <1>3 DEF Accept, heard, clone
  <2>2. tables' = [tables EXCEPT ![h] = U]
    BY <1>3 DEF Accept, InPlace, heard, syn, F, U, clone, q, fsm, timers
  <2>3. ListensOnly(conn) /\ ConnData(conn, h, world.par)
    BY <1>1 DEF TablesOK, HostData
  <2>4. conn.pair.localPort = s.destPort /\ conn.pair.remoteAddr \in {s.src, NoHost}
    <3>1. p # NoConn
      BY ConnsOf
    <3> HIDE DEF T
    <3> QED
      BY <1>1, <3>1, FoundConn DEF T
  <2>5. /\ pair.localPort = s.destPort /\ pair.remoteAddr = s.src /\ pair.localAddr = h
        /\ s.destPort \notin Ephemeral /\ s.src # NoHost
    BY <1>1, <2>3, <2>4, AddressAssumption DEF SockPair, ListensOnly, Waiting
  <2>6. q \in Pointer \ DOMAIN T.conns
    BY <1>1, <2>1, RoomForConnection DEF q
  <2>7. /\ Sound(par) /\ Sound(peer) /\ conn.st \in StateBlock
        /\ FreshState(conn.st) \/ ServerState(conn.st, par, peer)
        /\ s.opts = SynOptions(SynState(peer), TRUE) /\ s.window = SynWindow(SynState(peer))
    <3>1. Sound(par) /\ Sound(peer)
      BY <1>1, SoundHosts
    <3>2. s.opts = SynOptions(SynState(peer), TRUE) /\ s.window = SynWindow(SynState(peer))
      BY <1>1 DEF SegmentData
    <3> HIDE DEF conn
    <3> QED
      BY <2>3, <2>4, <2>5, <3>1, <3>2 DEF ConnData
  <2>8. /\ syn \in StateBlock /\ ServerState(syn, par, peer)
        /\ SynOptions(heard, FALSE) = SynAckOptions(par, peer)
        /\ AnnouncedTo(SynWindow(heard), par, peer)
    <3> HIDE DEF par, peer, conn
    <3> QED
      BY <2>7, ServerAnswers DEF heard, syn
  <2>9. /\ clone.pair = Listening(conn.pair.localAddr, s.destPort)
        /\ clone.fsm = "LISTEN" /\ clone.st = Unconfigured /\ DOMAIN clone = Fields
    BY DEF Clone, Connection, Fields, clone
  <2>10. /\ listener.pair = clone.pair /\ listener.fsm = "LISTEN" /\ listener.st = Unconfigured
         /\ clone.pair.localPort = s.destPort /\ clone.pair.remoteAddr = NoHost
         /\ clone.pair = Listening(clone.pair.localAddr, clone.pair.localPort)
    BY <2>9 DEF WithPair, Fields, listener, Listening, SockPair
  <2>11. /\ "conns" \in DOMAIN F
         /\ DOMAIN F.conns = DOMAIN T.conns \cup {q}
         /\ F.conns[p] = spunOff
         /\ F.conns[q] = listener
         /\ \A r \in DOMAIN T.conns \ {p} : F.conns[r] = T.conns[r]
    <3>1. /\ "conns" \in DOMAIN T /\ p \in DOMAIN T.conns /\ q \notin DOMAIN T.conns
          /\ F = AddForkedConnection(T, p, pair, nextId, q, clone)
          /\ spunOff = SpunOff(T.conns[p], pair, nextId) /\ listener = WithPair(clone, clone.pair)
      BY <1>1, <2>6 DEF F, spunOff, listener
    <3> HIDE DEF T, pair, conn
    <3>2. Forks(T, F, p, pair, nextId, q, clone)
      BY <3>1, ForkedConns
    <3> QED
      BY <3>1, <3>2 DEF Forks
  <2>12. /\ DOMAIN spunOff = Fields /\ spunOff.fsm = "LISTEN" /\ spunOff.pair = pair
    BY <1>1 DEF SpunOff, Fields, spunOff
  <2>13. /\ DOMAIN U.conns = DOMAIN F.conns
         /\ U.conns[p].pair = pair /\ U.conns[p].fsm = "SYN_RCVD" /\ U.conns[p].st = syn
         /\ \A r \in DOMAIN F.conns \ {p} : U.conns[r] = F.conns[r]
    <3> DEFINE changed == [spunOff EXCEPT !.fsm = fsm, !.timers = timers, !.st = syn]
               conns == [F.conns EXCEPT ![p] = changed]
    <3>1. U.conns = conns
      BY <2>11 DEF InPlace, U
    <3>2. fsm = "SYN_RCVD"
      BY <2>11, <2>12 DEF NextState, Moves, fsm
    <3>3. changed.pair = pair /\ changed.fsm = fsm /\ changed.st = syn
      BY <2>12 DEF Fields
    <3> HIDE DEF changed
    <3>4. DOMAIN conns = DOMAIN F.conns /\ conns[p] = changed
          /\ \A r \in DOMAIN F.conns \ {p} : conns[r] = F.conns[r]
      BY <2>11
    <3> QED
      BY <3>1, <3>2, <3>3, <3>4
  <2>14. ConnData(U.conns[p], h, world.par)
    <3> DEFINE new == U.conns[p]
    <3>1. new.pair = pair /\ new.fsm = "SYN_RCVD" /\ new.st = syn
      BY <2>13
    <3> HIDE DEF new, pair
    <3>2. ConnData(new, h, world.par)
      BY <2>5, <2>8, <3>1 DEF ConnData
    <3> QED
      BY <3>2 DEF new
  <2>15. ConnData(listener, h, world.par)
    <3>1. FreshState(Unconfigured)
      BY DEF FreshState, Unconfigured
    <3> QED
      BY <2>5, <2>10, <3>1, UnconfiguredBlock DEF ConnData
  <2> DEFINE conns == U.conns
  <2>16. /\ p \in DOMAIN T.conns /\ p # q /\ DOMAIN conns = DOMAIN T.conns \cup {q}
         /\ conns[q] = listener
         /\ \A r \in DOMAIN T.conns \ {p} : conns[r] = T.conns[r]
    BY <2>6, <2>11, <2>13
  <2>17. HostData(U, h, world.par)
    <3> HIDE DEF T
    <3>1. \A r \in DOMAIN conns : ConnData(conns[r], h, world.par)
      BY <1>1, <2>14, <2>15, <2>16 DEF HostData
    <3> QED
      BY <3>1 DEF HostData
  <2>18. ASSUME NEW t \in SentSyn(h, pair, "SYNACK", heard)
         PROVE  SegmentData(t, world.par)
    <3>1. /\ t.kind = "SYNACK" /\ t.src = h /\ t.dst = s.src /\ t.srcPort = s.destPort
          /\ t.window = SynWindow(heard) /\ t.opts = SynOptions(heard, "SYNACK" = "SYN")
      <4> HIDE DEF pair
      <4> QED
        BY <2>5, <2>18, SynSegment
    <3>2. ("SYNACK" = "SYN") = FALSE
      OBVIOUS
    <3>3. SynWindow(heard) \in Window
      BY <2>8 DEF AnnouncedTo
    <3> QED
      BY <2>5, <2>8, <3>1, <3>2, <3>3 DEF SegmentData
  <2> QED
    BY <2>1, <2>2, <2>17, <2>18, OneHostData
<1> QED
  BY <1>2, <1>3

\* SYN_SENT
LEMMA SynSentData ==
  ASSUME HostsInv, DataInv, NEW h \in Host, NEW s \in wire, s.dst = h,
         NEW p \in DOMAIN tables[h].conns, RcvInSynSent(h, s, p)
  PROVE  DataInv'
<1> DEFINE T == tables[h]
           conn == T.conns[p]
           par == world.par[h]
           peer == world.par[s.src]
           pair == SockPair(h, s.src, s.destPort, s.srcPort)
           V == UpdateSockPair(T, p, pair)
           moved == V.conns[p]
           read == ReadOptions(UpdateSndWnd(moved.st, s.window), s.opts)
           st == UpdateRcvWnd(read)
           fsm == NextState(moved.fsm, "RCV_SYN_ACK")
           changed == [moved EXCEPT !.fsm = fsm, !.st = st]
           conns == [V.conns EXCEPT ![p] = changed]
           U == [V EXCEPT !.conns[p].fsm = fsm, !.conns[p].st = st]
<1>1. /\ TablesOK(T, nextId) /\ nextId \in Nat /\ s.src \in Host /\ world \in Scenarios
      /\ SegmentData(s, world.par) /\ HostData(T, h, world.par)
      /\ "conns" \in DOMAIN T /\ DOMAIN conn = Fields /\ p # NoConn
  BY ConnsOf DEF HostsInv, HostOK, DataInv
<1>2. /\ p = FindConnForSegment(T, s.src, h, s.srcPort, s.destPort)
      /\ conn.fsm = "SYN_SENT"
  BY DEF RcvInSynSent, Arrives
<1>3. ConnData(conn, h, world.par)
  BY <1>1 DEF HostData
<1>4. conn.pair.localPort = s.destPort
  <2> HIDE DEF T
  <2> QED
    BY <1>1, <1>2, FoundConn DEF T
<1>5. /\ conn.pair.localPort \in Ephemeral /\ conn.st = WriteSyn(SynState(par), TRUE)
  <2> HIDE DEF conn
  <2> QED
    BY <1>2, <1>3 DEF ConnData
<1>6. pair.localPort \in Ephemeral /\ pair.remoteAddr = s.src /\ pair.remotePort = s.srcPort
  BY <1>4, <1>5 DEF SockPair
<1> HIDE DEF pair
<1>7. /\ "conns" \in DOMAIN V
      /\ DOMAIN V.conns = DOMAIN T.conns
      /\ moved = WithPair(conn, pair)
      /\ \A q \in DOMAIN T.conns \ {p} : V.conns[q] = T.conns[q]
  <2>1. p \in DOMAIN T.conns
    OBVIOUS
  <2> HIDE DEF T
  <2> QED
    BY <1>1, <2>1, MovedConns DEF conn
<1>8. /\ DOMAIN moved = Fields /\ moved.pair = pair /\ moved.fsm = conn.fsm
      /\ moved.st = conn.st
  <2> HIDE DEF V
  <2>1. moved = [conn EXCEPT !.pair = pair]
    BY <1>7 DEF WithPair
  <2> HIDE DEF conn, moved
  <2> QED
    BY <1>1, <2>1 DEF Fields, conn
<1>9. CASE \E reason : Fail(reason, h)
  BY <1>9, NoHostData DEF Fail
<1>10. CASE s.kind = "SYNACK" /\ ~\E reason : Fail(reason, h)
  <2>1. /\ tables' = [tables EXCEPT ![h] = U]
        /\ wire' = (wire \ {s}) \cup Sent(h, moved.pair, "FIRSTACK")
        /\ world' = world
    BY <1>10 DEF RcvInSynSent, pair
  <2>2. /\ read \in StateBlock /\ ClientState(read, par, peer)
    <3>1. Sound(par) /\ Sound(peer)
      BY <1>1, SoundHosts
    <3>2. s.opts = SynAckOptions(peer, par) /\ AnnouncedTo(s.window, peer, par)
      BY <1>1, <1>10 DEF SegmentData
    <3>3. moved.st = WriteSyn(SynState(par), TRUE)
      BY <1>5, <1>8
    <3> HIDE DEF par, peer, moved
    <3> QED
      BY <3>1, <3>2, <3>3, ClientHears
  <2> HIDE DEF read
  <2>3. st \in StateBlock /\ ClientState(st, par, peer)
    BY <2>2, WindowMoves
  <2>4. fsm = "ESTABLISHED"
    BY <1>2, <1>8 DEF NextState, Moves
  <2> HIDE DEF fsm, st, conn
  <2>5. U.conns = conns
    <3> HIDE DEF V
    <3> QED
      BY <1>7
  <2> HIDE DEF U, moved
  <2>6. changed.pair = pair /\ changed.fsm = "ESTABLISHED" /\ changed.st = st
    BY <1>8, <2>4 DEF Fields
  <2> HIDE DEF changed, V
  <2>7. /\ DOMAIN conns = DOMAIN T.conns /\ conns[p] = changed
        /\ \A q \in DOMAIN T.conns \ {p} : conns[q] = T.conns[q]
    BY <1>7
  <2>8. ConnData(changed, h, world.par)
    <3>1. s.srcPort \notin Ephemeral
      BY <1>1, <1>10 DEF SegmentData
    <3> QED
      BY <1>1, <1>6, <2>3, <2>6, <3>1 DEF ConnData
  <2> HIDE DEF conns, T
  <2>9. HostData(U, h, world.par)
    BY <1>1, <2>5, <2>7, <2>8, ChangedData
  <2>10. \A t \in Sent(h, moved.pair, "FIRSTACK") : SegmentData(t, world.par)
    BY PlainSegment
  <2> QED
    BY <2>1, <2>9, <2>10, OneHostData
<1>11. CASE s.kind # "SYNACK" /\ ~\E reason : Fail(reason, h)
  <2> DEFINE queue == toApp[h]
             gone == {s}
             armed == moved.timers
             none == {}
             old == moved.st
  <2>1. /\ old = tables[h].conns[p].st /\ tables[h].conns[p].fsm # "CLOSED"
        /\ none \subseteq {"FIN", "ACK"} /\ none = {}
    BY <1>2, <1>8
  <2>2. \/ Perform(h, p, "RCV_RST", none, <<"CONNECTION_RESET">>, armed, old, queue, gone, TRUE)
        \/ Perform(h, p, "IGNORE", none, <<>>, armed, old, queue, gone, TRUE)
    BY <1>11 DEF RcvInSynSent, pair
  <2> HIDE DEF old, queue, gone, armed, none
  <2>3. ASSUME NEW event, event \notin {"OPEN_ACTIVE", "RCV_SYN_ACK"}, NEW tells,
               Perform(h, p, event, none, tells, armed, old, queue, gone, TRUE)
        PROVE  DataInv'
    BY <2>1, <2>3, PerformData
  <2> QED
    BY <2>2, <2>3
<1> QED
  BY <1>9, <1>10, <1>11

\* processSegment1stThru8th answers with ACKs only.
LEMMA ElsewhereData ==
  ASSUME HostsInv, DataInv, NEW h \in Host, NEW s \in wire, NEW p \in DOMAIN tables[h].conns,
         RcvElsewhere(h, s, p)
  PROVE  DataInv'
<1> DEFINE conn == tables[h].conns[p]
           o == CASE s.kind = "FIN" -> FinOutcome(conn.fsm, conn.timers)
                  [] s.kind # "FIN" /\ conn.fsm = "ESTABLISHED" ->
                        Outcome("IGNORE", <<>>, <<>>, conn.timers)
                  [] OTHER -> OtherOutcome(conn.fsm, conn.timers)
           sends == {o.sends[i] : i \in 1 .. Len(o.sends)}
           event == o.event
           tells == o.tells
           armed == o.timers
           st == conn.st
           queue == toApp[h]
           gone == {s}
<1>1. /\ conn.fsm \notin {"SYN_SENT", "CLOSED"} /\ st = conn.st
      /\ Perform(h, p, event, sends, tells, armed, st, queue, gone, TRUE)
  BY DEF RcvElsewhere
<1>2. \/ o = FinOutcome(conn.fsm, conn.timers)
      \/ o = Outcome("IGNORE", <<>>, <<>>, conn.timers)
      \/ o = OtherOutcome(conn.fsm, conn.timers)
  OBVIOUS
<1> HIDE DEF o
<1>3. /\ event \notin {"OPEN_ACTIVE", "RCV_SYN_ACK"}
      /\ o.sends \in {<<>>, <<"ACK">>, <<"ACK", "ACK">>}
  BY <1>2 DEF FinOutcome, OtherOutcome, Outcome
<1>4. sends \subseteq {"FIN", "ACK"}
  <2>1. Len(<<"ACK">>) = 1 /\ Len(<<"ACK", "ACK">>) = 2
    OBVIOUS
  <2>2. CASE o.sends = <<>>
    BY <2>2
  <2>3. CASE o.sends = <<"ACK">>
    BY <2>1, <2>3
  <2>4. CASE o.sends = <<"ACK", "ACK">>
    BY <2>1, <2>4
  <2> QED
    BY <1>3, <2>2, <2>3, <2>4
<1> HIDE DEF event, tells, armed, st, queue, gone, sends
<1> QED
  BY <1>1, <1>3, <1>4, PerformData DEF conn

LEMMA TimerData ==
  ASSUME HostsInv, DataInv, NEW h \in Host, NEW p, TimerFires(h, p)
  PROVE  DataInv'
<1> DEFINE conn == tables[h].conns[p]
<1>1. p \in DOMAIN tables[h].conns
  BY DEF TimerFires
<1>2. PICK timer, event, tells :
         /\ timer \in conn.timers /\ event \notin {"OPEN_ACTIVE", "RCV_SYN_ACK"}
         /\ Perform(h, p, event, {}, tells, conn.timers \ {timer}, conn.st, toApp[h], {}, FALSE)
  BY DEF TimerFires
<1> DEFINE armed == conn.timers \ {timer}
           none == {}
           st == conn.st
           queue == toApp[h]
<1>3. /\ Perform(h, p, event, none, tells, armed, st, queue, none, FALSE)
      /\ none = {} /\ none \subseteq {"FIN", "ACK"} /\ st = conn.st
  BY <1>2
<1>4. conn.fsm # "CLOSED"
  <2>1. IsConnection(conn, nextId)
    BY <1>1 DEF HostsInv, HostOK, TablesOK
  <2>2. timer \in conn.timers
    BY <1>2
  <2> HIDE DEF conn
  <2> QED
    BY <2>1, <2>2 DEF IsConnection
<1> HIDE DEF armed, none, st, queue
<1> QED
  BY <1>1, <1>2, <1>3, <1>4, PerformData DEF conn

LEMMA LastSymbolData ==
  ASSUME HostsInv, DataInv, NEW h \in Host, NEW p, LastSymbol(h, p)
  PROVE  DataInv'
<1> DEFINE T == tables[h]
           conn == T.conns[p]
           changed == [conn EXCEPT !.done = TRUE]
           conns == [T.conns EXCEPT ![p] = changed]
           U == [T EXCEPT !.conns[p].done = TRUE]
<1>1. /\ p \in DOMAIN T.conns /\ world' = world /\ wire' = wire
      /\ tables' = [tables EXCEPT ![h].conns[p].done = TRUE]
  BY DEF LastSymbol
<1>2. "conns" \in DOMAIN T /\ DOMAIN conn = Fields /\ HostData(T, h, world.par)
  BY <1>1, ConnsOf DEF DataInv
<1>3. tables' = [tables EXCEPT ![h] = U]
  BY <1>1
<1>4. U.conns = conns
  BY <1>2
<1> HIDE DEF U
<1>5. changed.pair = conn.pair /\ changed.fsm = conn.fsm /\ changed.st = conn.st
  BY <1>2 DEF Fields
<1> HIDE DEF changed
<1>6. /\ DOMAIN conns = DOMAIN T.conns /\ conns[p] = changed
      /\ \A q \in DOMAIN T.conns \ {p} : conns[q] = T.conns[q]
  BY <1>1
<1> HIDE DEF conns
<1>7. ConnData(conn, h, world.par)
  BY <1>1, <1>2 DEF HostData
<1> HIDE DEF conn, T
<1>8. ConnData(changed, h, world.par)
  BY <1>5, <1>7 DEF ConnData
<1>9. HostData(U, h, world.par)
  BY <1>2, <1>4, <1>6, <1>8, ChangedData
<1> QED
  BY <1>1, <1>3, <1>9, OneHostData

LEMMA AnswerData ==
  ASSUME HostsInv, DataInv, NEW s, NEW kinds, "SYN" \notin kinds, "SYNACK" \notin kinds,
         Answer(s, kinds)
  PROVE  DataInv'
<1>1. /\ wire' = (wire \ {s}) \cup UNION {Reply(s, k) : k \in kinds}
      /\ UNCHANGED <<world, tables>>
  BY DEF Answer
<1>2. \A k \in kinds : \A t \in Reply(s, k) : SegmentData(t, world.par)
  BY PlainSegment
<1> QED
  BY <1>1, <1>2, NoHostData

\* Segments.
LEMMA SegmentsData ==
  ASSUME HostsInv, DataInv, NEW s \in wire,
         RcvSegment(s.dst, s) \/ RcvWhileDown(s) \/ LoseSegment(s)
  PROVE  DataInv'
<1> DEFINE h == s.dst
<1>1. h \in Host
  BY DEF HostsInv
<1>2. CASE \E kinds \in {{}, {"RST"}, {"RSTACK"}} : Answer(s, kinds)
  BY <1>2, AnswerData
<1>3. ASSUME NEW p \in DOMAIN tables[h].conns, RcvInListen(h, s, p), ~Answer(s, {"RST"})
      PROVE  DataInv'
  <2>1. /\ s.kind = "SYN" /\ tables[h].conns[p].fsm = "LISTEN" /\ Accept(h, s, p)
        /\ p = FindConnForSegment(tables[h], s.src, h, s.srcPort, s.destPort)
    BY <1>3 DEF RcvInListen, Arrives
  <2> QED
    BY <1>1, <2>1, AcceptData
<1>4. ASSUME NEW p \in DOMAIN tables[h].conns, RcvInSynSent(h, s, p)
      PROVE  DataInv'
  BY <1>1, <1>4, SynSentData
<1>5. ASSUME NEW p \in DOMAIN tables[h].conns, RcvWhileClosed(h, s, p)
      PROVE  DataInv'
  BY <1>5, NoHostData DEF RcvWhileClosed, Fail
<1>6. ASSUME NEW p \in DOMAIN tables[h].conns, RcvElsewhere(h, s, p)
      PROVE  DataInv'
  BY <1>1, <1>6, ElsewhereData
<1>7. CASE RcvUnknown(h, s)
  <2>1. \E kinds \in {{}, {"RST"}, {"RSTACK"}} : Answer(s, kinds)
    BY <1>7 DEF RcvUnknown
  <2> QED
    BY <1>2, <2>1
<1> QED
  BY <1>2, <1>3, <1>4, <1>5, <1>6, <1>7 DEF RcvSegment, RcvWhileDown, LoseSegment

LEMMA AppsData ==
  ASSUME HostsInv, DataInv, NEW a \in DOMAIN world.apps,
         ClientConnects(a) \/ StopTimePasses(a) \/ AppStep(a[1], a)
  PROVE  DataInv'
<1> DEFINE h == a[1]
           app == world.apps[a]
<1>1. h \in Host /\ (AppKind(a) = "client" => app.peer \in Host)
  BY AppAt DEF HostsInv
<1>2. CASE ClientConnects(a)
  <2>1. AppKind(a) = "client" /\ OpenActive(h, a[2], nextId, app)
    BY <1>2 DEF ClientConnects
  <2> HIDE DEF app, h
  <2> QED
    BY <1>1, <2>1, OpenData
<1>3. CASE StopTimePasses(a)
  BY <1>3, NoHostData DEF StopTimePasses
<1>4. CASE AppStep(h, a)
  <2>1. \/ \E reason : Fail(reason, h)
        \/ LET i == Head(toApp[h]) IN Close(h, i.gate, i.connId, Tail(toApp[h]))
        \/ Consume(h)
    BY <1>4 DEF AppStep, ClientReceives, SinkReceives, EchoReceives, ThreadReceives, Receives
  <2>2. CASE \E reason : Fail(reason, h)
    BY <2>2, NoHostData DEF Fail
  <2>3. CASE LET i == Head(toApp[h]) IN Close(h, i.gate, i.connId, Tail(toApp[h]))
    <3> DEFINE gate == Head(toApp[h]).gate
               id == Head(toApp[h]).connId
               rest == Tail(toApp[h])
    <3>1. Close(h, gate, id, rest)
      BY <2>3
    <3> HIDE DEF gate, id, rest, h
    <3> QED
      BY <1>1, <3>1, CloseData
  <2>4. CASE Consume(h)
    BY <2>4, NoHostData DEF Consume
  <2> QED
    BY <2>1, <2>2, <2>3, <2>4
<1> QED
  BY <1>2, <1>3, <1>4

----------------------------------------------------------------------------
(* The simulation starts, and hosts go down and up. *)

LEMMA EmptyData ==
  ASSUME NEW h, NEW par
  PROVE  HostData(Empty, h, par)
<1>1. DOMAIN Empty.conns = {}
  BY EmptyTables
<1> QED
  BY <1>1 DEF HostData

LEMMA ListenData ==
  ASSUME world \in Scenarios, NEW a \in DOMAIN world.apps, Listener(a), NEW id,
         NEW h, h = a[1]
  PROVE  HostData(Listen(Empty, a, id), h, world.par)
<1> DEFINE p == FreshPointer(Empty)
           port == world.apps[a].port
           pair == Listening(NoHost, port)
           par == world.par[h]
           st == Configure(Unconfigured, par)
           conn == Connection(a[2], id, Closed, "LISTEN", {}, st)
           U == Listen(Empty, a, id)
           new == WithPair(conn, pair)
<1>1. h \in Host /\ port \notin Ephemeral
  <2>1. AppKind(a) # "client" /\ a[1] \in Host
    BY AppAt DEF Listener
  <2> QED
    BY <2>1, ScenariosAssumption DEF AppKind
<1>2. st \in StateBlock /\ FreshState(st)
  <2>1. par \in Parameters
    BY <1>1, SoundHosts DEF Sound
  <2>2. /\ st \in StateBlock
        /\ st.snd_ws = Unconfigured.snd_ws /\ st.rcv_ws = Unconfigured.rcv_ws
        /\ st.ws_enabled = Unconfigured.ws_enabled
        /\ st.snd_initial_ts = Unconfigured.snd_initial_ts
        /\ st.rcv_initial_ts = Unconfigured.rcv_initial_ts
        /\ st.ts_enabled = Unconfigured.ts_enabled
    <3> HIDE DEF par
    <3> QED
      BY <2>1, UnconfiguredBlock, Configured
  <2> HIDE DEF st
  <2> QED
    BY <2>2 DEF FreshState, Unconfigured
<1>3. U = AddSockPair(CreateConnection(Empty, p, conn), p, pair)
  BY DEF Listen
<1> HIDE DEF st, p, port
<1>4. new.pair = pair /\ new.fsm = "LISTEN" /\ new.st = st
  BY DEF Connection, WithPair
<1>5. /\ pair.localPort = port /\ pair.remoteAddr = NoHost /\ pair.localAddr = NoHost
  BY DEF Listening, SockPair
<1>6. "conns" \in DOMAIN Empty
  BY DEF Empty
<1> HIDE DEF U, conn, pair
<1>7. DOMAIN U.conns = DOMAIN Empty.conns \cup {p} /\ U.conns[p] = WithPair(conn, pair)
  BY <1>3, <1>6, AddedConns
<1>8. pair = Listening(pair.localAddr, pair.localPort)
  BY <1>5 DEF pair
<1> HIDE DEF new
<1>9. ConnData(new, h, world.par)
  BY <1>1, <1>2, <1>4, <1>5, <1>8 DEF ConnData
<1>10. DOMAIN Empty.conns = {}
  BY EmptyTables
<1> QED
  BY <1>7, <1>9, <1>10 DEF HostData, U, new

LEMMA InitData ==
  ASSUME Init
  PROVE  DataInv
<1>1. world \in Scenarios /\ wire = {}
  BY DEF Init
<1>2. ASSUME NEW h \in Host
      PROVE  HostData(tables[h], h, world.par)
  <2> DEFINE listeners == {a \in AppsOf(h) : Listener(a)}
             it == CHOOSE a \in listeners : TRUE
  <2>1. tables[h] = IF listeners = {} THEN Empty ELSE Listen(Empty, it, world.apps[it].id)
    BY <1>2 DEF Init
  <2>2. CASE listeners = {}
    BY <2>1, <2>2, EmptyData
  <2>3. CASE listeners # {}
    <3>1. it \in listeners
      BY <2>3
    <3>2. it \in DOMAIN world.apps /\ Listener(it) /\ it[1] = h
      BY <3>1 DEF AppsOf
    <3> HIDE DEF it
    <3> QED
      BY <1>1, <2>1, <2>3, <3>2, ListenData
  <2> QED
    BY <2>2, <2>3
<1> QED
  BY <1>1, <1>2 DEF DataInv

LEMMA LifecycleData ==
  ASSUME HostsInv, DataInv, NEW h \in Host, Crash(h) \/ Shutdown(h) \/ Start(h)
  PROVE  DataInv'
<1>1. world' = world /\ wire' = wire
  BY DEF Crash, Shutdown, Start, Operates, GoesDown, RefuseOperation
<1>2. CASE tables' = tables
  BY <1>1, <1>2, NoHostData
<1>3. CASE tables' = [tables EXCEPT ![h] = Empty]
  BY <1>1, <1>3, EmptyData, OneHostData
<1>4. CASE Start(h) /\ tables' # tables
  <2> DEFINE listeners == AppsOf(h) \ ClientsOf(h)
             it == CHOOSE a \in listeners : TRUE
             U == Listen(Empty, it, nextId)
  <2>1. tables[h] = Empty /\ tables' = [tables EXCEPT ![h] = tables'[h]]
        /\ tables'[h] = IF listeners = {} THEN Empty ELSE Listen(Empty, it, nextId)
    <3>1. tables[h] = Empty /\ DOMAIN tables = Host
      BY <1>4 DEF Start, HostsInv, HostOK
    <3>2. tables' = [tables EXCEPT ![h] = IF listeners = {} THEN @ ELSE Listen(@, it, nextId)]
      BY <1>4 DEF Start, RefuseOperation
    <3> HIDE DEF listeners, it
    <3> QED
      BY <3>1, <3>2
  <2>2. CASE listeners = {}
    BY <1>3, <2>1, <2>2
  <2>3. CASE listeners # {}
    <3>1. it \in listeners
      BY <2>3
    <3>2. world \in Scenarios
      BY DEF HostsInv
    <3>3. it \in DOMAIN world.apps /\ Listener(it) /\ it[1] = h
      BY <3>1, <3>2, AppAt DEF AppsOf, ClientsOf
    <3> HIDE DEF it, listeners
    <3>4. HostData(U, h, world.par)
      BY <3>2, <3>3, ListenData
    <3>5. tables' = [tables EXCEPT ![h] = U]
      BY <2>1, <2>3
    <3> HIDE DEF U
    <3> QED
      BY <1>1, <3>4, <3>5, OneHostData
  <2> QED
    BY <2>2, <2>3
<1> QED
  BY <1>2, <1>3, <1>4 DEF Crash, Shutdown, GoesDown, RefuseOperation

LEMMA NextData ==
  ASSUME HostsInv, DataInv, [Next]_vars
  PROVE  DataInv'
<1>1. ASSUME NEW a \in DOMAIN world.apps,
             ClientConnects(a) \/ StopTimePasses(a) \/ AppStep(a[1], a)
      PROVE  DataInv'
  BY <1>1, AppsData
<1>2. ASSUME NEW s \in wire, RcvSegment(s.dst, s) \/ RcvWhileDown(s) \/ LoseSegment(s)
      PROVE  DataInv'
  BY <1>2, SegmentsData
<1>3. ASSUME NEW h \in Host, Crash(h) \/ Shutdown(h) \/ Start(h)
      PROVE  DataInv'
  BY <1>3, LifecycleData
<1>4. ASSUME NEW h \in Host, NEW p \in Pointer, LastSymbol(h, p) \/ TimerFires(h, p)
      PROVE  DataInv'
  BY <1>4, LastSymbolData, TimerData
<1>5. CASE UNCHANGED vars
  BY <1>5, NoHostData DEF vars
<1> QED
  BY <1>1, <1>2, <1>3, <1>4, <1>5 DEF Next

LEMMA DataHolds == Spec => []DataInv
<1>1. Init => DataInv
  BY InitData
<1>2. HostsInv /\ DataInv /\ [Next]_vars => DataInv'
  BY NextData
<1> QED
  BY <1>1, <1>2, HostsHold, PTL DEF Spec

----------------------------------------------------------------------------
(* What the two ends agree on. *)

LEMMA EndsHold ==
  ASSUME HostsInv, DataInv, NEW c \in Host, NEW s \in Host,
         NEW p \in DOMAIN tables[c].conns, NEW q \in DOMAIN tables[s].conns, Ends(c, p, s, q)
  PROVE  /\ Sound(world.par[c]) /\ Sound(world.par[s])
         /\ tables[c].conns[p].st \in StateBlock /\ tables[s].conns[q].st \in StateBlock
         /\ ClientState(tables[c].conns[p].st, world.par[c], world.par[s])
         /\ ServerState(tables[s].conns[q].st, world.par[s], world.par[c])
<1> DEFINE client == tables[c].conns[p]
           server == tables[s].conns[q]
<1>1. Sound(world.par[c]) /\ Sound(world.par[s])
  <2>1. world \in Scenarios
    BY DEF HostsInv
  <2> QED
    BY <2>1, SoundHosts
<1>2. ConnData(client, c, world.par) /\ ConnData(server, s, world.par)
  BY DEF DataInv, HostData
<1>3. /\ client.fsm = "ESTABLISHED"
      /\ client.pair.localPort \in Ephemeral
      /\ client.pair = SockPair(c, s, server.pair.remotePort, server.pair.localPort)
      /\ server.pair = SockPair(s, c, client.pair.remotePort, client.pair.localPort)
  BY DEF Ends
<1> HIDE DEF client, server
<1>4. /\ client.pair.remoteAddr = s /\ client.pair.remotePort = server.pair.localPort
      /\ server.pair.remoteAddr = c
  BY <1>3 DEF SockPair
<1>5. client.fsm \notin {"SYN_SENT", "CLOSED"}
  BY <1>3
<1>6. /\ client.st \in StateBlock
      /\ ClientState(client.st, world.par[c], world.par[s])
      /\ client.pair.remotePort \notin Ephemeral
  BY <1>2, <1>3, <1>4, <1>5 DEF ConnData
<1>7. c # NoHost
  BY AddressAssumption
<1>8. server.st \in StateBlock /\ ServerState(server.st, world.par[s], world.par[c])
  BY <1>2, <1>4, <1>6, <1>7 DEF ConnData
<1> QED
  BY <1>1, <1>6, <1>8 DEF client, server

\* What both ends negotiate is the same seen from either.
LEMMA NegotiatedAlike ==
  ASSUME NEW par, NEW peer, Sound(par), Sound(peer), NEW st \in StateBlock,
         NEW other \in StateBlock, Negotiated(st, par, peer), Negotiated(other, peer, par)
  PROVE  /\ st.ws_enabled = (par.windowScalingSupport /\ peer.windowScalingSupport)
         /\ other.ws_enabled = st.ws_enabled
         /\ st.ts_enabled = (par.timestampSupport /\ peer.timestampSupport)
         /\ other.ts_enabled = st.ts_enabled
         /\ st.snd_mss = other.snd_mss
         /\ st.snd_mss \in {par.mss, peer.mss}
         /\ st.snd_mss <= par.mss /\ st.snd_mss <= peer.mss
         /\ st.ws_enabled /\ st.rcv_wnd_scale <= 14 => other.snd_wnd_scale = st.rcv_wnd_scale
<1>1. /\ par.mss \in Nat /\ peer.mss \in Nat
      /\ par.windowScalingSupport \in BOOLEAN /\ peer.windowScalingSupport \in BOOLEAN
      /\ par.timestampSupport \in BOOLEAN /\ peer.timestampSupport \in BOOLEAN
  BY DEF Sound, Parameters
<1>2. BothScale(par, peer) = BothScale(peer, par) /\ BothStamp(par, peer) = BothStamp(peer, par)
  BY <1>1 DEF BothScale, BothStamp
<1>3. Least(par.mss, peer.mss) = Least(peer.mss, par.mss)
      /\ Least(par.mss, peer.mss) \in {par.mss, peer.mss}
      /\ Least(par.mss, peer.mss) <= par.mss /\ Least(par.mss, peer.mss) <= peer.mss
  BY <1>1 DEF Least
<1>4. st.ws_enabled = BothScale(par, peer) /\ other.ws_enabled = BothScale(par, peer)
  BY <1>2 DEF Negotiated
<1>5. st.ts_enabled = BothStamp(par, peer) /\ other.ts_enabled = BothStamp(par, peer)
  BY <1>2 DEF Negotiated
<1>6. /\ st.snd_mss = other.snd_mss /\ st.snd_mss \in {par.mss, peer.mss}
      /\ st.snd_mss <= par.mss /\ st.snd_mss <= peer.mss
  BY <1>3 DEF Negotiated
<1>7. ASSUME st.ws_enabled, st.rcv_wnd_scale <= 14
      PROVE  other.snd_wnd_scale = st.rcv_wnd_scale
  <2>1. st.rcv_wnd_scale = ScaleOf(par)
    BY <1>4, <1>7 DEF Negotiated
  <2>2. other.snd_wnd_scale = Least(ScaleOf(par), 14)
    BY <1>2, <1>4, <1>7 DEF Negotiated
  <2>3. st.rcv_wnd_scale \in Nat
    BY DEF StateBlock
  <2> QED
    BY <1>7, <2>1, <2>2, <2>3 DEF Least
<1> QED
  BY <1>4, <1>5, <1>6, <1>7 DEF BothScale, BothStamp

LEMMA EndsAgree ==
  ASSUME HostsInv, DataInv
  PROVE  OptionsAgree
<1> SUFFICES ASSUME NEW c \in Host, NEW s \in Host, NEW p \in DOMAIN tables[c].conns,
                    NEW q \in DOMAIN tables[s].conns, Ends(c, p, s, q)
             PROVE  LET client == tables[c].conns[p].st
                        server == tables[s].conns[q].st
                        both(support) == world.par[c][support] /\ world.par[s][support]
                    IN  /\ client.ws_enabled = both("windowScalingSupport")
                        /\ server.ws_enabled = client.ws_enabled
                        /\ client.ts_enabled = both("timestampSupport")
                        /\ server.ts_enabled = client.ts_enabled
                        /\ client.snd_mss = server.snd_mss
                        /\ client.snd_mss \in {world.par[c].mss, world.par[s].mss}
                        /\ \A h \in {c, s} : client.snd_mss <= world.par[h].mss
                        /\ client.ws_enabled /\ client.rcv_wnd_scale <= 14
                               => server.snd_wnd_scale = client.rcv_wnd_scale
                        /\ server.ws_enabled /\ server.rcv_wnd_scale <= 14
                               => client.snd_wnd_scale = server.rcv_wnd_scale
  BY DEF OptionsAgree, ForAllEnds
<1> DEFINE client == tables[c].conns[p].st
           server == tables[s].conns[q].st
           par == world.par[c]
           peer == world.par[s]
<1>1. /\ Sound(par) /\ Sound(peer) /\ client \in StateBlock /\ server \in StateBlock
      /\ ClientState(client, par, peer) /\ ServerState(server, peer, par)
  BY EndsHold
<1> HIDE DEF client, server, par, peer
<1>2. Negotiated(client, par, peer) /\ Negotiated(server, peer, par)
  BY <1>1 DEF ClientState, ServerState
<1>3. /\ client.ws_enabled = (par.windowScalingSupport /\ peer.windowScalingSupport)
      /\ server.ws_enabled = client.ws_enabled
      /\ client.ts_enabled = (par.timestampSupport /\ peer.timestampSupport)
      /\ server.ts_enabled = client.ts_enabled
      /\ client.snd_mss = server.snd_mss
      /\ client.snd_mss \in {par.mss, peer.mss}
      /\ client.snd_mss <= par.mss /\ client.snd_mss <= peer.mss
      /\ client.ws_enabled /\ client.rcv_wnd_scale <= 14
             => server.snd_wnd_scale = client.rcv_wnd_scale
  BY <1>1, <1>2, NegotiatedAlike
<1>4. server.ws_enabled /\ server.rcv_wnd_scale <= 14
          => client.snd_wnd_scale = server.rcv_wnd_scale
  BY <1>1, <1>2, NegotiatedAlike
<1>5. \A h \in {c, s} : client.snd_mss <= world.par[h].mss
  BY <1>3 DEF par, peer
<1> QED
  BY <1>3, <1>4, <1>5 DEF client, server, par, peer

LEMMA EndsHonest ==
  ASSUME HostsInv, DataInv
  PROVE  WindowHonest
<1> SUFFICES ASSUME NEW c \in Host, NEW s \in Host, NEW p \in DOMAIN tables[c].conns,
                    NEW q \in DOMAIN tables[s].conns, Ends(c, p, s, q)
             PROVE  LET client == tables[c].conns[p].st
                        server == tables[s].conns[q].st
                    IN  /\ server.snd_wnd \in 1 .. client.maxRcvBuffer
                        /\ client.snd_wnd \in 0 .. server.maxRcvBuffer
                        /\ client.snd_wnd = 0
                              => server.ws_enabled /\ server.maxRcvBuffer > RQ_MAX_WIN
  BY DEF WindowHonest, ForAllEnds
<1> DEFINE client == tables[c].conns[p].st
           server == tables[s].conns[q].st
           par == world.par[c]
           peer == world.par[s]
<1>1. /\ Sound(par) /\ Sound(peer) /\ client \in StateBlock /\ server \in StateBlock
      /\ ClientState(client, par, peer) /\ ServerState(server, peer, par)
  BY EndsHold
<1> HIDE DEF client, server, par, peer
<1>2. /\ client.maxRcvBuffer = par.advertisedWindow
      /\ server.maxRcvBuffer = peer.advertisedWindow
      /\ server.ws_enabled = BothScale(peer, par)
  BY <1>1 DEF ClientState, ServerState, Negotiated, HasParameters
<1>3. RQ_MAX_WIN \in Nat /\ par.advertisedWindow \in Nat /\ peer.advertisedWindow \in Nat
  BY <1>1 DEF RQ_MAX_WIN, Sound, Parameters
<1>4. server.snd_wnd \in 1 .. client.maxRcvBuffer
  <2>1. server.snd_wnd = SynWindow(SynState(par))
    BY <1>1 DEF ServerState
  <2>2. /\ SynWindow(SynState(par)) \in 1 .. RQ_MAX_WIN
        /\ SynWindow(SynState(par)) <= par.advertisedWindow
    BY <1>1, SynSays
  <2> HIDE DEF par
  <2> QED
    BY <1>2, <1>3, <2>1, <2>2
<1>5. AnnouncedTo(client.snd_wnd, peer, par)
  BY <1>1 DEF ClientState
<1>6. client.snd_wnd \in Nat
  BY <1>5, <1>3 DEF AnnouncedTo, Window
<1>7. client.snd_wnd \in 0 .. server.maxRcvBuffer
  BY <1>2, <1>3, <1>5, <1>6 DEF AnnouncedTo
<1>8. client.snd_wnd = 0 => server.ws_enabled /\ server.maxRcvBuffer > RQ_MAX_WIN
  BY <1>2, <1>5 DEF AnnouncedTo
<1> QED
  BY <1>4, <1>7, <1>8 DEF client, server

\* Window scaling, timestamps and the segment size are agreed by both ends of every
\* established call, and each end scales by what the other has announced, whatever was
\* lost, reset or called again before.
THEOREM OptionsHold == Spec => []OptionsAgree
<1>1. HostsInv /\ DataInv => OptionsAgree
  BY EndsAgree
<1> QED
  BY <1>1, HostsHold, DataHolds, PTL

\* No end of an established call is told a window the other cannot buffer; a server is
\* never told a window of 0, and a client only by a server that scales its windows.
THEOREM WindowsHold == Spec => []WindowHonest
<1>1. HostsInv /\ DataInv => WindowHonest
  BY EndsHonest
<1> QED
  BY <1>1, HostsHold, DataHolds, PTL

----------------------------------------------------------------------------
(* The applications' sockets. *)

SocketsOf(client, most) ==
    IF client
    THEN [state : SocketStates, connId : 1 .. most, timer : ClientTimers, over : BOOLEAN]
    ELSE [state : SocketStates, connId : 1 .. most]

ThreadSockets(id) == [state : SocketStates, connId : {id}]

\* What applications hold, and how far the counters go.
TypesInv ==
    /\ nextId <= world.maxId + 1
    /\ operations \in 0 .. world.maxOperations
    /\ \A a \in DOMAIN world.apps : sockets[a] \in SocketsOf(AppKind(a) = "client", world.maxId)
    /\ threads = [h \in Host |-> threads[h]]
    /\ \A h \in Host : \A id \in DOMAIN threads[h] :
          id \in 1 .. nextId - 1 /\ threads[h][id] \in ThreadSockets(id)

LEMMA SocketsMade ==
  ASSUME NEW most \in Nat, NEW id \in 1 .. most
  PROVE  /\ ListeningSocket(id) \in SocketsOf(FALSE, most)
         /\ InitialClient(id) \in SocketsOf(TRUE, most) /\ InitialClient(id).timer = "CONNECT"
         /\ SocketFor(id) \in ThreadSockets(id)
  BY DEF ListeningSocket, ListenOn, BindSocket, RenewSocket, InitialClient, Client, SocketFor,
         SocketsOf, ThreadSockets, SocketStates, ClientTimers

\* What a client's socket becomes of its connection's indications.
LEMMA ClientTold ==
  ASSUME NEW most \in Nat, NEW c \in SocketsOf(TRUE, most), NEW kind \in Kinds
  PROVE  LET new == ClientAfter(c, kind)
         IN  /\ new \in SocketsOf(TRUE, most)
             /\ new.connId = c.connId /\ new.over = c.over
             /\ new.timer = "CONNECT" => c.timer = "CONNECT" \/ kind \in Failures
             /\ new.timer = "NONE" => c.timer = "NONE" \/ c.over
<1> DEFINE told == Told(c, kind)
<1>1. told \in SocketsOf(TRUE, most) /\ told.connId = c.connId /\ told.over = c.over
      /\ told.timer = c.timer
  BY DEF Told, SocketsOf, Kinds, SocketStates, Failures
<1> HIDE DEF told
<1>2. CASE ClosesToo(told)
  <2>1. ClientAfter(c, kind) = CloseSocket(told)
    BY <1>2 DEF ClientAfter, told
  <2> QED
    BY <1>1, <2>1 DEF CloseSocket, SocketsOf, SocketStates
<1>3. CASE ~ClosesToo(told) /\ kind \in Failures /\ told.timer # "NONE"
  <2>1. ClientAfter(c, kind) = RescheduleOrDelete(told)
    BY <1>3 DEF ClientAfter, told
  <2> QED
    BY <1>1, <1>3, <2>1 DEF RescheduleOrDelete, SocketsOf, ClientTimers
<1>4. CASE ~ClosesToo(told) /\ ~(kind \in Failures /\ told.timer # "NONE")
  <2>1. ClientAfter(c, kind) = told
    BY <1>4 DEF ClientAfter, told
  <2> QED
    BY <1>1, <2>1
<1> QED
  BY <1>2, <1>3, <1>4

\* A client that has called and hears of a failure only sets its timer then, with a socket
\* in SOCKERROR; one that has set it hears of the end of its connection at most.
LEMMA CallsAfterFailure ==
  ASSUME NEW most \in Nat, NEW c \in SocketsOf(TRUE, most), NEW kind \in Kinds,
         c.timer = "CONNECT" => kind = "CLOSED", ClientAfter(c, kind).timer = "CONNECT"
  PROVE  ClientAfter(c, kind).state \in {"SOCKERROR", "CLOSED"}
<1> DEFINE told == Told(c, kind)
<1>1. /\ "state" \in DOMAIN told /\ told.timer = c.timer
      /\ kind = "CLOSED" => told.state = "CLOSED"
      /\ kind \in Failures => told.state = "SOCKERROR"
  BY DEF Told, SocketsOf, Failures
<1>2. CASE kind = "CLOSED"
  <2>1. ~ClosesToo(told) /\ kind \notin Failures
    BY <1>1, <1>2 DEF ClosesToo, Failures
  <2>2. ClientAfter(c, kind) = told
    BY <2>1 DEF ClientAfter
  <2> QED
    BY <1>1, <1>2, <2>2
<1>3. CASE kind # "CLOSED"
  <2>1. kind \in Failures
    BY <1>3, ClientTold
  <2>2. ~ClosesToo(told) /\ told.state = "SOCKERROR"
    BY <1>1, <2>1 DEF ClosesToo
  <2>3. ClientAfter(c, kind) \in {told, RescheduleOrDelete(told)}
    BY <2>2 DEF ClientAfter
  <2>4. RescheduleOrDelete(told).state = told.state
    BY <1>1 DEF RescheduleOrDelete
  <2> HIDE DEF told
  <2> QED
    BY <2>2, <2>3, <2>4
<1> QED
  BY <1>2, <1>3

\* A client's socket, whose timer is cancelled.
Stopped(new, c, most) ==
    /\ new \in SocketsOf(TRUE, most)
    /\ new.connId = c.connId /\ new.over = c.over /\ new.timer = "IDLE"

\* A client's socket elsewhere.
LEMMA ClientMoves ==
  ASSUME NEW most \in Nat, NEW id \in 1 .. most, NEW c \in SocketsOf(TRUE, most)
  PROVE  /\ LET new == ClientConnecting(c, id)
            IN  /\ new \in SocketsOf(TRUE, most)
                /\ new.connId = id /\ new.timer = "IDLE" /\ new.over = c.over
         /\ LET new == [c EXCEPT !.over = TRUE]
            IN  /\ new \in SocketsOf(TRUE, most) /\ new.over
                /\ new.connId = c.connId /\ new.timer = c.timer
         /\ LET new == ClientStarted(c)
            IN  /\ new \in SocketsOf(TRUE, most)
                /\ new.connId = c.connId /\ new.over = c.over
                /\ new.timer = "NONE" => c.timer = "NONE"
         /\ Stopped(ClientStopped(c), c, most) /\ Stopped(ClientShutDown(c), c, most)
<1>1. c = Client(c, c.timer, c.over)
  BY DEF SocketsOf, Client
<1>2. LET new == ClientConnecting(c, id)
      IN  /\ new \in SocketsOf(TRUE, most)
          /\ new.connId = id /\ new.timer = "IDLE" /\ new.over = c.over
  BY DEF ClientConnecting, ConnectSocket, RenewSocket, Client, SocketsOf, SocketStates, ClientTimers
<1>3. LET new == [c EXCEPT !.over = TRUE]
      IN  /\ new \in SocketsOf(TRUE, most) /\ new.over
          /\ new.connId = c.connId /\ new.timer = c.timer
  BY DEF SocketsOf
<1>4. LET new == ClientStarted(c)
      IN  /\ new \in SocketsOf(TRUE, most)
          /\ new.connId = c.connId /\ new.over = c.over
          /\ new.timer = "NONE" => c.timer = "NONE"
  BY DEF ClientStarted, SocketsOf, ClientTimers
<1> DEFINE stopped == ClientStopped(c)
<1>5. /\ stopped \in SocketsOf(TRUE, most)
      /\ stopped.connId = c.connId /\ stopped.over = c.over /\ stopped.timer = "IDLE"
  BY DEF ClientStopped, SocketsOf, ClientTimers
<1>6. ClientShutDown(c) \in {stopped, CloseSocket(stopped)}
  BY DEF ClientShutDown
<1> HIDE DEF stopped
<1>7. LET new == CloseSocket(stopped)
      IN  /\ new \in SocketsOf(TRUE, most)
          /\ new.connId = c.connId /\ new.over = c.over /\ new.timer = "IDLE"
  BY <1>5 DEF CloseSocket, SocketsOf, SocketStates
<1>8. Stopped(ClientStopped(c), c, most) /\ Stopped(ClientShutDown(c), c, most)
  BY <1>5, <1>6, <1>7 DEF Stopped, stopped
<1> QED
  BY <1>2, <1>3, <1>4, <1>8

\* What the threads' map becomes: one more thread, one changed or one gone.
LEMMA ThreadsBecome ==
  ASSUME NEW map, NEW id, NEW kind \in Kinds,
         \A i \in DOMAIN map : map[i] \in ThreadSockets(i)
  PROVE  LET new == ThreadsAfter(map, id, kind)
         IN  /\ DOMAIN new = IF kind \in Ended THEN DOMAIN map \ {id} ELSE DOMAIN map \cup {id}
             /\ \A i \in DOMAIN new : new[i] \in ThreadSockets(i)
<1> DEFINE all == MapFor(map, id)
           told == Told(all[id], kind)
           left == IF ClosesToo(told) THEN CloseSocket(told) ELSE told
<1>1. SocketFor(id) \in ThreadSockets(id) /\ SocketFor(id).connId = id
  BY DEF SocketFor, ThreadSockets, SocketStates
<1>2. /\ DOMAIN all = DOMAIN map \cup {id}
      /\ \A i \in DOMAIN all : all[i] \in ThreadSockets(i)
  <2>1. CASE id \in DOMAIN map
    BY <2>1 DEF MapFor, HasSocketFor
  <2>2. CASE id \notin DOMAIN map
    BY <1>1, <2>2 DEF MapFor, HasSocketFor, AddSocket
  <2> QED
    BY <2>1, <2>2
<1>3. ThreadsAfter(map, id, kind) = IF kind \in Ended THEN RemoveSocket(all, id)
                                    ELSE AddSocket(all, left)
  BY DEF ThreadsAfter
<1> HIDE DEF all
<1>4. told \in ThreadSockets(id)
  BY <1>2 DEF Told, ThreadSockets, Kinds, SocketStates, Failures
<1> HIDE DEF told
<1>5. left \in ThreadSockets(id) /\ left.connId = id
  BY <1>4 DEF CloseSocket, ThreadSockets, SocketStates
<1> HIDE DEF left
<1>6. CASE kind \in Ended
  BY <1>2, <1>3, <1>6 DEF RemoveSocket, Restrict
<1>7. CASE kind \notin Ended
  BY <1>2, <1>3, <1>5, <1>7 DEF AddSocket
<1> QED
  BY <1>6, <1>7

\* What handlers leave alone.
LEMMA HandlersLeave ==
  /\ \A h, p, event, sends, tells, armed, st, queue, gone, removes :
        Perform(h, p, event, sends, tells, armed, st, queue, gone, removes) =>
           UNCHANGED <<world, up, nextId, operations>>
  /\ \A h, gate, connId, queue :
        Close(h, gate, connId, queue) => UNCHANGED <<world, up, nextId, operations>>
<1>1. ASSUME NEW h, NEW p, NEW event, NEW sends, NEW tells, NEW armed, NEW st, NEW queue,
             NEW gone, NEW removes,
             Perform(h, p, event, sends, tells, armed, st, queue, gone, removes)
      PROVE  UNCHANGED <<world, up, nextId, operations>>
  BY <1>1 DEF Perform, Fail
<1>2. ASSUME NEW h, NEW gate, NEW connId, NEW queue, Close(h, gate, connId, queue)
      PROVE  UNCHANGED <<world, up, nextId, operations>>
  BY <1>1, <1>2 DEF Close, Fail
<1> QED
  BY <1>1, <1>2

\* An application's step moves no counter, and its own socket or threads alone.
LEMMA AppLeaves ==
  ASSUME NEW h, NEW a, AppStep(h, a)
  PROVE  /\ Receives(h, a, {"client", "sink", "echo", "threads"})
         /\ UNCHANGED <<world, up, nextId, operations>>
         /\ sockets' = sockets \/ /\ AppKind(a) = "client"
                                  /\ sockets' = [sockets EXCEPT ![a] =
                                                    ClientAfter(@, Head(toApp[h]).kind)]
         /\ \/ AppKind(a) # "threads" /\ threads' = threads
            \/ /\ AppKind(a) = "threads"
               /\ threads' = [threads EXCEPT ![h] =
                                 ThreadsAfter(@, Head(toApp[h]).connId, Head(toApp[h]).kind)]
<1>1. Receives(h, a, {"client", "sink", "echo", "threads"})
  BY DEF AppStep, ClientReceives, SinkReceives, EchoReceives, ThreadReceives, Receives
<1>2. UNCHANGED <<world, up, nextId, operations>>
  BY HandlersLeave DEF AppStep, ClientReceives, SinkReceives, EchoReceives, ThreadReceives,
     Consume, Fail
<1>3. sockets' = sockets \/ /\ AppKind(a) = "client"
                            /\ sockets' = [sockets EXCEPT ![a] =
                                              ClientAfter(@, Head(toApp[h]).kind)]
  BY DEF AppStep, ClientReceives, SinkReceives, EchoReceives, ThreadReceives, Receives, appVars
<1>4. \/ AppKind(a) # "threads" /\ threads' = threads
      \/ /\ AppKind(a) = "threads"
         /\ threads' = [threads EXCEPT ![h] =
                           ThreadsAfter(@, Head(toApp[h]).connId, Head(toApp[h]).kind)]
  BY DEF AppStep, ClientReceives, SinkReceives, EchoReceives, ThreadReceives, Receives, appVars
<1> QED
  BY <1>1, <1>2, <1>3, <1>4

\* A segment moves no application, and a call takes one id.
LEMMA SegmentLeaves ==
  ASSUME NEW s, RcvSegment(s.dst, s) \/ RcvWhileDown(s) \/ LoseSegment(s)
  PROVE  /\ UNCHANGED <<world, up, sockets, threads, operations>>
         /\ nextId' = nextId \/ (nextId <= world.maxId /\ nextId' = nextId + 1)
<1>1. ASSUME NEW kinds, Answer(s, kinds)
      PROVE  UNCHANGED <<world, up, sockets, threads, operations, nextId>>
  BY <1>1 DEF Answer
<1>2. ASSUME NEW p, RcvInListen(s.dst, s, p)
      PROVE  /\ UNCHANGED <<world, up, sockets, threads, operations>>
             /\ nextId' = nextId \/ (nextId <= world.maxId /\ nextId' = nextId + 1)
  <2>1. ASSUME Accept(s.dst, s, p)
        PROVE  /\ UNCHANGED <<world, up, operations>>
               /\ nextId' = nextId \/ (nextId <= world.maxId /\ nextId' = nextId + 1)
    <3>1. CASE \E reason : Fail(reason, s.dst)
      BY <3>1 DEF Fail
    <3>2. CASE ~\E reason : Fail(reason, s.dst)
      <4>1. /\ nextId <= world.maxId /\ nextId' = nextId + 1
            /\ world' = world /\ up' = up /\ operations' = operations
        BY <2>1, <3>2 DEF Accept
      <4> QED
        BY <4>1
    <3> QED
      BY <3>1, <3>2
  <2>2. (Accept(s.dst, s, p) /\ UNCHANGED appVars) \/ Answer(s, {"RST"})
    BY <1>2 DEF RcvInListen
  <2>3. CASE Answer(s, {"RST"})
    BY <1>1, <2>3
  <2>4. CASE Accept(s.dst, s, p) /\ UNCHANGED appVars
    BY <2>1, <2>4 DEF appVars
  <2> QED
    BY <2>2, <2>3, <2>4
<1>3. ASSUME NEW p, RcvInSynSent(s.dst, s, p)
      PROVE  UNCHANGED <<world, up, sockets, threads, operations, nextId>>
  <2> DEFINE Performed == \E h, event, sends, tells, armed, st, queue, gone, removes :
                Perform(h, p, event, sends, tells, armed, st, queue, gone, removes)
  <2>1. CASE s.kind = "SYNACK"
    <3>1. (\E reason : Fail(reason, s.dst)) \/ UNCHANGED <<world, up, operations, nextId>>
      BY <1>3, <2>1 DEF RcvInSynSent
    <3> QED
      BY <1>3, <3>1 DEF RcvInSynSent, Fail, appVars
  <2>2. CASE s.kind # "SYNACK"
    <3>1. Performed
      BY <1>3, <2>2 DEF RcvInSynSent
    <3>2. UNCHANGED <<world, up, operations, nextId>>
      BY <3>1, HandlersLeave
    <3> QED
      BY <1>3, <3>2 DEF RcvInSynSent, appVars
  <2> QED
    BY <2>1, <2>2
<1>4. ASSUME NEW p, RcvWhileClosed(s.dst, s, p) \/ RcvElsewhere(s.dst, s, p)
      PROVE  UNCHANGED <<world, up, sockets, threads, operations, nextId>>
  BY <1>4, HandlersLeave DEF RcvWhileClosed, RcvElsewhere, Fail, appVars
<1>5. CASE RcvUnknown(s.dst, s) \/ RcvWhileDown(s) \/ LoseSegment(s)
  <2>1. \E kinds : Answer(s, kinds)
    BY <1>5 DEF RcvUnknown, RcvWhileDown, LoseSegment
  <2> QED
    BY <1>1, <2>1
<1> QED
  BY <1>2, <1>3, <1>4, <1>5 DEF RcvSegment

\* A host that is operated.
LEMMA OperationsCount ==
  ASSUME HostsInv, TypesInv, NEW h \in Host, Crash(h) \/ Shutdown(h) \/ Start(h)
  PROVE  /\ world' = world /\ threads' = threads
         /\ operations' \in 0 .. world.maxOperations
         /\ nextId' \in Nat /\ nextId <= nextId' /\ nextId' <= world.maxId + 1
         /\ DOMAIN sockets' = DOMAIN sockets
         /\ \A a \in DOMAIN sockets : a \notin AppsOf(h) => sockets'[a] = sockets[a]
         /\ \A a \in ClientsOf(h) : sockets'[a] \in {sockets[a], ClientStarted(sockets[a]),
                                       ClientStopped(sockets[a]), ClientShutDown(sockets[a])}
         /\ \A a \in AppsOf(h) \ ClientsOf(h) :
               \/ sockets'[a] \in {sockets[a], CloseSocket(sockets[a])}
               \/ nextId <= world.maxId /\ sockets'[a] = ListeningSocket(nextId)
<1>1. /\ world' = world /\ threads' = threads /\ operations < world.maxOperations
      /\ operations' = operations + 1
  BY DEF Crash, Shutdown, Start, Operates
<1>2. /\ world \in Scenarios /\ nextId \in Nat \ {0} /\ DOMAIN sockets = DOMAIN world.apps
      /\ world.maxId \in Nat /\ world.maxOperations \in Nat
  BY ScenariosAssumption DEF HostsInv
<1>3. operations \in 0 .. world.maxOperations /\ nextId <= world.maxId + 1
  BY DEF TypesInv
<1>4. operations' \in 0 .. world.maxOperations
  BY <1>1, <1>2, <1>3
<1>5. /\ nextId' \in Nat /\ nextId <= nextId' /\ nextId' <= world.maxId + 1
      /\ Start(h) /\ nextId' # nextId => nextId <= world.maxId
  <2>1. CASE nextId' = nextId
    BY <1>2, <1>3, <2>1
  <2>2. CASE nextId' # nextId
    <3> DEFINE listeners == AppsOf(h) \ ClientsOf(h)
    <3>1. Start(h) /\ nextId' = nextId + Cardinality(listeners)
          /\ (listeners # {} => nextId <= world.maxId)
      BY <2>2 DEF Crash, Shutdown, Start, GoesDown, RefuseOperation
    <3>2. \A a \in listeners : a \in DOMAIN world.apps /\ Listener(a) /\ a[1] = h
      BY <1>2, AppAt DEF AppsOf, ClientsOf
    <3>3. listeners # {}
      BY <1>2, <2>2, <3>1, FS_EmptySet
    <3>4. PICK a \in listeners : TRUE
      BY <3>3
    <3>5. listeners = {a}
      BY <1>2, <3>2, <3>4, AppAt
    <3>6. Cardinality(listeners) = 1
      BY <3>5, FS_Singleton
    <3> QED
      BY <1>2, <3>1, <3>3, <3>6
  <2> QED
    BY <2>1, <2>2
<1>6. CASE sockets' = sockets
  BY <1>1, <1>4, <1>5, <1>6
<1>7. CASE Crash(h) /\ sockets' # sockets
  <2>1. sockets' = [a \in DOMAIN sockets |->
                       IF a \in ClientsOf(h) THEN ClientStopped(sockets[a]) ELSE sockets[a]]
    BY <1>7 DEF Crash, RefuseOperation
  <2> QED
    BY <1>1, <1>2, <1>4, <1>5, <2>1 DEF ClientsOf, AppsOf
<1>8. CASE Shutdown(h) /\ sockets' # sockets
  <2>1. sockets' = [a \in DOMAIN sockets |->
                       CASE a \in ClientsOf(h) -> ClientShutDown(sockets[a])
                         [] a \in AppsOf(h) \ ClientsOf(h) -> CloseSocket(sockets[a])
                         [] OTHER -> sockets[a]]
    BY <1>8 DEF Shutdown, RefuseOperation
  <2> QED
    BY <1>1, <1>2, <1>4, <1>5, <2>1 DEF ClientsOf, AppsOf
<1>9. CASE Start(h) /\ sockets' # sockets
  <2>1. /\ sockets' = [a \in DOMAIN sockets |->
                         CASE a \in ClientsOf(h) -> ClientStarted(sockets[a])
                           [] a \in AppsOf(h) \ ClientsOf(h) -> ListeningSocket(nextId)
                           [] OTHER -> sockets[a]]
        /\ AppsOf(h) \ ClientsOf(h) # {} => nextId <= world.maxId
    BY <1>9 DEF Start, RefuseOperation
  <2> QED
    BY <1>1, <1>2, <1>4, <1>5, <2>1 DEF ClientsOf, AppsOf
<1> QED
  BY <1>6, <1>7, <1>8, <1>9

LEMMA InitTypes ==
  ASSUME Init
  PROVE  TypesInv
<1> DEFINE w == world
<1>1. /\ w \in Scenarios /\ threads = [h \in Host |-> NoThreads] /\ operations = 0
      /\ nextId = Cardinality(DOMAIN w.apps) + 1
      /\ sockets = [a \in DOMAIN w.apps |->
                       IF Listener(a) THEN ListeningSocket(w.apps[a].id)
                                      ELSE InitialClient(w.apps[a].id)]
  BY DEF Init
<1> HIDE DEF w
<1>2. /\ Cardinality(DOMAIN w.apps) <= w.maxId /\ IsFiniteSet(DOMAIN w.apps)
      /\ w.maxId \in Nat /\ w.maxOperations \in Nat
      /\ \A a \in DOMAIN w.apps : w.apps[a].id \in 1 .. Cardinality(DOMAIN w.apps)
  BY <1>1, ScenariosAssumption
<1>3. Cardinality(DOMAIN w.apps) \in Nat
  BY <1>2, FS_CardinalityType
<1>4. ASSUME NEW a \in DOMAIN w.apps
      PROVE  sockets[a] \in SocketsOf(AppKind(a) = "client", w.maxId)
  <2>1. w.apps[a].id \in 1 .. w.maxId
    BY <1>2, <1>3
  <2>2. Listener(a) <=> AppKind(a) # "client"
    BY <1>1, <1>4, AppAt DEF w
  <2> DEFINE id == w.apps[a].id
             client == AppKind(a) = "client"
  <2>3. sockets[a] = IF client THEN InitialClient(id) ELSE ListeningSocket(id)
    BY <1>1, <2>2
  <2>4. client \in BOOLEAN
    OBVIOUS
  <2> HIDE DEF id, client
  <2>5. ListeningSocket(id) \in SocketsOf(FALSE, w.maxId)
        /\ InitialClient(id) \in SocketsOf(TRUE, w.maxId)
    BY <1>2, <2>1, SocketsMade DEF id
  <2>6. sockets[a] \in SocketsOf(client, w.maxId)
    BY <2>3, <2>4, <2>5
  <2> QED
    BY <2>6 DEF client
<1>5. \A h \in Host : DOMAIN threads[h] = {}
  BY <1>1 DEF NoThreads
<1>6. threads = [h \in Host |-> threads[h]]
  BY <1>1
<1>7. nextId <= w.maxId + 1 /\ operations \in 0 .. w.maxOperations
  BY <1>1, <1>2, <1>3
<1> QED
  BY <1>4, <1>5, <1>6, <1>7 DEF TypesInv, w

\* Applications that keep their sockets and threads.
LEMMA TypesLater ==
  ASSUME HostsInv, TypesInv, UNCHANGED <<world, sockets, threads, operations>>,
         nextId' \in Nat, nextId <= nextId', nextId' <= world.maxId + 1
  PROVE  TypesInv'
<1>1. nextId \in Nat
  BY DEF HostsInv
<1>2. \A h \in Host : \A id \in DOMAIN threads[h] :
          id \in 1 .. nextId' - 1 /\ threads[h][id] \in ThreadSockets(id)
  BY <1>1 DEF TypesInv
<1>3. \A a \in DOMAIN world.apps : AppKind(a)' = AppKind(a)
  BY DEF AppKind
<1> QED
  BY <1>2, <1>3 DEF TypesInv

LEMMA NextTypes ==
  ASSUME HostsInv, TypesInv, [Next]_vars
  PROVE  TypesInv'
<1> DEFINE most == world.maxId
<1>1. /\ nextId \in Nat \ {0} /\ nextId <= most + 1 /\ most \in Nat
      /\ DOMAIN sockets = DOMAIN world.apps
      /\ operations \in 0 .. world.maxOperations
      /\ world \in Scenarios
      /\ threads = [h \in Host |-> threads[h]]
      /\ \A a \in DOMAIN world.apps : sockets[a] \in SocketsOf(AppKind(a) = "client", most)
      /\ \A h \in Host : \A id \in DOMAIN threads[h] :
            id \in 1 .. nextId - 1 /\ threads[h][id] \in ThreadSockets(id)
  BY ScenariosAssumption DEF HostsInv, TypesInv
<1> HIDE DEF most
<1>2. ASSUME NEW a \in DOMAIN world.apps, AppKind(a) = "client", NEW c \in SocketsOf(TRUE, most),
             sockets' = [sockets EXCEPT ![a] = c], world' = world, threads' = threads,
             operations' = operations, nextId' \in {nextId, nextId + 1}, nextId' <= most + 1
      PROVE  TypesInv'
  <2>1. \A b \in DOMAIN world'.apps : sockets'[b] \in SocketsOf(AppKind(b)' = "client", most)
    BY <1>1, <1>2 DEF AppKind
  <2>2. \A h \in Host : \A id \in DOMAIN threads'[h] :
            id \in 1 .. nextId' - 1 /\ threads'[h][id] \in ThreadSockets(id)
    BY <1>1, <1>2
  <2> QED
    BY <1>1, <1>2, <2>1, <2>2 DEF TypesInv, most
<1>3. ASSUME NEW a \in DOMAIN world.apps, ClientConnects(a) \/ StopTimePasses(a)
      PROVE  TypesInv'
  <2>1. AppKind(a) = "client" /\ sockets[a] \in SocketsOf(TRUE, most)
    <3>1. AppKind(a) = "client"
      BY <1>3 DEF ClientConnects, StopTimePasses
    <3>2. (AppKind(a) = "client") = TRUE
      BY <3>1
    <3> QED
      BY <1>1, <1>3, <3>1, <3>2
  <2>2. CASE ClientConnects(a)
    <3> DEFINE new == ClientConnecting(sockets[a], nextId)
    <3>1. /\ nextId <= most /\ sockets' = [sockets EXCEPT ![a] = new] /\ threads' = threads
      BY <2>2 DEF ClientConnects, most
    <3>2. /\ world' = world /\ operations' = operations /\ nextId' \in {nextId, nextId + 1}
      BY <2>2 DEF ClientConnects, OpenActive, Fail
    <3>3. nextId \in 1 .. most
      BY <1>1, <3>1
    <3>4. new \in SocketsOf(TRUE, most)
      BY <1>1, <2>1, <3>3, ClientMoves
    <3>5. nextId' <= most + 1
      BY <1>1, <3>1, <3>2
    <3> HIDE DEF new
    <3> QED
      BY <1>2, <1>3, <2>1, <3>1, <3>2, <3>4, <3>5
  <2>3. CASE StopTimePasses(a)
    <3> DEFINE new == [sockets[a] EXCEPT !.over = TRUE]
    <3>1. /\ sockets' = [sockets EXCEPT ![a] = new] /\ threads' = threads
          /\ world' = world /\ operations' = operations /\ nextId' = nextId
      BY <2>3 DEF StopTimePasses
    <3>2. new \in SocketsOf(TRUE, most)
      BY <2>1 DEF SocketsOf
    <3> HIDE DEF new
    <3> QED
      BY <1>1, <1>2, <1>3, <2>1, <3>1, <3>2
  <2> QED
    BY <1>3, <2>2, <2>3
<1>4. ASSUME NEW a \in DOMAIN world.apps, AppStep(a[1], a)
      PROVE  TypesInv'
  <2> DEFINE h == a[1]
             id == Head(toApp[h]).connId
             kind == Head(toApp[h]).kind
  <2>1. /\ h \in Host /\ toApp[h] # <<>>
        /\ UNCHANGED <<world, nextId, operations>>
    BY <1>1, <1>4, AppAt, AppLeaves DEF Receives
  <2>2. kind \in Kinds /\ id \in 1 .. nextId - 1
    <3>1. Head(toApp[h]) \in Indications(nextId)
      BY <2>1, RestOfQueue
    <3> QED
      BY <3>1 DEF Indications
  <2>3. ASSUME sockets' # sockets
        PROVE  TypesInv'
    <3> DEFINE new == ClientAfter(sockets[a], kind)
    <3>1. AppKind(a) = "client" /\ sockets' = [sockets EXCEPT ![a] = new] /\ threads' = threads
      BY <1>4, <2>3, AppLeaves
    <3>2. (AppKind(a) = "client") = TRUE
      BY <3>1
    <3>3. new \in SocketsOf(TRUE, most)
      BY <1>1, <2>2, <3>2, ClientTold
    <3> HIDE DEF new
    <3> QED
      BY <1>1, <1>2, <2>1, <3>1, <3>3
  <2>4. ASSUME threads' # threads, sockets' = sockets
        PROVE  TypesInv'
    <3> DEFINE map == threads[h]
               new == ThreadsAfter(map, id, kind)
    <3>1. threads' = [threads EXCEPT ![h] = new]
      BY <1>4, <2>4, AppLeaves
    <3>2. /\ DOMAIN new \subseteq DOMAIN threads[h] \cup {id}
          /\ \A i \in DOMAIN new : new[i] \in ThreadSockets(i)
      <4>1. \A i \in DOMAIN map : map[i] \in ThreadSockets(i)
        BY <1>1, <2>1
      <4> HIDE DEF map, id, kind
      <4>2. /\ DOMAIN new = IF kind \in Ended THEN DOMAIN map \ {id} ELSE DOMAIN map \cup {id}
            /\ \A i \in DOMAIN new : new[i] \in ThreadSockets(i)
        BY <2>2, <4>1, ThreadsBecome
      <4> HIDE DEF new
      <4> QED
        BY <4>2 DEF map
    <3> HIDE DEF new, h, id, kind
    <3>3. \A g \in Host : threads'[g] = IF g = h THEN new ELSE threads[g]
      BY <1>1, <3>1
    <3>4. threads' = [g \in Host |-> threads'[g]]
      BY <1>1, <3>1
    <3>5. ASSUME NEW g \in Host, NEW i \in DOMAIN threads'[g]
          PROVE  i \in 1 .. nextId - 1 /\ threads'[g][i] \in ThreadSockets(i)
      BY <1>1, <2>2, <3>2, <3>3
    <3>6. \A b \in DOMAIN world'.apps : AppKind(b)' = AppKind(b)
      BY <2>1 DEF AppKind
    <3> QED
      BY <1>1, <2>1, <2>4, <3>4, <3>5, <3>6 DEF TypesInv, most
  <2>5. CASE threads' = threads /\ sockets' = sockets
    BY <1>1, <2>1, <2>5, TypesLater DEF most
  <2> QED
    BY <2>3, <2>4, <2>5
<1>5. ASSUME NEW s \in wire, RcvSegment(s.dst, s) \/ RcvWhileDown(s) \/ LoseSegment(s)
      PROVE  TypesInv'
  <2>1. UNCHANGED <<world, sockets, threads, operations>>
    BY <1>5, SegmentLeaves
  <2>2. nextId' \in Nat /\ nextId <= nextId' /\ nextId' <= world.maxId + 1
    BY <1>1, <1>5, SegmentLeaves DEF most
  <2> QED
    BY <2>1, <2>2, TypesLater
<1>6. ASSUME NEW h \in Host, Crash(h) \/ Shutdown(h) \/ Start(h)
      PROVE  TypesInv'
  <2>1. /\ world' = world /\ threads' = threads
        /\ operations' \in 0 .. world.maxOperations
        /\ nextId' \in Nat /\ nextId <= nextId' /\ nextId' <= most + 1
        /\ DOMAIN sockets' = DOMAIN sockets
    BY <1>6, OperationsCount DEF most
  <2>2. \A id \in DOMAIN sockets : AppKind(id)' = AppKind(id)
    BY <2>1 DEF AppKind
  <2>3. ASSUME NEW a \in DOMAIN world.apps
        PROVE  sockets'[a] \in SocketsOf(AppKind(a) = "client", most)
    <3> DEFINE c == sockets[a]
               new == sockets'[a]
    <3>1. CASE a \notin AppsOf(h)
      BY <1>1, <1>6, <2>3, <3>1, OperationsCount
    <3>2. CASE a \in ClientsOf(h)
      <4>1. AppKind(a) = "client" /\ (AppKind(a) = "client") = TRUE
        BY <3>2 DEF ClientsOf
      <4>2. c \in SocketsOf(TRUE, most)
        BY <1>1, <2>3, <4>1
      <4>3. new \in {c, ClientStarted(c), ClientStopped(c), ClientShutDown(c)}
        BY <1>6, <3>2, OperationsCount
      <4> DEFINE id == c.connId
      <4>4. id \in 1 .. most
        BY <4>2 DEF SocketsOf
      <4> HIDE DEF c, new, id
      <4>5. new \in SocketsOf(TRUE, most)
        <5>1. most \in Nat
          BY <1>1
        <5>2. ClientStarted(c) \in SocketsOf(TRUE, most)
          BY <4>2, <4>4, <5>1, ClientMoves
        <5>3. Stopped(ClientStopped(c), c, most) /\ Stopped(ClientShutDown(c), c, most)
          BY <4>2, <4>4, <5>1, ClientMoves
        <5> QED
          BY <4>2, <4>3, <5>2, <5>3 DEF Stopped
      <4> QED
        BY <4>1, <4>5 DEF new
    <3>3. CASE a \in AppsOf(h) \ ClientsOf(h)
      <4>1. AppKind(a) # "client" /\ (AppKind(a) = "client") = FALSE
        BY <3>3 DEF ClientsOf
      <4>2. c \in SocketsOf(FALSE, most)
        BY <1>1, <2>3, <4>1
      <4>3. \/ new \in {c, CloseSocket(c)}
            \/ nextId <= most /\ new = ListeningSocket(nextId)
        BY <1>6, <3>3, OperationsCount DEF most
      <4> HIDE DEF c, new
      <4>4. CloseSocket(c) \in SocketsOf(FALSE, most)
        BY <4>2 DEF CloseSocket, SocketsOf, SocketStates
      <4>5. nextId <= most => ListeningSocket(nextId) \in SocketsOf(FALSE, most)
        <5>1. nextId <= most => nextId \in 1 .. most
          BY <1>1
        <5> QED
          BY <1>1, <5>1, SocketsMade
      <4>6. new \in SocketsOf(FALSE, most)
        BY <4>2, <4>3, <4>4, <4>5
      <4> QED
        BY <4>1, <4>6 DEF new
    <3> QED
      BY <3>1, <3>2, <3>3
  <2>4. \A g \in Host : \A id \in DOMAIN threads'[g] :
            id \in 1 .. nextId' - 1 /\ threads'[g][id] \in ThreadSockets(id)
    BY <1>1, <2>1
  <2> QED
    BY <1>1, <2>1, <2>2, <2>3, <2>4 DEF TypesInv, most
<1>7. ASSUME NEW h \in Host, NEW p \in Pointer, LastSymbol(h, p) \/ TimerFires(h, p)
      PROVE  TypesInv'
  <2>1. UNCHANGED <<world, sockets, threads, operations, nextId>>
    BY <1>7, HandlersLeave DEF LastSymbol, TimerFires, appVars
  <2> QED
    BY <1>1, <2>1, TypesLater DEF most
<1>8. CASE UNCHANGED vars
  <2>1. UNCHANGED <<world, sockets, threads, operations, nextId>>
    BY <1>8 DEF vars
  <2> QED
    BY <1>1, <2>1, TypesLater DEF most
<1> QED
  BY <1>3, <1>4, <1>5, <1>6, <1>7, <1>8 DEF Next

LEMMA TypesHold == Spec => []TypesInv
<1>1. Init => TypesInv
  BY InitTypes
<1>2. HostsInv /\ TypesInv /\ [Next]_vars => TypesInv'
  BY NextTypes
<1> QED
  BY <1>1, <1>2, HostsHold, PTL DEF Spec

\* The host module, its applications and the network keep their types, and no counter
\* passes its bound, through calls, losses, crashes and restarts.
THEOREM HostTypes == Spec => []TypeOK
<1>1. ASSUME HostsInv, DataInv, TypesInv
      PROVE  TypeOK
  <2>1. /\ world \in Scenarios /\ up \in [Host -> BOOLEAN] /\ nextId \in Nat \ {0}
        /\ world.maxId \in Nat /\ nextId <= world.maxId + 1
        /\ operations \in 0 .. world.maxOperations
    BY <1>1, ScenariosAssumption DEF HostsInv, TypesInv
  <2>2. ASSUME NEW h \in Host
        PROVE  /\ DOMAIN tables[h].conns \subseteq Pointer
               /\ tables[h].lastPort \in Ephemeral
               /\ \A p \in DOMAIN tables[h].conns :
                     LET conn == tables[h].conns[p]
                     IN  /\ conn.connId \in 1 .. world.maxId
                         /\ conn.fsm \in States
                         /\ conn.timers \subseteq Timers
                         /\ conn.st.snd_wnd \in Window
                         /\ conn.st.snd_wnd_scale \in 0 .. 14
    <3>1. TablesOK(tables[h], nextId) /\ HostData(tables[h], h, world.par)
      BY <1>1 DEF HostsInv, HostOK, DataInv
    <3>2. IsTables(tables[h])
      BY <3>1 DEF TablesOK
    <3>3. ASSUME NEW p \in DOMAIN tables[h].conns
          PROVE  LET conn == tables[h].conns[p]
                 IN  /\ conn.connId \in 1 .. world.maxId
                     /\ conn.fsm \in States
                     /\ conn.timers \subseteq Timers
                     /\ conn.st.snd_wnd \in Window
                     /\ conn.st.snd_wnd_scale \in 0 .. 14
      <4> DEFINE conn == tables[h].conns[p]
      <4>1. IsConnection(conn, nextId) /\ ConnData(conn, h, world.par)
        BY <3>1 DEF TablesOK, HostData
      <4> HIDE DEF conn
      <4>2. /\ conn.connId \in 1 .. nextId - 1 /\ conn.fsm \in States
            /\ conn.timers \subseteq Timers /\ conn.st \in StateBlock
        BY <4>1 DEF IsConnection, ConnData
      <4>3. conn.st.snd_wnd \in Window /\ conn.st.snd_wnd_scale \in 0 .. 14
        BY <4>2 DEF StateBlock
      <4>4. conn.connId \in 1 .. world.maxId
        BY <2>1, <4>2
      <4> QED
        BY <4>2, <4>3, <4>4 DEF conn
    <3> QED
      BY <3>2, <3>3 DEF IsTables
  <2>3. ASSUME NEW a \in DOMAIN world.apps
        PROVE  /\ sockets[a].state \in SocketStates
               /\ sockets[a].connId \in 1 .. world.maxId
               /\ AppKind(a) = "client" =>
                     sockets[a].timer \in ClientTimers /\ sockets[a].over \in BOOLEAN
    <3> DEFINE client == AppKind(a) = "client"
    <3>1. sockets[a] \in SocketsOf(client, world.maxId)
      BY <1>1 DEF TypesInv
    <3> QED
      BY <3>1 DEF SocketsOf
  <2>4. ASSUME NEW h \in Host, NEW id \in DOMAIN threads[h]
        PROVE  id \in 1 .. world.maxId /\ threads[h][id].state \in SocketStates
    <3>1. id \in 1 .. nextId - 1 /\ threads[h][id] \in ThreadSockets(id)
      BY <1>1 DEF TypesInv
    <3> QED
      BY <2>1, <3>1 DEF ThreadSockets
  <2>5. \A s \in wire : s.window \in Window /\ s.dst \in Host
    BY <1>1 DEF DataInv, SegmentData, HostsInv
  <2>6. nextId \in 1 .. world.maxId + 1
    BY <2>1
  <2> QED
    BY <2>1, <2>2, <2>3, <2>4, <2>5, <2>6 DEF TypeOK
<1> QED
  BY <1>1, HostsHold, DataHolds, TypesHold, PTL

----------------------------------------------------------------------------
(* What applications and connections know of each other. *)

\* A connection belongs to an application of its host; a client's have ephemeral ports.
OfApp(apps, h, conn) ==
    /\ conn.fsm # "INIT"
    /\ <<h, conn.gate>> \in DOMAIN apps
    /\ conn.pair.localPort \in Ephemeral <=> apps[<<h, conn.gate>>].kind = "client"

\* A connection whose failure is on its way to the application is closed.
FailuresEnd(C, Q) ==
    \A i \in 1 .. Len(Q), p \in DOMAIN C :
        Q[i].kind \in Failures /\ Q[i].connId = C[p].connId => C[p].fsm = "CLOSED"

\* A client that has been told of a failure, and one that is about to be, hears of nothing
\* afterwards but the end of its connection.
NoMore(Q, gate, socket) ==
    \A j \in 1 .. Len(Q) : Q[j].gate = gate /\ Q[j].kind # "CLOSED" =>
        /\ socket.timer # "CONNECT"
        /\ \A i \in 1 .. j - 1 : Q[i].gate = gate => Q[i].kind \notin Failures

\* A client has no connection but the one under the id of its socket, unless closed, and
\* none while its timer is set to call again; it is told of that one only.
OneCall(C, Q, gate, socket) ==
    /\ \A p \in DOMAIN C :
          C[p].gate = gate /\ C[p].fsm # "CLOSED" =>
             C[p].connId = socket.connId /\ socket.timer # "CONNECT"
    /\ \A i \in 1 .. Len(Q) : Q[i].gate = gate => Q[i].connId = socket.connId
    /\ NoMore(Q, gate, socket)

\* Once a queue has been heard, there is a thread for an id: there is one now and nothing
\* is said about it, or what is said last does not end it.
About(indication, gate, id) == indication.gate = gate /\ indication.connId = id

WillServe(Q, map, gate, id) ==
    \/ id \in DOMAIN map /\ \A i \in 1 .. Len(Q) : ~About(Q[i], gate, id)
    \/ \E i \in 1 .. Len(Q) :
          /\ About(Q[i], gate, id)
          /\ Q[i].kind \notin Ended
          /\ \A j \in 1 .. Len(Q) : j > i => ~About(Q[j], gate, id)

IsServed(C, gate, id) ==
    \E p \in DOMAIN C : C[p].gate = gate /\ C[p].connId = id /\ C[p].fsm \in Serving

ThreadsFit(C, Q, map, gate, next) ==
    \A id \in 1 .. next - 1 : WillServe(Q, map, gate, id) <=> IsServed(C, gate, id)

\* The connections C of a host, the indications Q on their way, the sockets S of its
\* applications and the threads of its server.
HostFits(apps, h, C, Q, S, map, next, running) ==
    /\ \A p \in DOMAIN C : OfApp(apps, h, C[p])
    /\ FailuresEnd(C, Q)
    /\ \A a \in DOMAIN apps : a[1] = h =>
          /\ running /\ apps[a].kind = "client" => OneCall(C, Q, a[2], S[a])
          /\ apps[a].kind = "threads" => ThreadsFit(C, Q, map, a[2], next)

AppsInv ==
    /\ \A h \in Host :
          HostFits(world.apps, h, tables[h].conns, toApp[h], sockets, threads[h], nextId, Running)
    /\ \A a \in DOMAIN world.apps :
          AppKind(a) = "client" /\ sockets[a].timer = "NONE" => sockets[a].over

----------------------------------------------------------------------------
(* Queues. *)

\* more is the queue and what conn has told.
HearsFrom(more, queue, conn, told) ==
    /\ Len(more) = Len(queue) + Len(told)
    /\ \A i \in 1 .. Len(queue) : more[i] = queue[i]
    /\ \A i \in 1 .. Len(told) :
          /\ more[Len(queue) + i].gate = conn.gate
          /\ more[Len(queue) + i].connId = conn.connId
          /\ more[Len(queue) + i].kind = told[i]

LEMMA HeardGives ==
  ASSUME NEW next \in Nat, NEW queue \in Seq(Indications(next)), NEW conn,
         conn.gate \in Nat, conn.connId \in 1 .. next - 1, NEW told \in Seq(Kinds)
  PROVE  HearsFrom(Heard(queue, conn, told), queue, conn, told)
<1> DEFINE more == Heard(queue, conn, told)
           new == [i \in 1 .. Len(told) |-> Indication(conn, told[i])]
<1>1. Len(told) \in Nat /\ Len(queue) \in Nat /\ \A i \in 1 .. Len(told) : told[i] \in Kinds
  OBVIOUS
<1>2. \A i \in 1 .. Len(told) :
         /\ Indication(conn, told[i]) \in Indications(next)
         /\ Indication(conn, told[i]).connId = conn.connId
         /\ Indication(conn, told[i]).gate = conn.gate
         /\ Indication(conn, told[i]).kind = told[i]
  BY <1>1 DEF Indication, Indications
<1>3. /\ new \in Seq(Indications(next)) /\ Len(new) = Len(told)
      /\ \A i \in 1 .. Len(told) : /\ new[i].gate = conn.gate /\ new[i].connId = conn.connId
                                   /\ new[i].kind = told[i]
  BY <1>1, <1>2
<1>4. more = queue \o new
  BY DEF Heard
<1> HIDE DEF new, more
<1>5. /\ queue \o new \in Seq(Indications(next))
      /\ Len(queue \o new) = Len(queue) + Len(new)
      /\ \A i \in 1 .. Len(queue) + Len(new) :
            (queue \o new)[i] = IF i <= Len(queue) THEN queue[i] ELSE new[i - Len(queue)]
  <2>1. new \in Seq(Indications(next))
    BY <1>3
  <2> QED
    BY <2>1, ConcatProperties
<1>6. \A i \in 1 .. Len(queue) : more[i] = queue[i]
  BY <1>1, <1>3, <1>4, <1>5
<1>7. \A i \in 1 .. Len(told) : more[Len(queue) + i] = new[i]
  BY <1>1, <1>3, <1>4, <1>5
<1>8. Len(more) = Len(queue) + Len(told)
  BY <1>3, <1>4, <1>5
<1>9. HearsFrom(more, queue, conn, told)
  BY <1>3, <1>6, <1>7, <1>8 DEF HearsFrom
<1> QED
  BY <1>9 DEF more

LEMMA TailGives ==
  ASSUME NEW next \in Nat, NEW queue \in Seq(Indications(next)), queue # <<>>
  PROVE  /\ Len(queue) \in Nat \ {0} /\ Head(queue) = queue[1]
         /\ Tail(queue) \in Seq(Indications(next))
         /\ Len(Tail(queue)) = Len(queue) - 1
         /\ \A i \in 1 .. Len(queue) - 1 : Tail(queue)[i] = queue[i + 1]
<1>1. Len(queue) \in Nat /\ Len(queue) # 0
  BY EmptySeq
<1> QED
  BY <1>1, HeadTailProperties

\* What a connection says last decides.
LEMMA HeardServes ==
  ASSUME NEW next \in Nat, NEW queue \in Seq(Indications(next)), NEW conn,
         conn.gate \in Nat, conn.connId \in 1 .. next - 1, NEW told \in Seq(Kinds),
         NEW map, NEW gate, NEW id
  PROVE  LET more == Heard(queue, conn, told)
         IN  IF told # <<>> /\ conn.gate = gate /\ conn.connId = id
             THEN WillServe(more, map, gate, id) <=> told[Len(told)] \notin Ended
             ELSE WillServe(more, map, gate, id) <=> WillServe(queue, map, gate, id)
<1> DEFINE more == Heard(queue, conn, told)
           m == Len(queue)
           n == Len(told)
<1>1. m \in Nat /\ n \in Nat /\ (told # <<>> <=> n # 0)
  BY EmptySeq
<1>2. /\ Len(more) = m + n
      /\ \A i \in 1 .. m : more[i] = queue[i]
      /\ \A i \in 1 .. n :
            /\ more[m + i].gate = conn.gate
            /\ more[m + i].connId = conn.connId
            /\ more[m + i].kind = told[i]
  <2>1. HearsFrom(more, queue, conn, told)
    BY HeardGives
  <2> QED
    BY <2>1 DEF HearsFrom
<1> DEFINE same == conn.gate = gate /\ conn.connId = id
<1>3. /\ \A i \in 1 .. m : /\ About(more[i], gate, id) <=> About(queue[i], gate, id)
                           /\ more[i].kind = queue[i].kind
      /\ \A i \in 1 .. n : (About(more[m + i], gate, id) <=> same) /\ more[m + i].kind = told[i]
  BY <1>2 DEF About
<1> HIDE DEF more, m, n, same
<1>4. CASE n # 0 /\ same
  <2>1. /\ About(more[m + n], gate, id) /\ more[m + n].kind = told[n]
        /\ m + n \in 1 .. Len(more) /\ \A j \in 1 .. Len(more) : ~(j > m + n)
    BY <1>1, <1>2, <1>3, <1>4
  <2>2. \A i \in 1 .. Len(more) : i # m + n => m + n > i
    BY <1>1, <1>2
  <2>3. WillServe(more, map, gate, id) <=> told[n] \notin Ended
    BY <2>1, <2>2 DEF WillServe
  <2> QED
    BY <1>1, <1>4, <2>3 DEF more, m, n, same
<1>5. CASE ~(n # 0 /\ same)
  <2>1. \A i \in 1 .. m + n : i \in 1 .. m \/ ~About(more[i], gate, id)
    <3>1. ASSUME NEW i \in 1 .. m + n, i \notin 1 .. m
          PROVE  ~About(more[i], gate, id)
      <4>1. i - m \in 1 .. n /\ m + (i - m) = i /\ n # 0
        BY <1>1, <3>1
      <4> QED
        BY <1>3, <1>5, <4>1
    <3> QED
      BY <3>1
  <2>2. 1 .. m \subseteq 1 .. m + n
    BY <1>1
  <2>3. WillServe(more, map, gate, id) <=>
           \/ id \in DOMAIN map /\ \A i \in 1 .. m : ~About(queue[i], gate, id)
           \/ \E i \in 1 .. m :
                 /\ About(queue[i], gate, id)
                 /\ queue[i].kind \notin Ended
                 /\ \A j \in 1 .. m : j > i => ~About(queue[j], gate, id)
    <3> DEFINE A(i) == About(queue[i], gate, id)
               B(i) == About(more[i], gate, id)
    <3>1. WillServe(more, map, gate, id) <=>
             \/ id \in DOMAIN map /\ \A i \in 1 .. m + n : ~B(i)
             \/ \E i \in 1 .. m + n : B(i) /\ more[i].kind \notin Ended
                                      /\ \A j \in 1 .. m + n : j > i => ~B(j)
      BY <1>2 DEF WillServe
    <3>2. \A i \in 1 .. m : (B(i) <=> A(i)) /\ more[i].kind = queue[i].kind
      BY <1>3
    <3> HIDE DEF A, B
    <3>3. \A i \in 1 .. m + n : i \in 1 .. m \/ ~B(i)
      BY <2>1 DEF B
    <3>4. (\A i \in 1 .. m + n : ~B(i)) <=> (\A i \in 1 .. m : ~A(i))
      BY <2>2, <3>2, <3>3
    <3>5. \A i \in 1 .. m :
             (\A j \in 1 .. m + n : j > i => ~B(j)) <=> (\A j \in 1 .. m : j > i => ~A(j))
      BY <2>2, <3>2, <3>3
    <3>6. (\E i \in 1 .. m + n : B(i) /\ more[i].kind \notin Ended
                                  /\ \A j \in 1 .. m + n : j > i => ~B(j))
           <=> \E i \in 1 .. m : A(i) /\ queue[i].kind \notin Ended
                                  /\ \A j \in 1 .. m : j > i => ~A(j)
      BY <2>2, <3>2, <3>3, <3>5
    <3> QED
      BY <3>1, <3>4, <3>6 DEF A
  <2>4. WillServe(more, map, gate, id) <=> WillServe(queue, map, gate, id)
    BY <2>3 DEF WillServe, m
  <2> QED
    BY <1>1, <1>5, <2>4 DEF more, n, same
<1> QED
  BY <1>4, <1>5

\* Taking the first indication changes nothing, if the threads follow it.
LEMMA TailServes ==
  ASSUME NEW next \in Nat, NEW queue \in Seq(Indications(next)), queue # <<>>,
         NEW map, NEW new, NEW gate, NEW id,
         IF About(Head(queue), gate, id) THEN id \in DOMAIN new <=> Head(queue).kind \notin Ended
         ELSE id \in DOMAIN new <=> id \in DOMAIN map
  PROVE  /\ WillServe(Tail(queue), new, gate, id) <=> WillServe(queue, map, gate, id)
         /\ WillServe(queue, new, gate, id) <=> WillServe(queue, map, gate, id)
<1> DEFINE n == Len(queue)
           rest == Tail(queue)
<1>1. /\ n \in Nat \ {0} /\ Head(queue) = queue[1] /\ Len(rest) = n - 1
      /\ \A i \in 1 .. n - 1 : rest[i] = queue[i + 1]
  BY TailGives
<1> DEFINE A(i) == About(queue[i], gate, id)
           K(i) == queue[i].kind \notin Ended
<1>2. /\ \A i \in 1 .. n - 1 : /\ About(rest[i], gate, id) <=> A(i + 1)
                               /\ rest[i].kind \notin Ended <=> K(i + 1)
  BY <1>1
<1>3. IF A(1) THEN id \in DOMAIN new <=> K(1) ELSE id \in DOMAIN new <=> id \in DOMAIN map
  BY <1>1
<1>4. WillServe(queue, map, gate, id) <=>
         \/ id \in DOMAIN map /\ \A i \in 1 .. n : ~A(i)
         \/ \E i \in 1 .. n : A(i) /\ K(i) /\ \A j \in 1 .. n : j > i => ~A(j)
  BY DEF WillServe
<1>5. WillServe(queue, new, gate, id) <=>
         \/ id \in DOMAIN new /\ \A i \in 1 .. n : ~A(i)
         \/ \E i \in 1 .. n : A(i) /\ K(i) /\ \A j \in 1 .. n : j > i => ~A(j)
  BY DEF WillServe
<1>6. WillServe(rest, new, gate, id) <=>
         \/ id \in DOMAIN new /\ \A i \in 1 .. n - 1 : ~A(i + 1)
         \/ \E i \in 1 .. n - 1 :
               A(i + 1) /\ K(i + 1) /\ \A j \in 1 .. n - 1 : j > i => ~A(j + 1)
  <2> HIDE DEF A, K
  <2> QED
    BY <1>1, <1>2 DEF WillServe
<1> HIDE DEF A, K, rest, n
<1>7. 1 \in 1 .. n /\ \A i \in 1 .. n : i # 1 => i > 1 /\ i - 1 \in 1 .. n - 1 /\ (i - 1) + 1 = i
  BY <1>1
<1>8. (\A i \in 1 .. n - 1 : ~A(i + 1)) <=> (\A i \in 1 .. n : i # 1 => ~A(i))
  <2>1. ASSUME \A i \in 1 .. n - 1 : ~A(i + 1), NEW i \in 1 .. n, i # 1
        PROVE  ~A(i)
    <3>1. i - 1 \in 1 .. n - 1 /\ (i - 1) + 1 = i
      BY <1>7, <2>1
    <3>2. ~A((i - 1) + 1)
      BY <2>1, <3>1
    <3> QED
      BY <3>1, <3>2
  <2>2. \A i \in 1 .. n - 1 : i + 1 \in 1 .. n /\ i + 1 # 1
    BY <1>1
  <2> QED
    BY <2>1, <2>2
<1>9. ASSUME NEW i \in 1 .. n - 1
      PROVE  /\ (\A j \in 1 .. n - 1 : j > i => ~A(j + 1)) <=>
                  (\A j \in 1 .. n : j > i + 1 => ~A(j))
             /\ i + 1 \in 1 .. n /\ i + 1 # 1
  BY <1>1, <1>7
<1>10. (\E i \in 1 .. n - 1 :
              A(i + 1) /\ K(i + 1) /\ \A j \in 1 .. n - 1 : j > i => ~A(j + 1))
       <=> \E i \in 1 .. n : i # 1 /\ A(i) /\ K(i) /\ \A j \in 1 .. n : j > i => ~A(j)
  <2>1. ASSUME NEW i \in 1 .. n - 1, A(i + 1), K(i + 1),
               \A j \in 1 .. n - 1 : j > i => ~A(j + 1)
        PROVE  \E k \in 1 .. n : k # 1 /\ A(k) /\ K(k) /\ \A j \in 1 .. n : j > k => ~A(j)
    BY <1>9, <2>1
  <2>2. ASSUME NEW k \in 1 .. n, k # 1, A(k), K(k), \A j \in 1 .. n : j > k => ~A(j)
        PROVE  \E i \in 1 .. n - 1 :
                  A(i + 1) /\ K(i + 1) /\ \A j \in 1 .. n - 1 : j > i => ~A(j + 1)
    <3>1. k - 1 \in 1 .. n - 1 /\ (k - 1) + 1 = k
      BY <1>7, <2>2
    <3>2. \A j \in 1 .. n - 1 : j > k - 1 => ~A(j + 1)
      BY <1>1, <2>2, <3>1
    <3> QED
      BY <2>2, <3>1, <3>2
  <2> QED
    BY <2>1, <2>2
<1>11. WillServe(rest, new, gate, id) <=>
          \/ id \in DOMAIN new /\ \A i \in 1 .. n : i # 1 => ~A(i)
          \/ \E i \in 1 .. n : i # 1 /\ A(i) /\ K(i) /\ \A j \in 1 .. n : j > i => ~A(j)
  BY <1>6, <1>8, <1>10
<1>12. CASE A(1)
  <2>1. (\A j \in 1 .. n : j > 1 => ~A(j)) <=> (\A i \in 1 .. n : i # 1 => ~A(i))
    BY <1>7
  <2> QED
    BY <1>3, <1>4, <1>5, <1>7, <1>11, <1>12, <2>1 DEF rest
<1>13. CASE ~A(1)
  BY <1>3, <1>4, <1>5, <1>7, <1>11, <1>13 DEF rest
<1> QED
  BY <1>12, <1>13

----------------------------------------------------------------------------
(* Steps of a connection, as its application sees them. *)

\* The connections C change to D: p alone does, to the state new, or is removed.
Turns(C, D, p, new) ==
    /\ DOMAIN D \subseteq DOMAIN C
    /\ DOMAIN C \ {p} \subseteq DOMAIN D
    /\ \A q \in DOMAIN D \ {p} : D[q] = C[q]
    /\ p \notin DOMAIN D => new = "CLOSED"
    /\ p \in DOMAIN D =>
          /\ D[p].gate = C[p].gate /\ D[p].connId = C[p].connId
          /\ D[p].pair.localPort = C[p].pair.localPort
          /\ D[p].fsm = new

\* What a connection tells when it changes state: what is said last tells whether it is
\* served, and a failure is final.
Speaks(old, new, told) ==
    /\ old # "CLOSED"
    /\ new # "INIT"
    /\ told = <<>> => (new \in Serving <=> old \in Serving)
    /\ told # <<>> => (new \in Serving <=> told[Len(told)] \notin Ended)
    /\ \A i \in 1 .. Len(told) : told[i] \in Failures =>
          new = "CLOSED" /\ \A j \in 1 .. Len(told) : j > i => told[j] = "CLOSED"

LEMMA TurnsFit ==
  ASSUME NEW apps, NEW h, NEW C, NEW D, NEW Q, NEW S, NEW map, NEW next \in Nat, NEW running,
         HostFits(apps, h, C, Q, S, map, next, running),
         Q \in Seq(Indications(next)),
         \A q, r \in DOMAIN C : C[q].connId = C[r].connId => q = r,
         NEW p \in DOMAIN C, C[p].gate \in Nat, C[p].connId \in 1 .. next - 1,
         NEW new, NEW told \in Seq(Kinds), Turns(C, D, p, new), Speaks(C[p].fsm, new, told)
  PROVE  HostFits(apps, h, D, Heard(Q, C[p], told), S, map, next, running)
<1> DEFINE conn == C[p]
           R == Heard(Q, conn, told)
           m == Len(Q)
           n == Len(told)
<1>1. HearsFrom(R, Q, conn, told)
  BY HeardGives
<1>2. /\ m \in Nat /\ n \in Nat
      /\ \A i \in 1 .. Len(R) : \/ i \in 1 .. m /\ R[i] = Q[i]
                              \/ /\ i - m \in 1 .. n /\ R[i].gate = conn.gate
                                 /\ R[i].connId = conn.connId /\ R[i].kind = told[i - m]
  <2>1. m \in Nat /\ n \in Nat
    OBVIOUS
  <2>2. /\ Len(R) = m + n
        /\ \A i \in 1 .. m : R[i] = Q[i]
        /\ \A i \in 1 .. n : /\ R[m + i].gate = conn.gate /\ R[m + i].connId = conn.connId
                             /\ R[m + i].kind = told[i]
    BY <1>1 DEF HearsFrom
  <2> HIDE DEF R, m, n, conn
  <2>3. ASSUME NEW i \in 1 .. Len(R), i \notin 1 .. m
        PROVE  i - m \in 1 .. n /\ m + (i - m) = i
    BY <2>1, <2>2, <2>3
  <2> QED
    BY <2>1, <2>2, <2>3
<1>3. \A q \in DOMAIN D : OfApp(apps, h, D[q])
  BY DEF HostFits, Turns, Speaks, OfApp
<1>4. FailuresEnd(D, R)
  <2> SUFFICES ASSUME NEW i \in 1 .. Len(R), NEW q \in DOMAIN D, R[i].kind \in Failures,
                      R[i].connId = D[q].connId
               PROVE  D[q].fsm = "CLOSED"
    BY DEF FailuresEnd
  <2>1. q \in DOMAIN C /\ D[q].connId = C[q].connId
    BY DEF Turns
  <2>2. CASE i \in 1 .. m /\ R[i] = Q[i]
    <3>1. C[q].fsm = "CLOSED"
      BY <2>1, <2>2 DEF HostFits, FailuresEnd
    <3>2. q # p
      BY <3>1 DEF Speaks
    <3> QED
      BY <3>1, <3>2 DEF Turns
  <2>3. CASE i - m \in 1 .. n /\ R[i].connId = conn.connId /\ R[i].kind = told[i - m]
    <3>1. q = p
      BY <2>1, <2>3
    <3>2. new = "CLOSED"
      BY <2>3 DEF Speaks
    <3> QED
      BY <3>1, <3>2 DEF Turns
  <2> QED
    BY <1>2, <2>2, <2>3
<1>5. ASSUME NEW a \in DOMAIN apps, a[1] = h, running, apps[a].kind = "client"
      PROVE  OneCall(D, R, a[2], S[a])
  <2>1. OneCall(C, Q, a[2], S[a])
    BY <1>5 DEF HostFits
  <2>2. conn.gate = a[2] => conn.connId = S[a].connId /\ S[a].timer # "CONNECT"
    BY <2>1 DEF OneCall, Speaks
  <2>3. \A q \in DOMAIN D : D[q].gate = a[2] /\ D[q].fsm # "CLOSED" =>
           D[q].connId = S[a].connId /\ S[a].timer # "CONNECT"
    BY <2>1, <2>2 DEF OneCall, Turns
  <2>4. \A i \in 1 .. Len(R) : R[i].gate = a[2] => R[i].connId = S[a].connId
    BY <1>2, <2>1, <2>2 DEF OneCall
  <2>5. NoMore(R, a[2], S[a])
    <3> SUFFICES ASSUME NEW j \in 1 .. Len(R), R[j].gate = a[2], R[j].kind # "CLOSED"
                 PROVE  /\ S[a].timer # "CONNECT"
                        /\ \A i \in 1 .. j - 1 : R[i].gate = a[2] => R[i].kind \notin Failures
      BY DEF NoMore
    <3>1. ASSUME NEW i \in 1 .. j - 1
          PROVE  i \in 1 .. Len(R) /\ (j \in 1 .. m => i \in 1 .. m /\ i < j)
                 /\ (j - m \in 1 .. n /\ i - m \in 1 .. n => j - m > i - m)
      <4>1. Len(R) \in Nat
        BY <1>1, <1>2 DEF HearsFrom
      <4> HIDE DEF R, m, n
      <4> QED
        BY <1>2, <4>1
    <3>2. CASE j \in 1 .. m /\ R[j] = Q[j]
      <4>1. /\ S[a].timer # "CONNECT"
            /\ \A i \in 1 .. j - 1 : Q[i].gate = a[2] => Q[i].kind \notin Failures
        BY <2>1, <3>2 DEF OneCall, NoMore
      <4>2. ASSUME NEW i \in 1 .. j - 1
            PROVE  R[i] = Q[i]
        <5>1. i \in 1 .. m
          BY <3>1, <3>2
        <5> HIDE DEF R, m, n, conn
        <5> QED
          BY <1>1, <5>1 DEF HearsFrom, m
      <4> QED
        BY <4>1, <4>2
    <3>3. CASE j - m \in 1 .. n /\ R[j].gate = conn.gate /\ R[j].kind = told[j - m]
      <4>1. conn.gate = a[2] /\ S[a].timer # "CONNECT" /\ conn.fsm # "CLOSED"
        BY <2>2, <3>3 DEF Speaks
      <4>2. ASSUME NEW i \in 1 .. j - 1, R[i].gate = a[2], R[i].kind \in Failures
            PROVE  FALSE
        <5>1. CASE i \in 1 .. m /\ R[i] = Q[i]
          <6>1. Q[i].connId = conn.connId
            BY <2>1, <2>2, <4>1, <4>2, <5>1 DEF OneCall
          <6> QED
            BY <4>1, <4>2, <5>1, <6>1 DEF HostFits, FailuresEnd
        <5>2. CASE i - m \in 1 .. n /\ R[i].kind = told[i - m]
          <6>1. told[i - m] \in Failures /\ j - m > i - m
            BY <3>1, <3>3, <4>2, <5>2
          <6>2. told[j - m] = "CLOSED"
            BY <3>3, <5>2, <6>1 DEF Speaks
          <6> QED
            BY <3>3, <6>2
        <5> QED
          BY <1>2, <3>1, <5>1, <5>2
      <4> QED
        BY <4>1, <4>2
    <3> QED
      BY <1>2, <3>2, <3>3
  <2> QED
    BY <2>3, <2>4, <2>5 DEF OneCall
<1>6. ASSUME NEW a \in DOMAIN apps, a[1] = h, apps[a].kind = "threads"
      PROVE  ThreadsFit(D, R, map, a[2], next)
  <2> SUFFICES ASSUME NEW id \in 1 .. next - 1
               PROVE  WillServe(R, map, a[2], id) <=> IsServed(D, a[2], id)
    BY DEF ThreadsFit
  <2>1. WillServe(Q, map, a[2], id) <=> IsServed(C, a[2], id)
    BY <1>6 DEF HostFits, ThreadsFit
  <2>2. CASE conn.gate = a[2] /\ conn.connId = id
    <3>1. IsServed(D, a[2], id) <=> new \in Serving
      BY <2>2 DEF IsServed, Turns, Serving
    <3>2. IsServed(C, a[2], id) <=> conn.fsm \in Serving
      BY <2>2 DEF IsServed
    <3>3. IF told # <<>> THEN WillServe(R, map, a[2], id) <=> told[Len(told)] \notin Ended
          ELSE WillServe(R, map, a[2], id) <=> WillServe(Q, map, a[2], id)
      BY <2>2, HeardServes
    <3> QED
      BY <2>1, <3>1, <3>2, <3>3 DEF Speaks
  <2>3. CASE ~(conn.gate = a[2] /\ conn.connId = id)
    <3>1. \A q : q # p => (q \in DOMAIN D <=> q \in DOMAIN C) /\ (q \in DOMAIN D => D[q] = C[q])
      BY DEF Turns
    <3>2. p \in DOMAIN D => ~(D[p].gate = a[2] /\ D[p].connId = id)
      BY <2>3 DEF Turns
    <3>3. IsServed(D, a[2], id) <=> IsServed(C, a[2], id)
      BY <2>3, <3>1, <3>2 DEF IsServed
    <3>4. WillServe(R, map, a[2], id) <=> WillServe(Q, map, a[2], id)
      BY <2>3, HeardServes
    <3> QED
      BY <2>1, <3>3, <3>4
  <2> QED
    BY <2>2, <2>3
<1> QED
  BY <1>3, <1>4, <1>5, <1>6 DEF HostFits

\* Connections come, or nothing does: the new ones are not served yet, nobody has heard of
\* them, and a client knows its own.
IsNew(apps, h, conn, Q, S) ==
    /\ OfApp(apps, h, conn)
    /\ conn.fsm \notin Serving \cup {"CLOSED"}
    /\ \A i \in 1 .. Len(Q) : Q[i].kind \in Failures => Q[i].connId # conn.connId
    /\ LET a == <<h, conn.gate>>
       IN  apps[a].kind = "client" => conn.connId = S[a].connId /\ S[a].timer # "CONNECT"

LEMMA AddsFit ==
  ASSUME NEW apps, NEW h, NEW C, NEW D, NEW Q, NEW S, NEW map, NEW next \in Nat, NEW running,
         HostFits(apps, h, C, Q, S, map, next, running),
         \A a \in DOMAIN apps : a = <<a[1], a[2]>>,
         Q \in Seq(Indications(next)), DOMAIN map \subseteq 1 .. next - 1,
         \A p \in DOMAIN C : C[p].connId \in 1 .. next - 1,
         \A p \in DOMAIN D : \/ p \in DOMAIN C /\ D[p] = C[p]
                            \/ IsNew(apps, h, D[p], Q, S),
         \A p \in DOMAIN C : C[p].fsm \in Serving => p \in DOMAIN D /\ D[p] = C[p],
         NEW later \in Nat, next <= later
  PROVE  HostFits(apps, h, D, Q, S, map, later, running)
<1>1. \A q \in DOMAIN D : OfApp(apps, h, D[q])
  BY DEF HostFits, IsNew
<1>2. FailuresEnd(D, Q)
  <2>1. FailuresEnd(C, Q)
    BY DEF HostFits
  <2>2. ASSUME NEW i \in 1 .. Len(Q), NEW p \in DOMAIN D, Q[i].kind \in Failures,
               Q[i].connId = D[p].connId
        PROVE  D[p].fsm = "CLOSED"
    <3>1. CASE p \in DOMAIN C /\ D[p] = C[p]
      BY <2>1, <2>2, <3>1 DEF FailuresEnd
    <3>2. CASE IsNew(apps, h, D[p], Q, S)
      BY <2>2, <3>2 DEF IsNew
    <3> QED
      BY <3>1, <3>2
  <2> QED
    BY <2>2 DEF FailuresEnd
<1>3. ASSUME NEW a \in DOMAIN apps, a[1] = h, running, apps[a].kind = "client"
      PROVE  OneCall(D, Q, a[2], S[a])
  <2>1. OneCall(C, Q, a[2], S[a])
    BY <1>3 DEF HostFits
  <2>2. ASSUME NEW q \in DOMAIN D, D[q].gate = a[2], D[q].fsm # "CLOSED"
        PROVE  D[q].connId = S[a].connId /\ S[a].timer # "CONNECT"
    <3>1. <<h, D[q].gate>> = a
      BY <1>3, <2>2
    <3>2. CASE q \in DOMAIN C /\ D[q] = C[q]
      BY <2>1, <2>2, <3>2 DEF OneCall
    <3>3. CASE IsNew(apps, h, D[q], Q, S)
      BY <1>3, <3>1, <3>3 DEF IsNew
    <3> QED
      BY <3>2, <3>3
  <2> QED
    BY <2>1, <2>2 DEF OneCall
<1>4. ASSUME NEW a \in DOMAIN apps, a[1] = h, apps[a].kind = "threads"
      PROVE  ThreadsFit(D, Q, map, a[2], later)
  <2> SUFFICES ASSUME NEW id \in 1 .. later - 1
               PROVE  WillServe(Q, map, a[2], id) <=> IsServed(D, a[2], id)
    BY DEF ThreadsFit
  <2>1. IsServed(D, a[2], id) <=> IsServed(C, a[2], id)
    BY DEF IsServed, IsNew
  <2>2. CASE id \in 1 .. next - 1
    BY <1>4, <2>1, <2>2 DEF HostFits, ThreadsFit
  <2>3. CASE id \notin 1 .. next - 1
    <3>1. ~IsServed(C, a[2], id) /\ id \notin DOMAIN map
      BY <2>3 DEF IsServed
    <3>2. ASSUME NEW i \in 1 .. Len(Q)
          PROVE  ~About(Q[i], a[2], id)
      <4>1. Q[i] \in Indications(next)
        OBVIOUS
      <4> QED
        BY <2>3, <4>1 DEF Indications, About
    <3> QED
      BY <2>1, <3>1, <3>2 DEF WillServe
  <2> QED
    BY <2>2, <2>3
<1> QED
  BY <1>1, <1>2, <1>3, <1>4 DEF HostFits

\* A map of threads becomes new when the indication is taken.
Follows(map, new, indication, gate) ==
    \A id : IF About(indication, gate, id) THEN id \in DOMAIN new <=> indication.kind \notin Ended
            ELSE id \in DOMAIN new <=> id \in DOMAIN map

\* The sockets S and the threads of a host become U and new when the indication is taken.
Answers(apps, h, first, S, U, map, new) ==
    \A b \in DOMAIN apps : b[1] = h =>
        /\ apps[b].kind = "client" =>
              /\ U[b].connId = S[b].connId
              /\ U[b].timer = "CONNECT" =>
                    S[b].timer = "CONNECT" \/ (b[2] = first.gate /\ first.kind \in Failures)
        /\ apps[b].kind = "threads" => Follows(map, new, first, b[2])

LEMMA TakesFit ==
  ASSUME NEW apps, NEW h, NEW C, NEW Q, NEW S, NEW U, NEW map, NEW new, NEW next \in Nat,
         HostFits(apps, h, C, Q, S, map, next, TRUE),
         Q \in Seq(Indications(next)), Q # <<>>,
         Answers(apps, h, Head(Q), S, U, map, new)
  PROVE  /\ HostFits(apps, h, C, Tail(Q), U, new, next, TRUE)
         /\ HostFits(apps, h, C, Q, U, new, next, FALSE)
<1> DEFINE n == Len(Q)
           rest == Tail(Q)
           first == Head(Q)
<1>1. /\ n \in Nat \ {0} /\ first = Q[1] /\ Len(rest) = n - 1
      /\ \A i \in 1 .. n - 1 : rest[i] = Q[i + 1]
  BY TailGives
<1> HIDE DEF n, rest, first
<1>2. 1 \in 1 .. n /\ \A i \in 1 .. n - 1 : i + 1 \in 1 .. n
  BY <1>1
<1>3. \A i \in 1 .. Len(rest) : \E j \in 1 .. Len(Q) : rest[i] = Q[j]
  BY <1>1, <1>2 DEF n
<1>4. FailuresEnd(C, rest)
  <2>1. FailuresEnd(C, Q)
    BY DEF HostFits
  <2> QED
    BY <1>3, <2>1 DEF FailuresEnd
<1>5. ASSUME NEW b \in DOMAIN apps, b[1] = h, apps[b].kind = "client"
      PROVE  OneCall(C, rest, b[2], U[b])
  <2>1. OneCall(C, Q, b[2], S[b])
    BY <1>5 DEF HostFits
  <2>2. U[b].connId = S[b].connId
    BY <1>5 DEF Answers
  <2>3. \A i \in 1 .. Len(rest) : rest[i].gate = b[2] => rest[i].connId = U[b].connId
    BY <1>3, <2>1, <2>2 DEF OneCall
  <2>4. ASSUME NEW p \in DOMAIN C, C[p].gate = b[2], C[p].fsm # "CLOSED"
        PROVE  C[p].connId = U[b].connId /\ U[b].timer # "CONNECT"
    <3>1. C[p].connId = S[b].connId /\ S[b].timer # "CONNECT"
      BY <2>1, <2>4 DEF OneCall
    <3>2. ASSUME first.gate = b[2], first.kind \in Failures
          PROVE  FALSE
      <4>1. first.connId = S[b].connId
        BY <1>1, <1>2, <2>1, <3>2 DEF OneCall, n
      <4>2. C[p].fsm = "CLOSED"
        BY <1>1, <1>2, <3>1, <3>2, <4>1 DEF HostFits, FailuresEnd, n
      <4> QED
        BY <2>4, <4>2
    <3> QED
      BY <1>5, <2>2, <3>1, <3>2 DEF Answers, first
  <2>5. NoMore(rest, b[2], U[b])
    <3> SUFFICES ASSUME NEW j \in 1 .. Len(rest), rest[j].gate = b[2], rest[j].kind # "CLOSED"
                 PROVE  /\ U[b].timer # "CONNECT"
                        /\ \A i \in 1 .. j - 1 : rest[i].gate = b[2] => rest[i].kind \notin Failures
      BY DEF NoMore
    <3>1. /\ j + 1 \in 1 .. Len(Q) /\ rest[j] = Q[j + 1] /\ 1 \in 1 .. (j + 1) - 1
          /\ \A i \in 1 .. j - 1 : i + 1 \in 1 .. (j + 1) - 1 /\ rest[i] = Q[i + 1]
      BY <1>1, <1>2 DEF n
    <3>2. /\ S[b].timer # "CONNECT"
          /\ \A i \in 1 .. (j + 1) - 1 : Q[i].gate = b[2] => Q[i].kind \notin Failures
      BY <2>1, <3>1 DEF OneCall, NoMore
    <3>3. ~(first.gate = b[2] /\ first.kind \in Failures)
      BY <1>1, <3>1, <3>2
    <3>4. U[b].timer # "CONNECT"
      BY <1>5, <3>2, <3>3 DEF Answers, first
    <3> QED
      BY <3>1, <3>2, <3>4
  <2> QED
    BY <2>3, <2>4, <2>5 DEF OneCall
<1>6. ASSUME NEW b \in DOMAIN apps, b[1] = h, apps[b].kind = "threads"
      PROVE  ThreadsFit(C, rest, new, b[2], next) /\ ThreadsFit(C, Q, new, b[2], next)
  <2> SUFFICES ASSUME NEW id \in 1 .. next - 1
               PROVE  /\ WillServe(rest, new, b[2], id) <=> IsServed(C, b[2], id)
                      /\ WillServe(Q, new, b[2], id) <=> IsServed(C, b[2], id)
    BY DEF ThreadsFit
  <2>1. WillServe(Q, map, b[2], id) <=> IsServed(C, b[2], id)
    BY <1>6 DEF HostFits, ThreadsFit
  <2>2. IF About(Head(Q), b[2], id) THEN id \in DOMAIN new <=> Head(Q).kind \notin Ended
        ELSE id \in DOMAIN new <=> id \in DOMAIN map
    BY <1>6 DEF Answers, Follows
  <2>3. /\ WillServe(rest, new, b[2], id) <=> WillServe(Q, map, b[2], id)
        /\ WillServe(Q, new, b[2], id) <=> WillServe(Q, map, b[2], id)
    BY <2>2, TailServes DEF rest
  <2> QED
    BY <2>1, <2>3
<1>7. FailuresEnd(C, Q) /\ \A p \in DOMAIN C : OfApp(apps, h, C[p])
  BY DEF HostFits
<1> QED
  BY <1>4, <1>5, <1>6, <1>7 DEF HostFits, rest

----------------------------------------------------------------------------
(* Steps of hosts. *)

\* What a step does to the applications of h and their threads, before the connections follow.
Taken(h, queue, map) ==
    /\ threads' = [threads EXCEPT ![h] = map]
    /\ \A a \in DOMAIN world.apps :
          /\ a[1] # h => sockets'[a] = sockets[a]
          /\ AppKind(a) = "client" /\ sockets'[a].timer = "NONE" => sockets'[a].over
    /\ queue \in Seq(Indications(nextId))
    /\ HostFits(world.apps, h, tables[h].conns, queue, sockets', map, nextId, TRUE)
    /\ HostFits(world.apps, h, tables[h].conns, toApp[h], sockets', map, nextId, FALSE)

\* Applications that are told apart, and ids.
LEMMA AppsAre ==
  ASSUME HostsInv, TypesInv
  PROVE  /\ world \in Scenarios /\ nextId \in Nat \ {0}
         /\ DOMAIN sockets = DOMAIN world.apps
         /\ DOMAIN tables = Host /\ DOMAIN toApp = Host /\ DOMAIN threads = Host
         /\ \A a \in DOMAIN world.apps : a = <<a[1], a[2]>> /\ a[1] \in Host /\ a[2] \in Nat
         /\ \A h \in Host :
               /\ toApp[h] \in Seq(Indications(nextId))
               /\ DOMAIN threads[h] \subseteq 1 .. nextId - 1
               /\ \A p, q \in DOMAIN tables[h].conns :
                     tables[h].conns[p].connId = tables[h].conns[q].connId => p = q
               /\ \A p \in DOMAIN tables[h].conns :
                     /\ tables[h].conns[p].gate \in Nat
                     /\ tables[h].conns[p].connId \in 1 .. nextId - 1
                     /\ tables[h].conns[p].fsm \in States
                     /\ ListensOnly(tables[h].conns[p])
<1>1. /\ world \in Scenarios /\ nextId \in Nat \ {0}
      /\ DOMAIN sockets = DOMAIN world.apps
      /\ DOMAIN tables = Host /\ DOMAIN toApp = Host
  BY DEF HostsInv
<1>2. DOMAIN threads = Host
  BY DEF TypesInv
<1>3. \A a \in DOMAIN world.apps : a \in Host \X Nat
  BY <1>1, AppAt
<1>4. \A h \in Host : DOMAIN threads[h] \subseteq 1 .. nextId - 1
  BY DEF TypesInv
<1>5. ASSUME NEW h \in Host
      PROVE  /\ toApp[h] \in Seq(Indications(nextId)) /\ IdsApart(tables[h])
             /\ \A p \in DOMAIN tables[h].conns :
                   IsConnection(tables[h].conns[p], nextId) /\ ListensOnly(tables[h].conns[p])
  BY DEF HostsInv, HostOK, TablesOK
<1> QED
  BY <1>1, <1>2, <1>3, <1>4, <1>5 DEF IdsApart, IsConnection

\* The other hosts see ids grow, no more.
LEMMA OneHostFits ==
  ASSUME HostsInv, TypesInv, AppsInv, Running, NEW h \in Host, world' = world,
         NEW U, tables' = [tables EXCEPT ![h] = U],
         NEW queue, toApp' = [toApp EXCEPT ![h] = queue],
         NEW map, threads' = [threads EXCEPT ![h] = map],
         nextId' \in Nat, nextId <= nextId',
         \A a \in DOMAIN world.apps :
            /\ a[1] # h => sockets'[a] = sockets[a]
            /\ AppKind(a) = "client" /\ sockets'[a].timer = "NONE" => sockets'[a].over,
         HostFits(world.apps, h, U.conns, queue, sockets', map, nextId', Running')
  PROVE  AppsInv'
<1>1. /\ \A g \in Host \ {h} : tables'[g] = tables[g] /\ toApp'[g] = toApp[g]
                               /\ threads'[g] = threads[g]
      /\ tables'[h] = U /\ toApp'[h] = queue /\ threads'[h] = map
  BY AppsAre
<1>2. ASSUME NEW g \in Host, g # h
      PROVE  HostFits(world.apps, g, tables[g].conns, toApp[g], sockets', threads[g], nextId',
                      Running')
  <2> DEFINE apps == world.apps
             C == tables[g].conns
             Q == toApp[g]
             S == sockets
             m == threads[g]
             n == nextId
  <2>1. HostFits(apps, g, C, Q, S, m, n, TRUE)
    BY DEF AppsInv
  <2>2. /\ n \in Nat /\ Q \in Seq(Indications(n)) /\ DOMAIN m \subseteq 1 .. n - 1
        /\ \A p \in DOMAIN C : C[p].connId \in 1 .. n - 1
        /\ \A a \in DOMAIN apps : a = <<a[1], a[2]>>
    BY AppsAre
  <2>3. \A a \in DOMAIN apps : a[1] = g => sockets'[a] = S[a]
    BY <1>2
  <2>4. nextId' \in Nat /\ n <= nextId'
    OBVIOUS
  <2> HIDE DEF apps, C, Q, S, m, n
  <2>5. HostFits(apps, g, C, Q, S, m, nextId', TRUE)
    BY <2>1, <2>2, <2>4, AddsFit
  <2>6. HostFits(apps, g, C, Q, sockets', m, nextId', Running')
    BY <2>3, <2>5 DEF HostFits
  <2> QED
    BY <2>6 DEF apps, C, Q, m
<1>3. \A g \in Host : HostFits(world'.apps, g, tables'[g].conns, toApp'[g], sockets', threads'[g],
                              nextId', Running')
  BY <1>1, <1>2
<1>4. \A a \in DOMAIN world'.apps : AppKind(a)' = AppKind(a)
  BY DEF AppKind
<1> QED
  BY <1>3, <1>4 DEF AppsInv

\* A failure ends all.
LEMMA FailFits ==
  ASSUME HostsInv, TypesInv, AppsInv, Running, NEW h \in Host, NEW queue, NEW map,
         Taken(h, queue, map), NEW reason, reason # "none", Fail(reason, h)
  PROVE  AppsInv'
<1> DEFINE U == tables[h]
           Q == toApp[h]
<1>1. tables' = [tables EXCEPT ![h] = U] /\ toApp' = [toApp EXCEPT ![h] = Q]
  BY DEF HostsInv, Fail
<1>2. /\ HostFits(world.apps, h, U.conns, Q, sockets', map, nextId', Running')
      /\ world' = world /\ nextId' = nextId /\ nextId \in Nat
  <2>1. Running' = FALSE
    BY DEF Fail, Running
  <2> QED
    BY <2>1, AppsAre DEF Taken, Fail
<1> HIDE DEF U, Q
<1>3. /\ threads' = [threads EXCEPT ![h] = map]
      /\ \A a \in DOMAIN world.apps :
            /\ a[1] # h => sockets'[a] = sockets[a]
            /\ AppKind(a) = "client" /\ sockets'[a].timer = "NONE" => sockets'[a].over
  BY DEF Taken
<1>4. nextId' \in Nat /\ nextId <= nextId'
  BY <1>2
<1> QED
  BY <1>1, <1>2, <1>3, <1>4, OneHostFits

LEMMA PerformFits ==
  ASSUME HostsInv, TypesInv, AppsInv, Running, NEW h \in Host, NEW queue, NEW map,
         Taken(h, queue, map), NEW p \in DOMAIN tables[h].conns,
         NEW event, NEW sends, NEW tells \in Seq(Kinds), NEW armed, NEW st, NEW gone, NEW removes,
         LET fsm == tables[h].conns[p].fsm
             new == NextState(fsm, event)
         IN  Speaks(fsm, new, tells \o EntryTells(fsm, new, event)),
         Perform(h, p, event, sends, tells, armed, st, queue, gone, removes)
  PROVE  AppsInv'
<1> DEFINE C == tables[h].conns
           conn == C[p]
           new == NextState(conn.fsm, event)
           told == tells \o EntryTells(conn.fsm, new, event)
           after == IF sends = {} THEN st ELSE UpdateRcvWnd(st)
           U == tables'[h]
           R == Heard(queue, conn, told)
<1>1. CASE Fail("WINDOW", h) \/ Fail("NO_PEER", h)
  BY <1>1, FailFits
<1>2. CASE Performs(h, p, event, sends, told, after, queue, gone)
  <2>1. /\ world' = world /\ nextId' = nextId /\ error' = error
        /\ Moved(C, U.conns, p, new, after)
        /\ tables' = [tables EXCEPT ![h] = U]
        /\ toApp' = [toApp EXCEPT ![h] = R]
    BY <1>2 DEF Performs
  <2>2. told \in Seq(Kinds)
    <3>1. EntryTells(conn.fsm, new, event) \in Seq(Kinds)
      BY TellsOnEntry
    <3> HIDE DEF new, conn
    <3> QED
      BY <3>1, ConcatProperties
  <2>3. Speaks(conn.fsm, new, told)
    OBVIOUS
  <2>4. /\ nextId \in Nat
        /\ \A q, r \in DOMAIN C : C[q].connId = C[r].connId => q = r
        /\ conn.gate \in Nat /\ conn.connId \in 1 .. nextId - 1
    BY AppsAre
  <2> HIDE DEF new, told, after
  <2>5. Turns(C, U.conns, p, new)
    BY <2>1 DEF Moved, Turns
  <2>6. queue \in Seq(Indications(nextId))
        /\ HostFits(world.apps, h, C, queue, sockets', map, nextId, TRUE)
    BY DEF Taken
  <2> HIDE DEF U, C
  <2>7. HostFits(world.apps, h, U.conns, R, sockets', map, nextId, TRUE)
    BY <2>2, <2>3, <2>4, <2>5, <2>6, TurnsFit DEF C
  <2>8. Running' = TRUE
    BY <2>1 DEF Running
  <2>9. HostFits(world.apps, h, U.conns, R, sockets', map, nextId', Running')
    BY <2>1, <2>7, <2>8
  <2> HIDE DEF R
  <2>10. nextId' \in Nat /\ nextId <= nextId'
    BY <2>1, <2>4
  <2>11. /\ threads' = [threads EXCEPT ![h] = map]
         /\ \A a \in DOMAIN world.apps :
               /\ a[1] # h => sockets'[a] = sockets[a]
               /\ AppKind(a) = "client" /\ sockets'[a].timer = "NONE" => sockets'[a].over
    BY DEF Taken
  <2> QED
    BY <2>1, <2>9, <2>10, <2>11, OneHostFits
<1> QED
  BY <1>1, <1>2, PerformDoes

\* What the state machine tells is as it should be, unless an application closes a
\* connection that waits, of which it does not know.
LEMMA SaysOne ==
  ASSUME NEW old, NEW new, NEW kind, old # "CLOSED", new # "INIT",
         new \in Serving <=> kind \notin Ended, kind \in Failures => new = "CLOSED"
  PROVE  Speaks(old, new, <<kind>>)
<1>1. Len(<<kind>>) = 1 /\ <<kind>>[1] = kind /\ <<kind>> # <<>>
  OBVIOUS
<1> QED
  BY <1>1 DEF Speaks

LEMMA SaysNothing ==
  ASSUME NEW old, NEW new, old # "CLOSED", new # "INIT", new \in Serving <=> old \in Serving
  PROVE  Speaks(old, new, <<>>)
<1>1. Len(<<>>) = 0
  OBVIOUS
<1> QED
  BY <1>1 DEF Speaks

PlainEvents ==
    {"CLOSE", "IGNORE", "TIMEOUT_CONN_ESTAB", "TIMEOUT_2MSL", "RCV_FIN", "RCV_ACK", "RCV_RST"}

LEMMA EntrySpeaks ==
  ASSUME NEW state \in States \ {"CLOSED", "INIT"}, NEW event \in PlainEvents,
         event = "CLOSE" => state \notin Waiting,
         event = "RCV_ACK" => state # "SYN_RCVD"
  PROVE  LET new == NextState(state, event)
         IN  Speaks(state, new, EntryTells(state, new, event))
<1> DEFINE new == NextState(state, event)
           told == EntryTells(state, new, event)
<1>1. /\ new # "INIT"
      /\ \/ told = <<>> /\ (new \in Serving <=> state \in Serving)
         \/ told = <<"PEER_CLOSED">> /\ new \in Serving
         \/ told = <<"CLOSED">> /\ new \notin Serving
  BY SMTT(20) DEF NextState, Moves, States, EntryTells, PlainEvents, Waiting, Serving
<1> HIDE DEF new, told
<1>2. /\ "PEER_CLOSED" \notin Ended /\ "PEER_CLOSED" \notin Failures
      /\ "CLOSED" \in Ended /\ "CLOSED" \notin Failures
  BY DEF Ended, Failures
<1>3. CASE told = <<>>
  BY <1>1, <1>3, SaysNothing DEF new, told
<1>4. CASE told = <<"PEER_CLOSED">>
  BY <1>1, <1>2, <1>4, SaysOne DEF new, told
<1>5. CASE told = <<"CLOSED">>
  BY <1>1, <1>2, <1>5, SaysOne DEF new, told
<1> QED
  BY <1>1, <1>3, <1>4, <1>5

\* What the handlers tell on top of that.
MayTell(state, event, tells) ==
    \/ /\ tells = <<>>
       /\ event \in PlainEvents
       /\ event = "CLOSE" => state \notin Waiting
       /\ event = "RCV_ACK" => state # "SYN_RCVD"
    \/ tells = <<"ESTABLISHED">> /\ event = "RCV_ACK" /\ state = "SYN_RCVD"
    \/ tells = <<"CONNECTION_RESET">> /\ event = "RCV_RST" /\ state = "SYN_SENT"
    \/ tells = <<"TIMED_OUT">> /\ event = "ABORT"

LEMMA HandlersSpeak ==
  ASSUME NEW state \in States \ {"CLOSED", "INIT"}, NEW event, NEW tells,
         MayTell(state, event, tells)
  PROVE  LET new == NextState(state, event)
         IN  tells \in Seq(Kinds) /\ Speaks(state, new, tells \o EntryTells(state, new, event))
<1> DEFINE new == NextState(state, event)
           entry == EntryTells(state, new, event)
<1>1. CASE tells = <<>>
  <2>1. Speaks(state, new, entry)
    BY <1>1, EntrySpeaks DEF MayTell
  <2>2. entry \in Seq(Kinds)
    BY TellsOnEntry
  <2> HIDE DEF new, entry
  <2>3. <<>> \o entry = entry /\ <<>> \in Seq(Kinds)
    BY <2>2, ConcatEmptySeq
  <2> QED
    BY <1>1, <2>1, <2>3 DEF entry, new
<1>2. CASE tells = <<"ESTABLISHED">>
  <2>1. event = "RCV_ACK" /\ state = "SYN_RCVD"
    BY <1>2 DEF MayTell
  <2>2. new = "ESTABLISHED" /\ entry = <<>>
    BY <2>1 DEF NextState, Moves, EntryTells
  <2> HIDE DEF new, entry
  <2>3. tells \o entry = tells /\ tells \in Seq(Kinds)
    BY <1>2, <2>2 DEF Kinds
  <2>4. Speaks(state, new, tells)
    BY <1>2, <2>1, <2>2, SaysOne DEF Serving, Ended, Failures
  <2> QED
    BY <2>3, <2>4 DEF new, entry
<1>3. CASE tells = <<"CONNECTION_RESET">>
  <2>1. event = "RCV_RST" /\ state = "SYN_SENT"
    BY <1>3 DEF MayTell
  <2>2. new = "CLOSED" /\ entry = <<"CLOSED">>
    BY <2>1 DEF NextState, Moves, EntryTells
  <2> HIDE DEF new, entry
  <2> DEFINE two == tells \o entry
  <2>3. /\ tells \in Seq(Kinds) /\ entry \in Seq(Kinds)
        /\ Len(tells) = 1 /\ Len(entry) = 1 /\ entry[1] = "CLOSED"
    BY <1>3, <2>2 DEF Kinds
  <2>4. /\ Len(two) = 2 /\ two[2] = "CLOSED" /\ two # <<>>
        /\ \A i, j \in 1 .. Len(two) : j > i => two[j] = "CLOSED"
    <3>1. Len(two) = 1 + 1 /\ two[2] = IF 2 <= 1 THEN tells[2] ELSE entry[2 - 1]
      BY <2>3, ConcatProperties, SMTT(20)
    <3> HIDE DEF two
    <3>2. 2 - 1 = 1 /\ 1 + 1 = 2 /\ ~(2 <= 1)
      OBVIOUS
    <3>3. Len(two) = 2 /\ two[2] = "CLOSED"
      BY <2>3, <3>1, <3>2
    <3>4. Len(<<>>) = 0
      OBVIOUS
    <3>5. \A i, j \in 1 .. 2 : j > i => j = 2
      OBVIOUS
    <3> QED
      BY <3>3, <3>4, <3>5
  <2> HIDE DEF two
  <2>5. Speaks(state, new, two)
    BY <2>1, <2>2, <2>4 DEF Speaks, Serving, Ended
  <2> QED
    BY <2>3, <2>5 DEF new, entry, two
<1>4. CASE tells = <<"TIMED_OUT">>
  <2>1. event = "ABORT"
    BY <1>4 DEF MayTell
  <2>2. new = "CLOSED" /\ entry = <<>>
    BY <2>1 DEF NextState, EntryTells
  <2> HIDE DEF new, entry
  <2>3. tells \o entry = tells /\ tells \in Seq(Kinds)
    BY <1>4, <2>2 DEF Kinds
  <2>4. Speaks(state, new, tells)
    BY <1>4, <2>2, SaysOne DEF Serving, Ended, Failures
  <2> QED
    BY <2>3, <2>4 DEF new, entry
<1> QED
  BY <1>1, <1>2, <1>3, <1>4 DEF MayTell

LEMMA EventFits ==
  ASSUME HostsInv, TypesInv, AppsInv, Running, NEW h \in Host, NEW queue, NEW map,
         Taken(h, queue, map), NEW p \in DOMAIN tables[h].conns,
         tables[h].conns[p].fsm # "CLOSED",
         NEW event, NEW sends, NEW tells, NEW armed, NEW st, NEW gone, NEW removes,
         MayTell(tables[h].conns[p].fsm, event, tells),
         Perform(h, p, event, sends, tells, armed, st, queue, gone, removes)
  PROVE  AppsInv'
<1> DEFINE state == tables[h].conns[p].fsm
           new == NextState(state, event)
<1>1. state \in States \ {"CLOSED", "INIT"}
  <2>1. state # "INIT"
    BY DEF AppsInv, HostFits, OfApp
  <2> QED
    BY <2>1, AppsAre
<1> HIDE DEF state
<1>2. tells \in Seq(Kinds) /\ Speaks(state, new, tells \o EntryTells(state, new, event))
  BY <1>1, HandlersSpeak DEF state
<1> QED
  BY <1>2, PerformFits DEF state

\* An application closes what it has been told about.
LEMMA CloseFits ==
  ASSUME HostsInv, TypesInv, AppsInv, Running, NEW h \in Host, NEW queue, NEW map,
         Taken(h, queue, map), NEW gate, NEW connId,
         \A p \in DOMAIN tables[h].conns : tables[h].conns[p].fsm \in Waiting =>
            connId # tables[h].conns[p].connId,
         Close(h, gate, connId, queue)
  PROVE  AppsInv'
<1> DEFINE T == tables[h]
           p == FindConnForApp(T, gate, connId)
           conn == T.conns[p]
           early == conn.fsm \in {"LISTEN", "SYN_SENT"}
           sends == IF early THEN {} ELSE {"FIN"}
           armed == IF early THEN conn.timers ELSE conn.timers \cup {"REXMIT"}
           st == conn.st
           event == "CLOSE"
           tells == <<>>
           gone == {}
<1>1. CASE ~up[h]
  <2>1. /\ tables' = tables /\ toApp' = [toApp EXCEPT ![h] = queue]
        /\ world' = world /\ nextId' = nextId /\ error' = error
    BY <1>1 DEF Close
  <2>2. tables' = [tables EXCEPT ![h] = T]
    BY <2>1 DEF HostsInv
  <2>3. /\ threads' = [threads EXCEPT ![h] = map]
        /\ \A a \in DOMAIN world.apps :
              /\ a[1] # h => sockets'[a] = sockets[a]
              /\ AppKind(a) = "client" /\ sockets'[a].timer = "NONE" => sockets'[a].over
        /\ HostFits(world.apps, h, T.conns, queue, sockets', map, nextId, TRUE)
    BY DEF Taken
  <2> HIDE DEF T
  <2>4. Running' = TRUE
    BY <2>1 DEF Running
  <2>5. nextId' \in Nat /\ nextId <= nextId'
    BY <2>1, AppsAre
  <2>6. HostFits(world.apps, h, T.conns, queue, sockets', map, nextId', Running')
    BY <2>1, <2>3, <2>4
  <2> QED
    BY <2>1, <2>2, <2>3, <2>5, <2>6, OneHostFits
<1>2. CASE \E reason : reason # "none" /\ Fail(reason, h)
  BY <1>2, FailFits
<1>3. CASE up[h] /\ ~\E reason : reason # "none" /\ Fail(reason, h)
  <2>1. /\ p # NoConn /\ conn.fsm # "CLOSED"
        /\ Perform(h, p, event, sends, tells, armed, st, queue, gone, TRUE)
    BY <1>3 DEF Close
  <2>2. p \in DOMAIN T.conns /\ conn.connId = connId
    <3>1. <<gate, connId>> \in DOMAIN T.apps /\ p = T.apps[<<gate, connId>>]
      BY <2>1 DEF FindConnForApp
    <3>2. AppsAgree(T)
      BY DEF HostsInv, HostOK, TablesOK
    <3> HIDE DEF p
    <3> QED
      BY <3>1, <3>2 DEF AppsAgree
  <2>3. MayTell(conn.fsm, event, tells)
    BY <2>2 DEF MayTell, PlainEvents
  <2> HIDE DEF p, sends, armed, st, event, tells, gone
  <2> QED
    BY <2>1, <2>2, <2>3, EventFits
<1> QED
  BY <1>1, <1>2, <1>3

\* A step of a host that its applications take no part in.
LEMMA NobodyTakes ==
  ASSUME HostsInv, TypesInv, AppsInv, Running, NEW h \in Host, UNCHANGED appVars
  PROVE  Taken(h, toApp[h], threads[h])
<1>1. threads' = threads /\ sockets' = sockets
  BY DEF appVars
<1>2. threads' = [threads EXCEPT ![h] = threads[h]]
  BY <1>1 DEF TypesInv
<1>3. /\ HostFits(world.apps, h, tables[h].conns, toApp[h], sockets, threads[h], nextId, TRUE)
      /\ \A a \in DOMAIN world.apps :
            AppKind(a) = "client" /\ sockets[a].timer = "NONE" => sockets[a].over
  BY DEF AppsInv
<1>4. HostFits(world.apps, h, tables[h].conns, toApp[h], sockets, threads[h], nextId, FALSE)
  BY <1>3 DEF HostFits
<1>5. toApp[h] \in Seq(Indications(nextId))
  BY AppsAre
<1> QED
  BY <1>1, <1>2, <1>3, <1>4, <1>5 DEF Taken

LEMMA OneMore ==
  ASSUME NEW next \in Nat, NEW queue \in Seq(Indications(next)), NEW conn,
         conn.gate \in Nat, conn.connId \in 1 .. next - 1, NEW kind \in Kinds
  PROVE  Append(queue, Indication(conn, kind)) = Heard(queue, conn, <<kind>>)
<1> DEFINE i == Indication(conn, kind)
           new == [j \in 1 .. Len(<<kind>>) |-> Indication(conn, <<kind>>[j])]
<1>1. i \in Indications(next)
  BY DEF Indication, Indications
<1> HIDE DEF i
<1>2. new = <<i>>
  BY DEF i
<1> HIDE DEF new
<1>3. Append(queue, i) = queue \o <<i>>
  BY <1>1, AppendIsConcat
<1> QED
  BY <1>2, <1>3 DEF Heard, new, i

\* A connection that turns, and tells one thing.
LEMMA ToldFits ==
  ASSUME HostsInv, TypesInv, AppsInv, Running, NEW h \in Host, UNCHANGED appVars,
         UNCHANGED <<world, nextId, error>>,
         NEW p \in DOMAIN tables[h].conns, NEW new, NEW kind \in Kinds,
         NEW U, tables' = [tables EXCEPT ![h] = U], Turns(tables[h].conns, U.conns, p, new),
         toApp' = [toApp EXCEPT ![h] = Append(@, Indication(tables[h].conns[p], kind))],
         Speaks(tables[h].conns[p].fsm, new, <<kind>>)
  PROVE  AppsInv'
<1> DEFINE C == tables[h].conns
           D == U.conns
           conn == C[p]
           Q == toApp[h]
           told == <<kind>>
           R == Heard(Q, conn, told)
           map == threads[h]
<1>1. /\ nextId \in Nat /\ Q \in Seq(Indications(nextId)) /\ DOMAIN toApp = Host
      /\ \A q, r \in DOMAIN C : C[q].connId = C[r].connId => q = r
      /\ conn.gate \in Nat /\ conn.connId \in 1 .. nextId - 1
  BY AppsAre
<1>2. toApp' = [toApp EXCEPT ![h] = R]
  <2>1. Append(Q, Indication(conn, kind)) = R
    <3> HIDE DEF Q, conn
    <3> QED
      BY <1>1, OneMore
  <2>2. toApp' = [toApp EXCEPT ![h] = Append(Q, Indication(conn, kind))]
    OBVIOUS
  <2> HIDE DEF R, Q, conn
  <2> QED
    BY <2>1, <2>2
<1>3. Taken(h, Q, map)
  BY NobodyTakes
<1>4. /\ threads' = [threads EXCEPT ![h] = map]
      /\ \A a \in DOMAIN world.apps :
            /\ a[1] # h => sockets'[a] = sockets[a]
            /\ AppKind(a) = "client" /\ sockets'[a].timer = "NONE" => sockets'[a].over
      /\ HostFits(world.apps, h, C, Q, sockets', map, nextId, TRUE)
  BY <1>3 DEF Taken
<1>5. told \in Seq(Kinds) /\ Speaks(conn.fsm, new, told) /\ Turns(C, D, p, new)
  OBVIOUS
<1> HIDE DEF C, D, Q, map, told
<1>6. HostFits(world.apps, h, D, R, sockets', map, nextId, TRUE)
  BY <1>1, <1>4, <1>5, TurnsFit DEF C
<1>7. /\ HostFits(world.apps, h, D, R, sockets', map, nextId', Running')
      /\ nextId' \in Nat /\ nextId <= nextId'
  <2>1. nextId' = nextId /\ Running' = TRUE
    BY DEF Running
  <2> HIDE DEF R
  <2>2. HostFits(world.apps, h, D, R, sockets', map, nextId', Running')
    BY <1>6, <2>1
  <2>3. nextId' \in Nat /\ nextId <= nextId'
    BY <1>1, <2>1
  <2> QED
    BY <2>2, <2>3
<1> HIDE DEF R
<1> QED
  BY <1>2, <1>4, <1>7, OneHostFits DEF D

LEMMA LastSymbolFits ==
  ASSUME HostsInv, TypesInv, AppsInv, NEW h \in Host, NEW p, LastSymbol(h, p)
  PROVE  AppsInv'
<1> DEFINE T == tables[h]
           conn == T.conns[p]
           changed == [conn EXCEPT !.done = TRUE]
           conns == [T.conns EXCEPT ![p] = changed]
           U == [T EXCEPT !.conns[p].done = TRUE]
           kind == "PEER_CLOSED"
           new == "ESTABLISHED"
<1>1. /\ p \in DOMAIN T.conns /\ conn.fsm = "ESTABLISHED" /\ Running
      /\ tables' = [tables EXCEPT ![h].conns[p].done = TRUE]
      /\ toApp' = [toApp EXCEPT ![h] = Append(@, Indication(conn, kind))]
      /\ UNCHANGED <<world, nextId, error>> /\ UNCHANGED appVars
  BY DEF LastSymbol, appVars
<1>2. "conns" \in DOMAIN T /\ DOMAIN conn = Fields
  BY <1>1, ConnsOf
<1>3. tables' = [tables EXCEPT ![h] = U]
  BY <1>1
<1>4. U.conns = conns
  BY <1>2
<1> HIDE DEF U
<1>5. /\ changed.pair = conn.pair /\ changed.fsm = conn.fsm
      /\ changed.gate = conn.gate /\ changed.connId = conn.connId
  BY <1>2 DEF Fields
<1> HIDE DEF changed
<1>6. /\ DOMAIN conns = DOMAIN T.conns /\ conns[p] = changed
      /\ \A q \in DOMAIN T.conns \ {p} : conns[q] = T.conns[q]
  BY <1>1
<1> HIDE DEF conns, new, kind
<1>7. Turns(T.conns, conns, p, new)
  BY <1>1, <1>5, <1>6 DEF Turns, new
<1>8. kind \in Kinds /\ Speaks(conn.fsm, new, <<kind>>)
  BY <1>1, SaysOne DEF kind, new, Kinds, Serving, Ended, Failures
<1> QED
  BY <1>1, <1>3, <1>4, <1>7, <1>8, ToldFits

LEMMA NothingFits ==
  ASSUME AppsInv, UNCHANGED <<world, tables, toApp, sockets, threads, nextId, error>>
  PROVE  AppsInv'
<1>1. Running' = Running /\ \A a \in DOMAIN world.apps : AppKind(a)' = AppKind(a)
  BY DEF Running, AppKind
<1>2. /\ world' = world /\ tables' = tables /\ toApp' = toApp /\ sockets' = sockets
      /\ threads' = threads /\ nextId' = nextId
  OBVIOUS
<1> HIDE DEF Running
<1> QED
  BY <1>1, <1>2 DEF AppsInv

LEMMA SynSentFits ==
  ASSUME HostsInv, TypesInv, AppsInv, NEW h \in Host, NEW s \in wire, s.dst = h,
         NEW p \in DOMAIN tables[h].conns, RcvInSynSent(h, s, p)
  PROVE  AppsInv'
<1> DEFINE T == tables[h]
           conn == T.conns[p]
           pair == SockPair(h, s.src, s.destPort, s.srcPort)
           V == UpdateSockPair(T, p, pair)
           moved == V.conns[p]
           st == UpdateRcvWnd(ReadOptions(UpdateSndWnd(moved.st, s.window), s.opts))
           fsm == NextState(moved.fsm, "RCV_SYN_ACK")
           changed == [moved EXCEPT !.fsm = fsm, !.st = st]
           conns == [V.conns EXCEPT ![p] = changed]
           U == [V EXCEPT !.conns[p].fsm = fsm, !.conns[p].st = st]
           queue == toApp[h]
           map == threads[h]
           kind == "ESTABLISHED"
           new == "ESTABLISHED"
<1>1. /\ TablesOK(T, nextId) /\ nextId \in Nat /\ s.src \in Host
      /\ "conns" \in DOMAIN T /\ DOMAIN conn = Fields /\ p # NoConn
  BY ConnsOf DEF HostsInv, HostOK
<1>2. /\ p = FindConnForSegment(T, s.src, h, s.srcPort, s.destPort)
      /\ conn.fsm = "SYN_SENT" /\ Running /\ UNCHANGED appVars
  BY DEF RcvInSynSent, Arrives
<1>3. conn.pair.localPort = s.destPort
  <2> HIDE DEF T
  <2> QED
    BY <1>1, <1>2, FoundConn DEF T
<1>4. pair.localPort = s.destPort
  BY DEF SockPair
<1> HIDE DEF pair, st
<1>5. /\ "conns" \in DOMAIN V
      /\ DOMAIN V.conns = DOMAIN T.conns
      /\ moved = WithPair(conn, pair)
      /\ \A q \in DOMAIN T.conns \ {p} : V.conns[q] = T.conns[q]
  <2>1. p \in DOMAIN T.conns
    OBVIOUS
  <2> HIDE DEF T
  <2> QED
    BY <1>1, <2>1, MovedConns DEF conn
<1>6. /\ DOMAIN moved = Fields /\ moved.pair = pair /\ moved.fsm = conn.fsm
      /\ moved.gate = conn.gate /\ moved.connId = conn.connId
  <2> HIDE DEF V
  <2>1. moved = [conn EXCEPT !.pair = pair]
    BY <1>5 DEF WithPair
  <2> HIDE DEF conn, moved
  <2> QED
    BY <1>1, <2>1 DEF Fields, conn
<1>7. Taken(h, queue, map)
  BY <1>2, NobodyTakes
<1>8. CASE \E reason : reason # "none" /\ Fail(reason, h)
  BY <1>2, <1>7, <1>8, FailFits
<1>9. CASE s.kind = "SYNACK" /\ ~\E reason : reason # "none" /\ Fail(reason, h)
  <2>1. /\ tables' = [tables EXCEPT ![h] = U]
        /\ toApp' = [toApp EXCEPT ![h] = Append(@, Indication(moved, kind))]
        /\ UNCHANGED <<world, nextId, error>>
    BY <1>9 DEF RcvInSynSent, pair, st
  <2>2. Indication(moved, kind) = Indication(conn, kind)
    BY <1>6 DEF Indication
  <2>3. fsm = new
    BY <1>2, <1>6 DEF NextState, Moves
  <2> HIDE DEF fsm, conn, kind, new
  <2>4. U.conns = conns
    <3> HIDE DEF V
    <3> QED
      BY <1>5
  <2> HIDE DEF U, moved
  <2>5. /\ changed.pair = pair /\ changed.fsm = new
        /\ changed.gate = conn.gate /\ changed.connId = conn.connId
    BY <1>6, <2>3 DEF Fields
  <2> HIDE DEF changed, V
  <2>6. /\ DOMAIN conns = DOMAIN T.conns /\ conns[p] = changed
        /\ \A q \in DOMAIN T.conns \ {p} : conns[q] = T.conns[q]
    BY <1>5
  <2> HIDE DEF conns
  <2>7. Turns(T.conns, conns, p, new)
    BY <1>3, <1>4, <2>5, <2>6 DEF Turns, conn
  <2>8. kind \in Kinds /\ Speaks(conn.fsm, new, <<kind>>)
    BY <1>2, SaysOne DEF kind, new, Kinds, Serving, Ended, Failures
  <2>9. toApp' = [toApp EXCEPT ![h] = Append(@, Indication(conn, kind))]
    BY <2>1, <2>2
  <2> QED
    BY <1>2, <2>1, <2>4, <2>7, <2>8, <2>9, ToldFits DEF conn
<1>10. CASE s.kind # "SYNACK" /\ ~\E reason : reason # "none" /\ Fail(reason, h)
  <2> DEFINE gone == {s}
             armed == moved.timers
             none == {}
             old == moved.st
             reset == <<"CONNECTION_RESET">>
             quiet == <<>>
  <2>1. \/ Perform(h, p, "RCV_RST", none, reset, armed, old, queue, gone, TRUE)
        \/ Perform(h, p, "IGNORE", none, quiet, armed, old, queue, gone, TRUE)
    BY <1>10 DEF RcvInSynSent, pair, st
  <2>2. MayTell(conn.fsm, "RCV_RST", reset) /\ MayTell(conn.fsm, "IGNORE", quiet)
        /\ conn.fsm # "CLOSED"
    BY <1>2 DEF MayTell, PlainEvents
  <2> HIDE DEF old, queue, gone, armed, none, reset, quiet, map
  <2>3. ASSUME NEW event, NEW tells, MayTell(conn.fsm, event, tells),
               Perform(h, p, event, none, tells, armed, old, queue, gone, TRUE)
        PROVE  AppsInv'
    BY <1>2, <1>7, <2>2, <2>3, EventFits
  <2> QED
    BY <2>1, <2>2, <2>3
<1> QED
  BY <1>8, <1>9, <1>10

LEMMA ElsewhereFits ==
  ASSUME HostsInv, TypesInv, AppsInv, NEW h \in Host, NEW s \in wire,
         NEW p \in DOMAIN tables[h].conns, RcvElsewhere(h, s, p)
  PROVE  AppsInv'
<1> DEFINE conn == tables[h].conns[p]
           o == CASE s.kind = "FIN" -> FinOutcome(conn.fsm, conn.timers)
                  [] s.kind # "FIN" /\ conn.fsm = "ESTABLISHED" ->
                        Outcome("IGNORE", <<>>, <<>>, conn.timers)
                  [] OTHER -> OtherOutcome(conn.fsm, conn.timers)
           sends == {o.sends[i] : i \in 1 .. Len(o.sends)}
           event == o.event
           tells == o.tells
           armed == o.timers
           st == conn.st
           queue == toApp[h]
           map == threads[h]
           gone == {s}
<1>1. /\ conn.fsm \notin {"SYN_SENT", "CLOSED"} /\ Running /\ UNCHANGED appVars
      /\ Perform(h, p, event, sends, tells, armed, st, queue, gone, TRUE)
  BY DEF RcvElsewhere, Arrives
<1>2. \/ o = FinOutcome(conn.fsm, conn.timers)
      \/ o = Outcome("IGNORE", <<>>, <<>>, conn.timers)
      \/ o = OtherOutcome(conn.fsm, conn.timers)
  OBVIOUS
<1> HIDE DEF o
<1>3. MayTell(conn.fsm, event, tells)
  BY <1>2 DEF FinOutcome, OtherOutcome, Outcome, MayTell, PlainEvents, Waiting
<1>4. Taken(h, queue, map)
  BY <1>1, NobodyTakes
<1> HIDE DEF event, tells, armed, st, queue, gone, sends, map
<1> QED
  BY <1>1, <1>3, <1>4, EventFits DEF conn

LEMMA TimerFits ==
  ASSUME HostsInv, TypesInv, AppsInv, NEW h \in Host, NEW p, TimerFires(h, p)
  PROVE  AppsInv'
<1> DEFINE conn == tables[h].conns[p]
           queue == toApp[h]
           map == threads[h]
           st == conn.st
           none == {}
<1>1. p \in DOMAIN tables[h].conns /\ Running /\ UNCHANGED appVars
  BY DEF TimerFires
<1>2. PICK timer, event, tells :
         /\ timer \in conn.timers
         /\ MayTell(conn.fsm, event, tells)
         /\ Perform(h, p, event, none, tells, conn.timers \ {timer}, st, queue, none, FALSE)
  <2>1. /\ MayTell(conn.fsm, "TIMEOUT_CONN_ESTAB", <<>>) /\ MayTell(conn.fsm, "TIMEOUT_2MSL", <<>>)
        /\ MayTell(conn.fsm, "ABORT", <<"TIMED_OUT">>)
    BY DEF MayTell, PlainEvents
  <2> QED
    BY <2>1 DEF TimerFires
<1> DEFINE armed == conn.timers \ {timer}
<1>3. conn.fsm # "CLOSED"
  <2>1. IsConnection(conn, nextId)
    BY <1>1 DEF HostsInv, HostOK, TablesOK
  <2>2. timer \in conn.timers
    BY <1>2
  <2> HIDE DEF conn
  <2> QED
    BY <2>1, <2>2 DEF IsConnection
<1>4. Taken(h, queue, map)
  BY <1>1, NobodyTakes
<1>5. Perform(h, p, event, none, tells, armed, st, queue, none, FALSE)
  BY <1>2
<1> HIDE DEF armed, none, st, queue, map
<1> QED
  BY <1>1, <1>2, <1>3, <1>4, <1>5, EventFits DEF conn

\* Connections come; nothing else of the host changes any more.
LEMMA ComingFits ==
  ASSUME HostsInv, TypesInv, AppsInv, Running, NEW h \in Host, UNCHANGED <<world, error>>,
         NEW queue, NEW map, Taken(h, queue, map), toApp' = [toApp EXCEPT ![h] = queue],
         nextId' \in {nextId, nextId + 1},
         NEW U, tables' = [tables EXCEPT ![h] = U],
         \A p \in DOMAIN U.conns :
            \/ p \in DOMAIN tables[h].conns /\ U.conns[p] = tables[h].conns[p]
            \/ IsNew(world.apps, h, U.conns[p], queue, sockets'),
         \A p \in DOMAIN tables[h].conns : tables[h].conns[p].fsm \in Serving =>
            p \in DOMAIN U.conns /\ U.conns[p] = tables[h].conns[p],
         DOMAIN map \subseteq 1 .. nextId - 1
  PROVE  AppsInv'
<1> DEFINE apps == world.apps
           C == tables[h].conns
           D == U.conns
           S == sockets'
           later == nextId'
<1>1. /\ nextId \in Nat
      /\ \A a \in DOMAIN apps : a = <<a[1], a[2]>>
      /\ \A p \in DOMAIN C : C[p].connId \in 1 .. nextId - 1
  BY AppsAre
<1>2. later \in Nat /\ nextId <= later
  BY <1>1
<1>3. /\ threads' = [threads EXCEPT ![h] = map]
      /\ \A a \in DOMAIN apps :
            /\ a[1] # h => S[a] = sockets[a]
            /\ AppKind(a) = "client" /\ S[a].timer = "NONE" => S[a].over
      /\ queue \in Seq(Indications(nextId))
      /\ HostFits(apps, h, C, queue, S, map, nextId, TRUE)
  BY DEF Taken
<1>4. /\ \A p \in DOMAIN D : (p \in DOMAIN C /\ D[p] = C[p]) \/ IsNew(apps, h, D[p], queue, S)
      /\ \A p \in DOMAIN C : C[p].fsm \in Serving => p \in DOMAIN D /\ D[p] = C[p]
  OBVIOUS
<1>5. Running' = TRUE
  BY DEF Running
<1> HIDE DEF apps, C, D, S, later
<1>6. HostFits(apps, h, D, queue, S, map, later, TRUE)
  BY <1>1, <1>2, <1>3, <1>4, AddsFit
<1>7. HostFits(world.apps, h, U.conns, queue, sockets', map, nextId', Running')
  BY <1>5, <1>6 DEF apps, D, S, later
<1>8. nextId' \in Nat /\ nextId <= nextId'
  BY <1>2 DEF later
<1>9. \A a \in DOMAIN world.apps :
         /\ a[1] # h => sockets'[a] = sockets[a]
         /\ AppKind(a) = "client" /\ sockets'[a].timer = "NONE" => sockets'[a].over
  BY <1>3 DEF apps, S
<1> QED
  BY <1>3, <1>7, <1>8, <1>9, OneHostFits

\* A client calls again only when its last connection is closed.
LEMMA ConnectsFit ==
  ASSUME HostsInv, TypesInv, AppsInv, NEW a \in DOMAIN world.apps, ClientConnects(a)
  PROVE  AppsInv'
<1> DEFINE h == a[1]
           gate == a[2]
           app == world.apps[a]
           T == tables[h]
           C == T.conns
           Q == toApp[h]
           map == threads[h]
           p == FreshPointer(T)
           st == SynState(world.par[h])
           syn == WriteSyn(st, TRUE)
           conn == Connection(gate, nextId, Closed, "SYN_SENT", {}, syn)
           port == GetEphemeralPort(T)
           pair == SockPair(NoHost, app.peer, port, app.port)
           A == AddSockPair(CreateConnection(T, p, conn), p, pair)
           U == [A EXCEPT !.lastPort = port]
           new == WithPair(conn, pair)
           called == ClientConnecting(sockets[a], nextId)
<1>1. /\ Running /\ AppKind(a) = "client" /\ sockets[a].timer = "CONNECT" /\ Q = <<>>
      /\ nextId <= world.maxId /\ threads' = threads
      /\ sockets' = [sockets EXCEPT ![a] = called]
      /\ OpenActive(h, gate, nextId, app)
  BY DEF ClientConnects
<1>2. /\ a = <<h, gate>> /\ h \in Host /\ nextId \in Nat \ {0} /\ world \in Scenarios
      /\ DOMAIN sockets = DOMAIN world.apps /\ DOMAIN threads = Host
      /\ DOMAIN map \subseteq 1 .. nextId - 1 /\ Q \in Seq(Indications(nextId))
      /\ TablesOK(T, nextId)
  BY AppsAre DEF HostsInv, HostOK
<1>3. called.connId = nextId /\ called.timer = "IDLE"
  <2>1. (AppKind(a) = "client") = TRUE
    BY <1>1
  <2>2. sockets[a] \in SocketsOf(TRUE, world.maxId)
    BY <2>1 DEF TypesInv
  <2>3. world.maxId \in Nat
    BY <1>2, ScenariosAssumption
  <2>4. nextId \in 1 .. world.maxId
    BY <1>1, <1>2, <2>3
  <2> QED
    BY <2>2, <2>3, <2>4, ClientMoves
<1> HIDE DEF called
<1>4. /\ sockets'[a] = called
      /\ \A b \in DOMAIN world.apps : b # a => sockets'[b] = sockets[b]
  BY <1>1, <1>2
<1>5. HostFits(world.apps, h, C, Q, sockets, map, nextId, TRUE)
  BY <1>1, <1>2 DEF AppsInv
<1>6. Taken(h, Q, map)
  <2> DEFINE apps == world.apps
  <2>1. ASSUME NEW b \in DOMAIN apps, b[1] = h, apps[b].kind = "client"
        PROVE  OneCall(C, Q, b[2], sockets'[b])
    <3>1. OneCall(C, Q, b[2], sockets[b])
      BY <1>5, <2>1 DEF HostFits
    <3>2. CASE b # a
      BY <1>4, <3>1, <3>2
    <3>3. CASE b = a
      <4>1. Len(Q) = 0
        BY <1>1
      <4>2. 1 .. Len(Q) = {}
        BY <4>1
      <4> QED
        BY <1>1, <3>1, <3>3, <4>2 DEF OneCall, NoMore
    <3> QED
      BY <3>2, <3>3
  <2> HIDE DEF Q, C, map, apps
  <2>2. /\ HostFits(apps, h, C, Q, sockets', map, nextId, TRUE)
        /\ HostFits(apps, h, C, Q, sockets', map, nextId, FALSE)
    BY <1>5, <2>1 DEF HostFits, apps
  <2>3. threads' = [threads EXCEPT ![h] = map]
    BY <1>1, <1>2 DEF TypesInv, map
  <2>4. ASSUME NEW b \in DOMAIN apps
        PROVE  /\ b[1] # h => sockets'[b] = sockets[b]
               /\ AppKind(b) = "client" /\ sockets'[b].timer = "NONE" => sockets'[b].over
    <3>1. AppKind(b) = "client" /\ sockets[b].timer = "NONE" => sockets[b].over
      BY <2>4 DEF AppsInv, apps
    <3> QED
      BY <1>3, <1>4, <2>4, <3>1 DEF apps
  <2> QED
    BY <1>2, <2>2, <2>3, <2>4 DEF Taken, Q, C, apps
<1>7. toApp' = [toApp EXCEPT ![h] = Q] \/ \E reason : reason # "none" /\ Fail(reason, h)
  <2>1. toApp' = toApp \/ \E reason : reason # "none" /\ Fail(reason, h)
    BY <1>1 DEF OpenActive
  <2>2. toApp = [toApp EXCEPT ![h] = toApp[h]]
    BY DEF HostsInv
  <2> QED
    BY <2>1, <2>2
<1>8. CASE \E reason : reason # "none" /\ Fail(reason, h)
  BY <1>1, <1>2, <1>6, <1>8, FailFits
<1>9. CASE ~up[h]
  <2>1. /\ UNCHANGED <<world, error>> /\ nextId' = nextId + 1 /\ tables' = tables
        /\ toApp' = toApp
    BY <1>1, <1>9 DEF OpenActive
  <2>2. tables' = [tables EXCEPT ![h] = T] /\ toApp' = [toApp EXCEPT ![h] = Q]
    BY <2>1 DEF HostsInv
  <2> HIDE DEF T, Q, map, h
  <2> QED
    BY <1>1, <1>2, <1>6, <2>1, <2>2, ComingFits DEF T
<1>10. CASE up[h] /\ ~\E reason : reason # "none" /\ Fail(reason, h)
  <2>1. /\ ~Exhausted(T) /\ UNCHANGED <<world, error>> /\ nextId' = nextId + 1
    BY <1>1, <1>10 DEF OpenActive, SynState
  <2>2. tables' = [tables EXCEPT ![h] = U]
    <3>1. pair.localPort = port
      BY DEF SockPair
    <3>2. tables' = [tables EXCEPT ![h] = [A EXCEPT !.lastPort = pair.localPort]]
      BY <1>1, <1>10 DEF OpenActive, SynState
    <3> HIDE DEF pair, A
    <3> QED
      BY <3>1, <3>2
  <2>3. port \in Ephemeral
    <3>1. T.lastPort \in Ephemeral
      BY <1>2 DEF TablesOK, IsTables
    <3> QED
      BY <2>1, <3>1, FreePort
  <2>4. p \notin DOMAIN T.conns
    BY <1>1, <1>2, RoomForConnection
  <2> HIDE DEF port, p
  <2>5. pair.localPort = port
    BY DEF SockPair
  <2> HIDE DEF syn, pair
  <2>6. new.pair = pair /\ new.fsm = "SYN_SENT" /\ new.gate = gate /\ new.connId = nextId
    BY DEF Connection, WithPair
  <2>7. "conns" \in DOMAIN T
    BY <1>2, ConnsOf
  <2>8. /\ "conns" \in DOMAIN A
        /\ DOMAIN A.conns = DOMAIN T.conns \cup {p}
        /\ A.conns[p] = new
        /\ \A q \in DOMAIN T.conns \ {p} : A.conns[q] = T.conns[q]
    BY <2>7, AddedConns
  <2> HIDE DEF A, conn, new
  <2>9. U.conns = A.conns
    BY <2>8
  <2> HIDE DEF U
  <2>10. IsNew(world.apps, h, new, Q, sockets')
    <3>1. OfApp(world.apps, h, new)
      BY <1>1, <1>2, <2>3, <2>5, <2>6 DEF OfApp, AppKind
    <3>2. new.fsm \notin Serving \cup {"CLOSED"}
      BY <2>6 DEF Serving
    <3>3. 1 .. Len(Q) = {}
      BY <1>1
    <3> QED
      BY <1>2, <1>3, <1>4, <2>6, <3>1, <3>2, <3>3 DEF IsNew
  <2> HIDE DEF T, Q, map, h
  <2>11. /\ \A q \in DOMAIN U.conns :
               \/ q \in DOMAIN T.conns /\ U.conns[q] = T.conns[q]
               \/ IsNew(world.apps, h, U.conns[q], Q, sockets')
         /\ \A q \in DOMAIN T.conns : q \in DOMAIN U.conns /\ U.conns[q] = T.conns[q]
    BY <2>4, <2>8, <2>9, <2>10
  <2> QED
    BY <1>1, <1>2, <1>6, <1>7, <1>10, <2>1, <2>2, <2>11, ComingFits DEF T
<1> QED
  BY <1>8, <1>9, <1>10

\* A call is taken by a connection that nobody has been told about; the clone that goes on
\* listening has its id, of which no failure is told.
LEMMA AcceptFits ==
  ASSUME HostsInv, TypesInv, AppsInv, Running, NEW h \in Host, NEW s \in wire, s.dst = h,
         UNCHANGED appVars,
         NEW p \in DOMAIN tables[h].conns,
         p = FindConnForSegment(tables[h], s.src, h, s.srcPort, s.destPort),
         tables[h].conns[p].fsm = "LISTEN",
         Accept(h, s, p)
  PROVE  AppsInv'
<1> DEFINE T == tables[h]
           conn == T.conns[p]
           pair == SockPair(h, s.src, s.destPort, s.srcPort)
           st == UpdateRcvWnd(ReadOptions(UpdateSndWnd(Configure(conn.st, world.par[h]), s.window),
                                          s.opts))
           syn == WriteSyn(st, FALSE)
           clone == Clone(conn, s.destPort)
           q == FreshPointer(T)
           F == AddForkedConnection(T, p, pair, nextId, q, clone)
           fsm == NextState(F.conns[p].fsm, "RCV_SYN")
           timers == F.conns[p].timers \cup {"CONN_ESTAB"}
           U == InPlace(F, p, fsm, timers, syn)
           spunOff == SpunOff(conn, pair, nextId)
           listener == WithPair(clone, clone.pair)
           queue == toApp[h]
           map == threads[h]
           apps == world.apps
<1> HIDE DEF st, syn, F, U, listener, spunOff, clone, q, fsm, timers
<1>1. /\ TablesOK(T, nextId) /\ nextId \in Nat \ {0} /\ world \in Scenarios /\ s.src \in Host
      /\ "conns" \in DOMAIN T /\ DOMAIN conn = Fields /\ p # NoConn
  BY ConnsOf DEF HostsInv, HostOK
<1>2. Taken(h, queue, map)
  BY NobodyTakes
<1>3. CASE \E reason : reason # "none" /\ Fail(reason, h)
  BY <1>2, <1>3, FailFits
<1>4. CASE ~\E reason : reason # "none" /\ Fail(reason, h)
  <2>1. /\ nextId <= world.maxId /\ UNCHANGED <<world, error>> /\ nextId' = nextId + 1
        /\ toApp' = toApp
    BY <1>4 DEF Accept, st, clone
  <2>2. tables' = [tables EXCEPT ![h] = U]
    BY <1>4 DEF Accept, InPlace, st, syn, F, U, clone, q, fsm, timers
  <2>3. toApp' = [toApp EXCEPT ![h] = queue]
    BY <2>1 DEF HostsInv
  <2>4. conn.pair.localPort = s.destPort
    <3> HIDE DEF T
    <3> QED
      BY <1>1, FoundConn DEF T
  <2>5. pair.localPort = s.destPort
    BY DEF SockPair
  <2>6. q \in Pointer \ DOMAIN T.conns
    BY <1>1, <2>1, RoomForConnection DEF q
  <2>7. /\ DOMAIN clone = Fields /\ clone.fsm = "LISTEN" /\ clone.gate = conn.gate
        /\ clone.connId = conn.connId /\ clone.pair.localPort = s.destPort
    BY DEF Clone, Connection, Fields, clone, Listening, SockPair
  <2>8. /\ listener.fsm = "LISTEN" /\ listener.gate = conn.gate
        /\ listener.connId = conn.connId /\ listener.pair.localPort = s.destPort
    BY <2>7 DEF WithPair, Fields, listener
  <2>9. /\ "conns" \in DOMAIN F
        /\ DOMAIN F.conns = DOMAIN T.conns \cup {q}
        /\ F.conns[p] = spunOff
        /\ F.conns[q] = listener
        /\ \A r \in DOMAIN T.conns \ {p} : F.conns[r] = T.conns[r]
    <3>1. /\ "conns" \in DOMAIN T /\ p \in DOMAIN T.conns /\ q \notin DOMAIN T.conns
          /\ F = AddForkedConnection(T, p, pair, nextId, q, clone)
          /\ spunOff = SpunOff(T.conns[p], pair, nextId) /\ listener = WithPair(clone, clone.pair)
      BY <1>1, <2>6 DEF F, spunOff, listener
    <3> HIDE DEF T, pair, conn
    <3>2. Forks(T, F, p, pair, nextId, q, clone)
      BY <3>1, ForkedConns
    <3> QED
      BY <3>1, <3>2 DEF Forks
  <2>10. /\ DOMAIN spunOff = Fields /\ spunOff.fsm = "LISTEN" /\ spunOff.pair = pair
         /\ spunOff.gate = conn.gate /\ spunOff.connId = nextId
    BY <1>1 DEF SpunOff, Fields, spunOff
  <2> DEFINE new == U.conns[p]
  <2>11. /\ DOMAIN U.conns = DOMAIN F.conns
         /\ new.pair = pair /\ new.fsm = "SYN_RCVD" /\ new.gate = conn.gate
         /\ new.connId = nextId
         /\ \A r \in DOMAIN F.conns \ {p} : U.conns[r] = F.conns[r]
    <3> DEFINE changed == [spunOff EXCEPT !.fsm = fsm, !.timers = timers, !.st = syn]
               conns == [F.conns EXCEPT ![p] = changed]
    <3>1. U.conns = conns
      BY <2>9 DEF InPlace, U
    <3>2. fsm = "SYN_RCVD"
      BY <2>9, <2>10 DEF NextState, Moves, fsm
    <3>3. /\ changed.pair = pair /\ changed.fsm = fsm /\ changed.gate = conn.gate
          /\ changed.connId = nextId
      BY <2>10 DEF Fields
    <3> HIDE DEF changed
    <3>4. DOMAIN conns = DOMAIN F.conns /\ conns[p] = changed
          /\ \A r \in DOMAIN F.conns \ {p} : conns[r] = F.conns[r]
      BY <2>9
    <3> QED
      BY <3>1, <3>2, <3>3, <3>4
  <2> HIDE DEF new, pair
  <2>12. /\ HostFits(apps, h, T.conns, queue, sockets', map, nextId, TRUE)
         /\ queue \in Seq(Indications(nextId))
    BY <1>2 DEF Taken
  <2>13. /\ <<h, conn.gate>> \in DOMAIN apps /\ apps[<<h, conn.gate>>].kind # "client"
         /\ s.destPort \notin Ephemeral
    <3>1. ListensOnly(conn)
      BY <1>1 DEF TablesOK
    <3>2. OfApp(apps, h, conn)
      BY <2>12 DEF HostFits
    <3> HIDE DEF conn, apps
    <3> QED
      BY <2>4, <3>1, <3>2 DEF ListensOnly, OfApp, Waiting, conn
  <2> HIDE DEF queue, apps
  <2>14. \A i \in 1 .. Len(queue) : /\ queue[i].connId # nextId
                                    /\ queue[i].kind \in Failures => queue[i].connId # conn.connId
    <3>1. FailuresEnd(T.conns, queue)
      BY <2>12 DEF HostFits
    <3>2. \A i \in 1 .. Len(queue) : queue[i].connId \in 1 .. nextId - 1
      <4>1. \A i \in 1 .. Len(queue) : queue[i] \in Indications(nextId)
        BY <2>12
      <4> QED
        BY <4>1 DEF Indications
    <3>3. \A i \in 1 .. Len(queue) : queue[i].connId # nextId
      BY <1>1, <3>2
    <3> QED
      BY <3>1, <3>3 DEF FailuresEnd
  <2>15. IsNew(apps, h, new, queue, sockets') /\ IsNew(apps, h, listener, queue, sockets')
    <3> HIDE DEF conn
    <3>1. OfApp(apps, h, new) /\ OfApp(apps, h, listener)
      BY <2>5, <2>8, <2>11, <2>13 DEF OfApp
    <3> QED
      BY <2>8, <2>11, <2>13, <2>14, <3>1 DEF IsNew, Serving
  <2>16. /\ \A r \in DOMAIN U.conns :
                \/ r \in DOMAIN T.conns /\ U.conns[r] = T.conns[r]
                \/ IsNew(apps, h, U.conns[r], queue, sockets')
         /\ \A r \in DOMAIN T.conns : T.conns[r].fsm \in Serving =>
                r \in DOMAIN U.conns /\ U.conns[r] = T.conns[r]
    <3>1. U.conns[q] = listener
      BY <2>6, <2>9, <2>11
    <3>2. \A r \in DOMAIN T.conns \ {p} : r \in DOMAIN U.conns /\ U.conns[r] = T.conns[r]
      BY <2>9, <2>11
    <3>3. T.conns[p].fsm \notin Serving
      BY DEF Serving
    <3> HIDE DEF T
    <3> QED
      BY <2>9, <2>11, <2>15, <3>1, <3>2, <3>3 DEF new
  <2>17. DOMAIN map \subseteq 1 .. nextId - 1
    BY AppsAre
  <2> HIDE DEF T, map
  <2> QED
    BY <1>2, <2>1, <2>2, <2>3, <2>16, <2>17, ComingFits DEF apps, T
<1> QED
  BY <1>3, <1>4

\* Segments.
LEMMA SegmentsFit ==
  ASSUME HostsInv, TypesInv, AppsInv, NEW s \in wire,
         RcvSegment(s.dst, s) \/ RcvWhileDown(s) \/ LoseSegment(s)
  PROVE  AppsInv'
<1> DEFINE h == s.dst
<1>1. h \in Host
  BY DEF HostsInv
<1>2. CASE \E kinds : Answer(s, kinds)
  BY <1>2, NothingFits DEF Answer
<1>3. ASSUME NEW p \in DOMAIN tables[h].conns, RcvInListen(h, s, p), ~Answer(s, {"RST"})
      PROVE  AppsInv'
  <2>1. /\ tables[h].conns[p].fsm = "LISTEN" /\ Accept(h, s, p) /\ UNCHANGED appVars
        /\ Running
        /\ p = FindConnForSegment(tables[h], s.src, h, s.srcPort, s.destPort)
    BY <1>3 DEF RcvInListen, Arrives
  <2> QED
    BY <1>1, <2>1, AcceptFits
<1>4. ASSUME NEW p \in DOMAIN tables[h].conns, RcvInSynSent(h, s, p)
      PROVE  AppsInv'
  BY <1>1, <1>4, SynSentFits
<1>5. ASSUME NEW p \in DOMAIN tables[h].conns, RcvWhileClosed(h, s, p)
      PROVE  AppsInv'
  <2> DEFINE queue == toApp[h]
             map == threads[h]
             reason == "EVENT_WHILE_CLOSED"
  <2>1. Running /\ UNCHANGED appVars /\ reason # "none" /\ Fail(reason, h)
    BY <1>5 DEF RcvWhileClosed, Arrives
  <2>2. Taken(h, queue, map)
    BY <1>1, <2>1, NobodyTakes
  <2> HIDE DEF queue, map, reason
  <2> QED
    BY <1>1, <2>1, <2>2, FailFits
<1>6. ASSUME NEW p \in DOMAIN tables[h].conns, RcvElsewhere(h, s, p)
      PROVE  AppsInv'
  BY <1>1, <1>6, ElsewhereFits
<1> QED
  BY <1>2, <1>3, <1>4, <1>5, <1>6 DEF RcvSegment, RcvUnknown, RcvWhileDown, LoseSegment

\* An application that takes an indication: its socket or its threads follow.
LEMMA AppTakes ==
  ASSUME HostsInv, TypesInv, AppsInv, NEW a \in DOMAIN world.apps, NEW h, h = a[1], AppStep(h, a)
  PROVE  /\ h \in Host /\ Running /\ toApp[h] # <<>>
         /\ Taken(h, Tail(toApp[h]), threads'[h])
         /\ DOMAIN threads'[h] \subseteq 1 .. nextId - 1
<1> DEFINE apps == world.apps
           C == tables[h].conns
           Q == toApp[h]
           rest == Tail(Q)
           first == Head(Q)
           kind == first.kind
           id == first.connId
           S == sockets
           U == sockets'
           map == threads[h]
           new == threads'[h]
<1>1. /\ h \in Host /\ Running /\ Q # <<>> /\ a = <<h, first.gate>>
      /\ UNCHANGED <<world, nextId>>
      /\ DOMAIN S = DOMAIN apps /\ world \in Scenarios /\ DOMAIN threads = Host
      /\ nextId \in Nat /\ Q \in Seq(Indications(nextId))
      /\ \A b \in DOMAIN apps : b = <<b[1], b[2]>>
      /\ HostFits(apps, h, C, Q, S, map, nextId, TRUE)
  BY AppLeaves, AppsAre DEF Receives, AppsInv
<1>2. /\ rest \in Seq(Indications(nextId))
      /\ first.gate \in Nat /\ kind \in Kinds /\ id \in 1 .. nextId - 1
  <2>1. first \in Indications(nextId) /\ rest \in Seq(Indications(nextId))
    BY <1>1, RestOfQueue
  <2> QED
    BY <2>1 DEF Indications
<1>3. ASSUME NEW b \in DOMAIN apps
      PROVE  /\ b[1] # h => U[b] = S[b]
             /\ AppKind(b) = "client" =>
                   /\ U[b].timer = "NONE" => U[b].over
                   /\ U[b].connId = S[b].connId
                   /\ U[b].timer = "CONNECT" =>
                         S[b].timer = "CONNECT" \/ (b = a /\ kind \in Failures)
  <2>1. AppKind(b) = "client" /\ S[b].timer = "NONE" => S[b].over
    BY <1>3 DEF AppsInv
  <2>2. CASE U[b] = S[b]
    BY <2>1, <2>2
  <2>3. CASE U[b] # S[b]
    <3> DEFINE c == S[a]
               told == ClientAfter(c, kind)
    <3>1. AppKind(a) = "client" /\ U = [S EXCEPT ![a] = told]
      BY <2>3, AppLeaves
    <3>2. b = a /\ U[b] = told
      BY <1>1, <2>3, <3>1
    <3>3. (AppKind(a) = "client") = TRUE
      BY <3>1
    <3>4. c \in SocketsOf(TRUE, world.maxId) /\ world.maxId \in Nat
      BY <1>1, <3>3, ScenariosAssumption DEF TypesInv
    <3> HIDE DEF c, kind
    <3>5. /\ told.connId = c.connId /\ told.over = c.over
          /\ told.timer = "CONNECT" => c.timer = "CONNECT" \/ kind \in Failures
          /\ told.timer = "NONE" => c.timer = "NONE" \/ c.over
      BY <1>2, <3>4, ClientTold
    <3> HIDE DEF told
    <3> QED
      BY <1>1, <2>1, <3>1, <3>2, <3>5 DEF c
  <2> QED
    BY <2>2, <2>3
<1>4. /\ threads' = [threads EXCEPT ![h] = new]
      /\ DOMAIN new \subseteq 1 .. nextId - 1
      /\ \A b \in DOMAIN apps : b[1] = h /\ AppKind(b) = "threads" => Follows(map, new, first, b[2])
  <2>1. /\ \A i \in DOMAIN map : i \in 1 .. nextId - 1 /\ map[i] \in ThreadSockets(i)
        /\ threads = [g \in Host |-> threads[g]]
    BY <1>1 DEF TypesInv
  <2>2. CASE AppKind(a) # "threads"
    <3>1. threads' = threads /\ new = map
      BY <2>2, AppLeaves
    <3>2. ASSUME NEW b \in DOMAIN apps, b[1] = h, AppKind(b) = "threads"
          PROVE  Follows(map, map, first, b[2])
      <4>1. first.gate # b[2]
        BY <1>1, <2>2, <3>2
      <4> QED
        BY <4>1 DEF Follows, About
    <3> QED
      BY <1>1, <2>1, <3>1, <3>2
  <2>3. CASE AppKind(a) = "threads"
    <3> DEFINE after == ThreadsAfter(map, id, kind)
    <3>1. threads' = [threads EXCEPT ![h] = after] /\ new = after
      BY <1>1, <2>3, AppLeaves
    <3>2. DOMAIN after = IF kind \in Ended THEN DOMAIN map \ {id} ELSE DOMAIN map \cup {id}
      <4> HIDE DEF map, id, kind
      <4> QED
        BY <1>2, <2>1, ThreadsBecome
    <3>3. ASSUME NEW b \in DOMAIN apps, b[1] = h, AppKind(b) = "threads"
          PROVE  Follows(map, after, first, b[2])
      <4>1. b = a
        <5>1. Listener(a) /\ Listener(b)
          BY <2>3, <3>3 DEF Listener
        <5> QED
          BY <1>1, <3>3, <5>1, AppAt
      <4>2. first.gate = b[2]
        BY <1>1, <4>1
      <4> HIDE DEF after
      <4> QED
        BY <3>2, <4>2 DEF Follows, About
    <3> HIDE DEF after
    <3> QED
      BY <1>2, <2>1, <3>1, <3>2, <3>3
  <2> QED
    BY <2>2, <2>3
<1>5. /\ HostFits(apps, h, C, rest, U, new, nextId, TRUE)
      /\ HostFits(apps, h, C, Q, U, new, nextId, FALSE)
  <2>1. Answers(apps, h, first, S, U, map, new)
    <3>1. first.gate = a[2]
      BY <1>1
    <3> HIDE DEF first, S, U, map, new
    <3> QED
      BY <1>3, <1>4, <3>1 DEF Answers, AppKind, first
  <2> HIDE DEF apps, C, Q, S, U, map, new
  <2> QED
    BY <1>1, <2>1, TakesFit DEF Q
<1> QED
  BY <1>1, <1>2, <1>3, <1>4, <1>5 DEF Taken

\* A step that takes indications, and no more.
LEMMA QueueFits ==
  ASSUME HostsInv, TypesInv, AppsInv, Running, NEW h \in Host,
         NEW queue, NEW map, Taken(h, queue, map), DOMAIN map \subseteq 1 .. nextId - 1,
         UNCHANGED <<world, tables, nextId, error>>, toApp' = [toApp EXCEPT ![h] = queue]
  PROVE  AppsInv'
<1> DEFINE T == tables[h]
<1>1. tables' = [tables EXCEPT ![h] = T]
  BY DEF HostsInv
<1>2. /\ \A p \in DOMAIN T.conns : p \in DOMAIN tables[h].conns /\ T.conns[p] = tables[h].conns[p]
      /\ \A p \in DOMAIN tables[h].conns : p \in DOMAIN T.conns /\ T.conns[p] = tables[h].conns[p]
  OBVIOUS
<1>3. nextId' \in {nextId, nextId + 1} /\ UNCHANGED <<world, error>>
  OBVIOUS
<1> HIDE DEF T
<1> QED
  BY <1>1, <1>2, <1>3, ComingFits

LEMMA AppsFit ==
  ASSUME HostsInv, TypesInv, AppsInv, NEW a \in DOMAIN world.apps, NEW h, h = a[1], AppStep(h, a)
  PROVE  AppsInv'
<1> DEFINE rest == Tail(toApp[h])
           map == threads'[h]
           gate == Head(toApp[h]).gate
           id == Head(toApp[h]).connId
<1>1. /\ h \in Host /\ Running /\ toApp[h] # <<>> /\ Taken(h, rest, map)
      /\ DOMAIN map \subseteq 1 .. nextId - 1
  BY AppTakes
<1>2. \A p \in DOMAIN tables[h].conns : tables[h].conns[p].fsm \in Waiting =>
         id # tables[h].conns[p].connId
  BY <1>1, RestOfQueue
<1>3. \/ \E reason : reason # "none" /\ Fail(reason, h)
      \/ Close(h, gate, id, rest)
      \/ Consume(h)
  BY DEF AppStep, ClientReceives, SinkReceives, EchoReceives, ThreadReceives
<1>4. CASE Consume(h)
  <2>1. UNCHANGED <<world, tables, nextId, error>> /\ toApp' = [toApp EXCEPT ![h] = rest]
    BY <1>4 DEF Consume
  <2> HIDE DEF rest, map
  <2> QED
    BY <1>1, <2>1, QueueFits
<1> HIDE DEF rest, map, id, gate
<1>5. CASE Close(h, gate, id, rest)
  BY <1>1, <1>2, <1>5, CloseFits
<1>6. CASE \E reason : reason # "none" /\ Fail(reason, h)
  BY <1>1, <1>6, FailFits
<1> QED
  BY <1>3, <1>4, <1>5, <1>6

\* The id and the timer of its socket are all a client's calls depend on.
LEMMA TimePassesFits ==
  ASSUME HostsInv, TypesInv, AppsInv, NEW a \in DOMAIN world.apps, StopTimePasses(a)
  PROVE  AppsInv'
<1> DEFINE h == a[1]
           Q == toApp[h]
           map == threads[h]
           C == tables[h].conns
           apps == world.apps
           old == sockets[a]
           new == [old EXCEPT !.over = TRUE]
<1>1. /\ Running /\ AppKind(a) = "client" /\ sockets' = [sockets EXCEPT ![a] = new]
      /\ UNCHANGED <<world, tables, threads, toApp, nextId, error>>
  BY DEF StopTimePasses
<1>2. /\ h \in Host /\ world \in Scenarios /\ DOMAIN sockets = DOMAIN apps
      /\ DOMAIN map \subseteq 1 .. nextId - 1 /\ Q \in Seq(Indications(nextId))
      /\ HostFits(apps, h, C, Q, sockets, map, nextId, TRUE)
  BY <1>1, AppsAre DEF AppsInv
<1>3. new.connId = old.connId /\ new.timer = old.timer /\ new.over
  <2>1. (AppKind(a) = "client") = TRUE
    BY <1>1
  <2>2. old \in SocketsOf(TRUE, world.maxId)
    BY <2>1 DEF TypesInv
  <2> QED
    BY <2>2 DEF SocketsOf
<1> HIDE DEF new
<1>4. /\ sockets'[a] = new /\ \A b \in DOMAIN apps : b # a => sockets'[b] = sockets[b]
      /\ \A b \in DOMAIN apps : sockets'[b].connId = sockets[b].connId
                                /\ sockets'[b].timer = sockets[b].timer
  BY <1>1, <1>2, <1>3
<1>5. \A b \in DOMAIN apps :
         /\ b[1] # h => sockets'[b] = sockets[b]
         /\ AppKind(b) = "client" /\ sockets'[b].timer = "NONE" => sockets'[b].over
  BY <1>3, <1>4 DEF AppsInv
<1>6. /\ HostFits(apps, h, C, Q, sockets', map, nextId, TRUE)
      /\ HostFits(apps, h, C, Q, sockets', map, nextId, FALSE)
  <2>1. ASSUME NEW b \in DOMAIN apps, b[1] = h, apps[b].kind = "client"
        PROVE  OneCall(C, Q, b[2], sockets'[b])
    <3>1. OneCall(C, Q, b[2], sockets[b])
      BY <1>2, <2>1 DEF HostFits
    <3> HIDE DEF C, Q
    <3> QED
      BY <1>4, <2>1, <3>1 DEF OneCall, NoMore
  <2> HIDE DEF C, Q, map, apps
  <2> QED
    BY <1>2, <2>1 DEF HostFits
<1>7. Taken(h, Q, map)
  <2>1. threads' = [threads EXCEPT ![h] = map]
    BY <1>1 DEF TypesInv
  <2> QED
    BY <1>2, <1>5, <1>6, <2>1 DEF Taken
<1>8. toApp' = [toApp EXCEPT ![h] = Q]
  BY <1>1 DEF HostsInv
<1> HIDE DEF h, Q, map
<1> QED
  BY <1>1, <1>2, <1>7, <1>8, QueueFits

\* A host that only listens, and tells nobody anything.
OnlyListens(apps, h, C) ==
    \A p \in DOMAIN C :
        /\ <<h, C[p].gate>> \in DOMAIN apps
        /\ apps[<<h, C[p].gate>>].kind # "client"
        /\ C[p].fsm = "LISTEN"
        /\ C[p].pair.localPort \notin Ephemeral

LEMMA OnlyListensFits ==
  ASSUME NEW apps, NEW h, NEW C, OnlyListens(apps, h, C), NEW Q, Q = <<>>,
         NEW S, NEW map, NEW next, NEW running,
         \A a \in DOMAIN apps : a = <<a[1], a[2]>>,
         \A a \in DOMAIN apps : a[1] = h /\ apps[a].kind = "threads" => DOMAIN map = {}
  PROVE  HostFits(apps, h, C, Q, S, map, next, running)
<1>1. 1 .. Len(Q) = {}
  BY Len(Q) = 0
<1>2. \A p \in DOMAIN C : OfApp(apps, h, C[p])
  BY DEF OnlyListens, OfApp
<1>3. FailuresEnd(C, Q)
  BY <1>1 DEF FailuresEnd
<1>4. ASSUME NEW a \in DOMAIN apps, a[1] = h, apps[a].kind = "client"
      PROVE  OneCall(C, Q, a[2], S[a])
  <2>1. ASSUME NEW p \in DOMAIN C, C[p].gate = a[2]
        PROVE  FALSE
    <3>1. <<h, C[p].gate>> = a
      BY <1>4, <2>1
    <3> QED
      BY <1>4, <3>1 DEF OnlyListens
  <2> QED
    BY <1>1, <2>1 DEF OneCall, NoMore
<1>5. ASSUME NEW a \in DOMAIN apps, a[1] = h, apps[a].kind = "threads"
      PROVE  ThreadsFit(C, Q, map, a[2], next)
  <2>1. \A id : ~IsServed(C, a[2], id)
    BY DEF IsServed, OnlyListens, Serving
  <2>2. \A id : ~WillServe(Q, map, a[2], id)
    BY <1>1, <1>5 DEF WillServe
  <2> QED
    BY <2>1, <2>2 DEF ThreadsFit
<1> QED
  BY <1>2, <1>3, <1>4, <1>5 DEF HostFits

LEMMA ListenerOnly ==
  ASSUME world \in Scenarios, NEW a \in DOMAIN world.apps, Listener(a), NEW id,
         NEW h, h = a[1]
  PROVE  OnlyListens(world.apps, h, Listen(Empty, a, id).conns)
<1> DEFINE p == FreshPointer(Empty)
           port == world.apps[a].port
           pair == Listening(NoHost, port)
           st == Configure(Unconfigured, world.par[a[1]])
           conn == Connection(a[2], id, Closed, "LISTEN", {}, st)
           U == Listen(Empty, a, id)
           new == WithPair(conn, pair)
<1>1. AppKind(a) # "client" /\ port \notin Ephemeral /\ a = <<h, a[2]>>
  <2>1. AppKind(a) # "client" /\ a \in Host \X Nat
    BY AppAt DEF Listener
  <2> QED
    BY <2>1, ScenariosAssumption DEF AppKind
<1>2. U = AddSockPair(CreateConnection(Empty, p, conn), p, pair)
  BY DEF Listen
<1> HIDE DEF st, p, port
<1>3. new.pair = pair /\ new.fsm = "LISTEN" /\ new.gate = a[2]
  BY DEF Connection, WithPair
<1>4. pair.localPort = port
  BY DEF Listening, SockPair
<1>5. "conns" \in DOMAIN Empty /\ DOMAIN Empty.conns = {}
  BY EmptyTables DEF Empty
<1> HIDE DEF U, conn, pair
<1>6. DOMAIN U.conns = DOMAIN Empty.conns \cup {p} /\ U.conns[p] = WithPair(conn, pair)
  BY <1>2, <1>5, AddedConns
<1> HIDE DEF new
<1>7. OnlyListens(world.apps, h, U.conns)
  BY <1>1, <1>3, <1>4, <1>5, <1>6 DEF OnlyListens, AppKind, new
<1> QED
  BY <1>7 DEF U

LEMMA EmptyOnly ==
  ASSUME NEW apps, NEW h
  PROVE  OnlyListens(apps, h, Empty.conns)
BY EmptyTables DEF OnlyListens

LEMMA InitApps ==
  ASSUME Init
  PROVE  AppsInv
<1>1. /\ world \in Scenarios /\ \A a \in DOMAIN world.apps : a = <<a[1], a[2]>>
  BY AppAt DEF Init
<1>2. ASSUME NEW h \in Host
      PROVE  /\ toApp[h] = <<>> /\ DOMAIN threads[h] = {}
             /\ OnlyListens(world.apps, h, tables[h].conns)
  <2> DEFINE listeners == {a \in AppsOf(h) : Listener(a)}
             it == CHOOSE a \in listeners : TRUE
  <2>1. toApp[h] = <<>> /\ threads[h] = NoThreads
        /\ tables[h] = IF listeners = {} THEN Empty ELSE Listen(Empty, it, world.apps[it].id)
    BY <1>2 DEF Init
  <2>2. DOMAIN threads[h] = {}
    BY <2>1 DEF NoThreads
  <2>3. CASE listeners = {}
    BY <2>1, <2>2, <2>3, EmptyOnly
  <2>4. CASE listeners # {}
    <3>1. it \in listeners
      BY <2>4
    <3>2. it \in DOMAIN world.apps /\ Listener(it) /\ it[1] = h
      BY <3>1 DEF AppsOf
    <3> HIDE DEF it
    <3>3. tables[h] = Listen(Empty, it, world.apps[it].id)
      BY <2>1, <2>4
    <3> QED
      BY <1>1, <2>1, <2>2, <3>2, <3>3, ListenerOnly
  <2> QED
    BY <2>3, <2>4
<1>3. ASSUME NEW h \in Host
      PROVE  HostFits(world.apps, h, tables[h].conns, toApp[h], sockets, threads[h], nextId, Running)
  BY <1>1, <1>2, OnlyListensFits
<1>4. ASSUME NEW a \in DOMAIN world.apps, AppKind(a) = "client"
      PROVE  sockets[a].timer = "CONNECT"
  <2>1. ~Listener(a)
    BY <1>1, <1>4, AppAt
  <2>2. sockets[a] = InitialClient(world.apps[a].id)
    BY <2>1 DEF Init
  <2> QED
    BY <2>2 DEF InitialClient, Client
<1> QED
  BY <1>3, <1>4 DEF AppsInv

\* A refused operation ends all.
LEMMA RefusalFits ==
  ASSUME HostsInv, TypesInv, AppsInv, NEW reason, reason # "none", NEW h,
         RefuseOperation(reason, h), UNCHANGED <<world, threads>>
  PROVE  AppsInv'
<1>1. /\ UNCHANGED <<world, tables, toApp, sockets, threads, nextId>>
      /\ Running' = FALSE
  BY DEF RefuseOperation, Running
<1>2. \A g \in Host :
         HostFits(world.apps, g, tables[g].conns, toApp[g], sockets, threads[g], nextId, Running)
  BY DEF AppsInv
<1> HIDE DEF Running
<1>3. \A g \in Host :
         HostFits(world.apps, g, tables[g].conns, toApp[g], sockets, threads[g], nextId, FALSE)
  BY <1>2 DEF HostFits
<1>4. \A a \in DOMAIN world.apps : AppKind(a)' = AppKind(a)
  BY <1>1 DEF AppKind
<1> QED
  BY <1>1, <1>3, <1>4 DEF AppsInv

\* What an operation does to the sockets, on a host without threads.
LEMMA OperatedSockets ==
  ASSUME HostsInv, TypesInv, AppsInv, NEW h \in Host, Crash(h) \/ Shutdown(h) \/ Start(h)
  PROVE  /\ \A a \in DOMAIN world.apps : a[1] = h => world.apps[a].kind # "threads"
         /\ \A a \in DOMAIN world.apps :
               /\ a[1] # h => sockets'[a] = sockets[a]
               /\ AppKind(a) = "client" =>
                     /\ sockets'[a].connId = sockets[a].connId
                     /\ sockets'[a].timer = "NONE" => sockets'[a].over
<1>1. world \in Scenarios /\ h \in world.restarts /\ DOMAIN sockets = DOMAIN world.apps
  BY DEF Crash, Shutdown, Start, Operates, HostsInv
<1>2. \A a \in DOMAIN world.apps : a[1] = h => world.apps[a].kind # "threads"
  BY <1>1, ScenariosAssumption
<1>3. ASSUME NEW a \in DOMAIN world.apps
      PROVE  /\ a[1] # h => sockets'[a] = sockets[a]
             /\ AppKind(a) = "client" =>
                   /\ sockets'[a].connId = sockets[a].connId
                   /\ sockets'[a].timer = "NONE" => sockets'[a].over
  <2> DEFINE c == sockets[a]
             new == sockets'[a]
             most == world.maxId
             id == c.connId
  <2>1. AppKind(a) = "client" /\ c.timer = "NONE" => c.over
    BY <1>3 DEF AppsInv
  <2>2. CASE a \notin AppsOf(h)
    <3>1. new = c
      BY <1>1, <1>3, <2>2, OperationsCount
    <3> QED
      BY <2>1, <3>1
  <2>3. CASE a \in AppsOf(h) /\ AppKind(a) # "client"
    BY <2>3 DEF AppsOf
  <2>4. CASE a \in AppsOf(h) /\ AppKind(a) = "client"
    <3>1. new \in {c, ClientStarted(c), ClientStopped(c), ClientShutDown(c)}
      BY <2>4, OperationsCount DEF ClientsOf
    <3>2. (AppKind(a) = "client") = TRUE /\ most \in Nat
      BY <1>1, <2>4, ScenariosAssumption
    <3>3. c \in SocketsOf(TRUE, most)
      BY <3>2 DEF TypesInv
    <3> HIDE DEF c, new, most
    <3>4. id \in 1 .. most
      BY <3>3 DEF SocketsOf
    <3> DEFINE started == ClientStarted(c)
               stopped == ClientStopped(c)
               shut == ClientShutDown(c)
    <3> HIDE DEF id
    <3>5. /\ started.connId = c.connId /\ started.over = c.over
          /\ started.timer = "NONE" => c.timer = "NONE"
          /\ Stopped(stopped, c, most) /\ Stopped(shut, c, most)
      <4>1. most \in Nat
        BY <3>2
      <4>2. /\ started.connId = c.connId /\ started.over = c.over
            /\ started.timer = "NONE" => c.timer = "NONE"
        BY <3>3 DEF started, ClientStarted, SocketsOf, ClientTimers
      <4>3. Stopped(stopped, c, most) /\ Stopped(shut, c, most)
        BY <3>3, <3>4, <4>1, ClientMoves
      <4> QED
        BY <4>2, <4>3
    <3> HIDE DEF started, stopped, shut
    <3>6. new \in {c, started, stopped, shut}
      BY <3>1 DEF started, stopped, shut
    <3>7. new.connId = c.connId /\ (new.timer = "NONE" => new.over)
      BY <2>1, <2>4, <3>5, <3>6 DEF Stopped
    <3> QED
      BY <2>4, <3>7 DEF AppsOf, c, new
  <2> QED
    BY <2>2, <2>3, <2>4
<1> QED
  BY <1>2, <1>3

\* Its clients' timers are cancelled.
LEMMA DownTimers ==
  ASSUME HostsInv, TypesInv, NEW h \in Host, Crash(h) \/ Shutdown(h), GoesDown(h),
         NEW a \in DOMAIN world.apps, a[1] = h, AppKind(a) = "client"
  PROVE  sockets'[a].timer = "IDLE"
<1> DEFINE c == sockets[a]
           most == world.maxId
           id == c.connId
<1>1. Running /\ error' = error /\ world \in Scenarios /\ DOMAIN sockets = DOMAIN world.apps
  BY DEF Crash, Shutdown, Operates, GoesDown, HostsInv
<1>2. ~RefuseOperation("NO_TIMER", h)
  BY <1>1 DEF RefuseOperation, Running
<1>3. a \in ClientsOf(h)
  BY DEF ClientsOf, AppsOf
<1>4. sockets'[a] \in {ClientStopped(c), ClientShutDown(c)}
  BY <1>1, <1>2, <1>3 DEF Crash, Shutdown
<1>5. (AppKind(a) = "client") = TRUE /\ most \in Nat
  BY <1>1, ScenariosAssumption
<1>6. c \in SocketsOf(TRUE, most)
  BY <1>5 DEF TypesInv
<1> HIDE DEF c, most
<1>7. id \in 1 .. most
  BY <1>6 DEF SocketsOf
<1> HIDE DEF id
<1>8. Stopped(ClientStopped(c), c, most) /\ Stopped(ClientShutDown(c), c, most)
  BY <1>5, <1>6, <1>7, ClientMoves
<1> QED
  BY <1>4, <1>8 DEF Stopped

\* A host that goes down forgets its connections; what they have told is still on its way.
LEMMA DownFits ==
  ASSUME HostsInv, TypesInv, AppsInv, NEW h \in Host, Crash(h) \/ Shutdown(h), GoesDown(h)
  PROVE  AppsInv'
<1> DEFINE Q == toApp[h]
           map == threads[h]
           C == Empty.conns
           apps == world.apps
<1>1. /\ Running /\ UNCHANGED <<world, threads, nextId, error, toApp>>
      /\ tables' = [tables EXCEPT ![h] = Empty]
      /\ nextId \in Nat /\ DOMAIN C = {}
  BY EmptyTables DEF Crash, Shutdown, Operates, GoesDown, HostsInv
<1>2. /\ \A a \in DOMAIN apps : a[1] = h => apps[a].kind # "threads"
      /\ \A a \in DOMAIN apps :
            /\ a[1] # h => sockets'[a] = sockets[a]
            /\ AppKind(a) = "client" =>
                  /\ sockets'[a].connId = sockets[a].connId
                  /\ sockets'[a].timer = "NONE" => sockets'[a].over
  BY OperatedSockets
<1>3. Running' = TRUE
  BY <1>1 DEF Running
<1>4. HostFits(apps, h, tables[h].conns, Q, sockets, map, nextId, TRUE)
  BY <1>1 DEF AppsInv
<1>5. ASSUME NEW a \in DOMAIN apps, a[1] = h, apps[a].kind = "client"
      PROVE  OneCall(C, Q, a[2], sockets'[a])
  <2>1. OneCall(tables[h].conns, Q, a[2], sockets[a])
    BY <1>4, <1>5 DEF HostFits
  <2>2. sockets'[a].connId = sockets[a].connId
    BY <1>2, <1>5 DEF AppKind
  <2>3. sockets'[a].timer = "IDLE"
    BY <1>5, DownTimers DEF AppKind
  <2> HIDE DEF C, Q
  <2> QED
    BY <1>1, <2>1, <2>2, <2>3 DEF OneCall, NoMore
<1>6. FailuresEnd(C, Q)
  BY <1>1 DEF FailuresEnd
<1>7. toApp' = [toApp EXCEPT ![h] = Q] /\ threads' = [threads EXCEPT ![h] = map]
  BY <1>1 DEF HostsInv, TypesInv
<1>8. nextId' \in Nat /\ nextId <= nextId'
  BY <1>1
<1>9. \A a \in DOMAIN world.apps :
         /\ a[1] # h => sockets'[a] = sockets[a]
         /\ AppKind(a) = "client" /\ sockets'[a].timer = "NONE" => sockets'[a].over
  BY <1>2
<1> HIDE DEF C, Q, map
<1>10. HostFits(apps, h, C, Q, sockets', map, nextId', TRUE)
  <2>1. \A p \in DOMAIN C : OfApp(apps, h, C[p])
    BY <1>1
  <2> HIDE DEF apps
  <2> QED
    BY <1>2, <1>5, <1>6, <2>1 DEF HostFits
<1>11. HostFits(world.apps, h, Empty.conns, Q, sockets', map, nextId', Running')
  BY <1>3, <1>10 DEF C
<1> QED
  BY <1>1, <1>7, <1>8, <1>9, <1>11, OneHostFits

\* A host that starts listens, with applications that have been told all.
LEMMA StartFits ==
  ASSUME HostsInv, TypesInv, AppsInv, NEW h \in Host, Start(h),
         ~\E reason : reason # "none" /\ RefuseOperation(reason, h)
  PROVE  AppsInv'
<1> DEFINE listeners == AppsOf(h) \ ClientsOf(h)
           it == CHOOSE a \in listeners : TRUE
           U == IF listeners = {} THEN Empty ELSE Listen(Empty, it, nextId)
           Q == toApp[h]
           map == threads[h]
<1>1. /\ Running /\ UNCHANGED <<world, threads, error, toApp>> /\ Q = <<>>
      /\ tables[h] = Empty /\ world \in Scenarios /\ nextId \in Nat
      /\ \A a \in DOMAIN world.apps : a = <<a[1], a[2]>>
  BY AppsAre DEF Start, Operates, HostsInv, HostOK
<1>2. tables' = [tables EXCEPT ![h] = U]
  <2>1. tables' = [tables EXCEPT ![h] = IF listeners = {} THEN @ ELSE Listen(@, it, nextId)]
    BY DEF Start
  <2> HIDE DEF listeners, it
  <2> QED
    BY <1>1, <2>1
<1>3. OnlyListens(world.apps, h, U.conns)
  <2>1. CASE listeners = {}
    BY <2>1, EmptyOnly
  <2>2. CASE listeners # {}
    <3>1. it \in listeners
      BY <2>2
    <3>2. it \in DOMAIN world.apps /\ Listener(it) /\ it[1] = h
      BY <1>1, <3>1, AppAt DEF AppsOf, ClientsOf
    <3> HIDE DEF it, listeners
    <3> QED
      BY <1>1, <2>2, <3>2, ListenerOnly
  <2> QED
    BY <2>1, <2>2
<1>4. /\ \A a \in DOMAIN world.apps : a[1] = h => world.apps[a].kind # "threads"
      /\ \A a \in DOMAIN world.apps :
            /\ a[1] # h => sockets'[a] = sockets[a]
            /\ AppKind(a) = "client" /\ sockets'[a].timer = "NONE" => sockets'[a].over
  BY OperatedSockets
<1>5. toApp' = [toApp EXCEPT ![h] = Q] /\ threads' = [threads EXCEPT ![h] = map]
  BY <1>1 DEF HostsInv, TypesInv
<1>6. nextId' \in Nat /\ nextId <= nextId'
  BY OperationsCount
<1> HIDE DEF U, Q, map
<1>7. HostFits(world.apps, h, U.conns, Q, sockets', map, nextId', Running')
  BY <1>1, <1>3, <1>4, OnlyListensFits DEF Q
<1> QED
  BY <1>1, <1>2, <1>4, <1>5, <1>6, <1>7, OneHostFits

LEMMA LifecycleFits ==
  ASSUME HostsInv, TypesInv, AppsInv, NEW h \in Host, Crash(h) \/ Shutdown(h) \/ Start(h)
  PROVE  AppsInv'
<1>1. CASE \E reason : reason # "none" /\ RefuseOperation(reason, h)
  <2>1. UNCHANGED <<world, threads>>
    BY DEF Crash, Shutdown, Start, Operates
  <2> QED
    BY <1>1, <2>1, RefusalFits
<1>2. CASE ~\E reason : reason # "none" /\ RefuseOperation(reason, h)
  <2>1. ((Crash(h) \/ Shutdown(h)) /\ GoesDown(h)) \/ Start(h)
    BY <1>2 DEF Crash, Shutdown
  <2> QED
    BY <1>2, <2>1, DownFits, StartFits
<1> QED
  BY <1>1, <1>2

----------------------------------------------------------------------------
(* The theorem. *)

LEMMA NextApps ==
  ASSUME HostsInv, TypesInv, AppsInv, [Next]_vars
  PROVE  AppsInv'
<1>1. ASSUME NEW a \in DOMAIN world.apps, ClientConnects(a) \/ StopTimePasses(a)
      PROVE  AppsInv'
  BY <1>1, ConnectsFit, TimePassesFits
<1>2. ASSUME NEW a \in DOMAIN world.apps, AppStep(a[1], a)
      PROVE  AppsInv'
  BY <1>2, AppsFit
<1>3. ASSUME NEW s \in wire, RcvSegment(s.dst, s) \/ RcvWhileDown(s) \/ LoseSegment(s)
      PROVE  AppsInv'
  BY <1>3, SegmentsFit
<1>4. ASSUME NEW h \in Host, Crash(h) \/ Shutdown(h) \/ Start(h)
      PROVE  AppsInv'
  BY <1>4, LifecycleFits
<1>5. ASSUME NEW h \in Host, NEW p \in Pointer, LastSymbol(h, p) \/ TimerFires(h, p)
      PROVE  AppsInv'
  BY <1>5, LastSymbolFits, TimerFits
<1>6. CASE UNCHANGED vars
  BY <1>6, NothingFits DEF vars
<1> QED
  BY <1>1, <1>2, <1>3, <1>4, <1>5, <1>6 DEF Next

LEMMA AppsHold == Spec => []AppsInv
<1>1. Init => AppsInv
  BY InitApps
<1>2. HostsInv /\ TypesInv /\ AppsInv /\ [Next]_vars => AppsInv'
  BY NextApps
<1> QED
  BY <1>1, <1>2, HostsHold, TypesHold, PTL DEF Spec

\* A thread server that has heard all it has been told has a thread for each connection it
\* has accepted that has not ended, and no other (RaptorQSrvHostApp::handleMessage).
THEOREM ThreadsHold == Spec => []ThreadsMatch
<1>1. ASSUME HostsInv, TypesInv, AppsInv
      PROVE  ThreadsMatch
  <2> SUFFICES ASSUME NEW a \in DOMAIN world.apps, AppKind(a) = "threads", toApp[a[1]] = <<>>
               PROVE  LET h == a[1]
                      IN  DOMAIN threads[h] = {tables[h].conns[p].connId : p \in
                             {q \in DOMAIN tables[h].conns :
                                 tables[h].conns[q].gate = a[2]
                                 /\ tables[h].conns[q].fsm \in Serving}}
    BY DEF ThreadsMatch
  <2> DEFINE h == a[1]
             C == tables[h].conns
             Q == toApp[h]
             map == threads[h]
  <2>1. /\ h \in Host /\ DOMAIN map \subseteq 1 .. nextId - 1
        /\ \A p \in DOMAIN C : C[p].connId \in 1 .. nextId - 1
    BY <1>1, AppsAre
  <2>2. ThreadsFit(C, Q, map, a[2], nextId)
    BY <1>1, <2>1 DEF AppsInv, HostFits, AppKind
  <2>3. 1 .. Len(Q) = {}
    BY Len(Q) = 0
  <2>4. \A id \in 1 .. nextId - 1 : WillServe(Q, map, a[2], id) <=> id \in DOMAIN map
    BY <2>3 DEF WillServe
  <2>5. \A id \in 1 .. nextId - 1 : id \in DOMAIN map <=> IsServed(C, a[2], id)
    BY <2>2, <2>4 DEF ThreadsFit
  <2> HIDE DEF C, map
  <2>6. DOMAIN map = {C[p].connId : p \in {q \in DOMAIN C : C[q].gate = a[2] /\ C[q].fsm \in Serving}}
    BY <2>1, <2>5 DEF IsServed
  <2> QED
    BY <2>6 DEF C, map
<1> QED
  BY <1>1, HostsHold, TypesHold, AppsHold, PTL

----------------------------------------------------------------------------
(* What ends the simulation.  A step that fails leaves the tables as they were, so it is  *)
(* enough that the reason is known before it. *)

\* What FailsOnlyAsKnown says of a failure for a reason at h, but for the client's timers.
Known(reason, h) ==
    LET conns == tables[h].conns
    IN  /\ reason \notin {"WRONG_SOCKET", "NO_TIMER", "TIMER_TWICE"}
        /\ reason = "PORTS_EXHAUSTED" =>
              \A port \in Ephemeral : \E p \in DOMAIN conns : conns[p].pair.localPort = port
        /\ reason = "ADDRESS_IN_USE" =>
              \E p \in DOMAIN conns :
                  conns[p].fsm = "LISTEN" /\ conns[p].pair.localAddr = h
                  /\ conns[p].pair.remoteAddr = NoHost
        /\ reason = "WINDOW" =>
              \/ world.par[h].windowScalingFactor > -1
              \/ Scaled(world.par[h].advertisedWindow, 14) > RQ_MAX_WIN
        /\ reason = "NO_PEER" =>
              \E s \in wire :
                 /\ s.kind = "FIN" /\ s.dst = h
                 /\ \E p \in DOMAIN conns :
                       /\ conns[p].fsm = "LISTEN" /\ conns[p].pair.remoteAddr = NoHost
                       /\ conns[p].pair.localPort = s.destPort

LEMMA KnownFailure ==
  ASSUME NEW reason, NEW h, error' = [reason |-> reason, at |-> h],
         UNCHANGED <<world, tables, wire>>, Known(reason, h)
  PROVE  FailsOnlyAsKnown'
<1>1. error'.reason = reason /\ error'.at = h
  OBVIOUS
<1> QED
  BY <1>1 DEF FailsOnlyAsKnown, Known

\* A step that ends nothing.
LEMMA GoesOn ==
  ASSUME Running, error' = error
  PROVE  FailsOnlyAsKnown'
<1>1. error'.reason = "none"
  BY DEF Running
<1> QED
  BY <1>1 DEF FailsOnlyAsKnown

\* getEphemeralPort tries every port.
LEMMA EveryPortTried ==
  ASSUME NEW T, T.lastPort \in Ephemeral, NEW port \in Ephemeral
  PROVE  \E k \in 1 .. Cardinality(Ephemeral) : NthPort(T, k) = port
<1> DEFINE first == EPHEMERAL_PORTRANGE_START
           size == Cardinality(Ephemeral)
           last == T.lastPort - first
           this == port - first
           k == IF this > last THEN this - last ELSE this - last + size
<1>1. size = EPHEMERAL_PORTRANGE_END - first /\ size \in Nat \ {0} /\ first \in Int
  <2> DEFINE final == EPHEMERAL_PORTRANGE_END - 1
  <2>1. first \in Int /\ final \in Int /\ first <= final
    BY PortAssumption
  <2> HIDE DEF first, final
  <2>2. Cardinality(first .. final) = final - first + 1
    BY <2>1, FS_Interval
  <2> QED
    BY <2>1, <2>2, PortAssumption DEF Ephemeral, first, final
<1> HIDE DEF size
<1>2. last \in 0 .. size - 1 /\ this \in 0 .. size - 1
  BY <1>1, PortAssumption DEF Ephemeral
<1>3. NthPort(T, k) = first + ((last + k) % size) /\ port = first + this
  BY <1>1, PortAssumption DEF NthPort, size, Ephemeral
<1> HIDE DEF first, last, this
<1>4. k \in 1 .. size
  BY <1>1, <1>2
<1>5. last + k = this \/ last + k = this + size
  BY <1>1, <1>2
<1>6. this % size = this /\ (this + size) % size = this
  BY <1>1, <1>2
<1> HIDE DEF k
<1>7. (last + k) % size = this
  BY <1>5, <1>6
<1> QED
  BY <1>3, <1>4, <1>7 DEF size

\* Ports run out when connections have them all, and an address with a free port is free.
LEMMA PortsRunOut ==
  ASSUME NEW T, NEW next \in Nat, TablesOK(T, next)
  PROVE  /\ Exhausted(T) =>
               \A port \in Ephemeral : \E p \in DOMAIN T.conns : T.conns[p].pair.localPort = port
         /\ \A pair : ~Exhausted(T) /\ pair.localPort = GetEphemeralPort(T) => ~InUse(T, pair)
<1>1. IsTables(T) /\ PortsAgree(T) /\ PairsAgree(T) /\ T.lastPort \in Ephemeral
  BY DEF TablesOK, IsTables
<1>2. \A port \in Ephemeral : T.ports[port] = 0 <=> Users(T, port) = {}
  BY <1>1, UsersFinite, FS_EmptySet DEF PortsAgree
<1>3. ASSUME Exhausted(T), NEW port \in Ephemeral
      PROVE  \E p \in DOMAIN T.conns : T.conns[p].pair.localPort = port
  <2>1. PICK k \in 1 .. Cardinality(Ephemeral) : NthPort(T, k) = port
    BY <1>1, EveryPortTried
  <2>2. T.ports[port] # 0
    BY <1>3, <2>1 DEF Exhausted, FreePorts
  <2> QED
    BY <1>2, <2>2 DEF Users
<1>4. ASSUME NEW pair, ~Exhausted(T), pair.localPort = GetEphemeralPort(T), InUse(T, pair)
      PROVE  FALSE
  <2>1. pair.localPort \in Ephemeral /\ T.ports[pair.localPort] = 0
    BY <1>1, <1>4, FreePort
  <2>2. T.pairs[pair] \in DOMAIN T.conns /\ T.conns[T.pairs[pair]].pair = pair
    BY <1>1, <1>4 DEF PairsAgree, InUse
  <2> QED
    BY <1>2, <2>1, <2>2 DEF Users
<1> QED
  BY <1>3, <1>4

\* OPEN_ACTIVE
LEMMA OpenFails ==
  ASSUME HostsInv, Running, NEW h \in Host, NEW gate, NEW connId, NEW app,
         OpenActive(h, gate, connId, app)
  PROVE  FailsOnlyAsKnown'
<1> DEFINE T == tables[h]
           pair == SockPair(NoHost, app.peer, GetEphemeralPort(T), app.port)
<1>1. TablesOK(T, nextId) /\ nextId \in Nat
  BY DEF HostsInv, HostOK
<1>2. pair.localPort = GetEphemeralPort(T)
  BY DEF SockPair
<1>3. \/ error' = error
      \/ Exhausted(T) /\ Fail("PORTS_EXHAUSTED", h)
      \/ ~Exhausted(T) /\ InUse(T, pair)
  BY DEF OpenActive
<1>4. CASE Exhausted(T) /\ Fail("PORTS_EXHAUSTED", h)
  <2>1. Known("PORTS_EXHAUSTED", h)
    BY <1>1, <1>4, PortsRunOut DEF Known
  <2> QED
    BY <1>4, <2>1, KnownFailure DEF Fail
<1>5. CASE ~Exhausted(T) /\ InUse(T, pair)
  <2> HIDE DEF T, pair
  <2> QED
    BY <1>1, <1>2, <1>5, PortsRunOut DEF T
<1> QED
  BY <1>3, <1>4, <1>5, GoesOn

\* A window fits a connection past the handshake, unless none does.
LEMMA KnownWindow ==
  ASSUME NEW conn, NEW h, NEW par, Sound(par[h]), ConnData(conn, h, par),
         conn.fsm \notin {"SYN_SENT", "CLOSED"}, ~WindowFits(UpdateRcvWnd(conn.st))
  PROVE  par[h].windowScalingFactor > -1 \/ Scaled(par[h].advertisedWindow, 14) > RQ_MAX_WIN
<1> DEFINE st == conn.st
           own == par[h]
<1>1. st \in StateBlock
  BY DEF ConnData
<1>2. \/ FreshState(st)
      \/ \E peer : Negotiated(st, own, peer)
  BY DEF ConnData, ClientState, ServerState
<1>3. ~st.ws_enabled \/ ScalesOwn(st, own)
  <2> HIDE DEF st, own
  <2> QED
    BY <1>2 DEF FreshState, Negotiated, ScalesOwn
<1> HIDE DEF own
<1> QED
  BY <1>1, <1>3, WindowFitsUnless DEF own

LEMMA PerformFails ==
  ASSUME HostsInv, DataInv, Running, NEW h \in Host, NEW p \in DOMAIN tables[h].conns,
         NEW event, NEW sends, NEW tells, NEW armed, NEW st, NEW queue, NEW gone, NEW removes,
         st = tables[h].conns[p].st,
         sends # {} => tables[h].conns[p].fsm \notin {"SYN_SENT", "CLOSED"},
         sends # {} /\ tables[h].conns[p].fsm = "LISTEN" =>
            \E s \in wire :
               s.kind = "FIN" /\ s.dst = h /\ tables[h].conns[p].pair.localPort = s.destPort,
         Perform(h, p, event, sends, tells, armed, st, queue, gone, removes)
  PROVE  FailsOnlyAsKnown'
<1> DEFINE conn == tables[h].conns[p]
           after == IF sends = {} THEN st ELSE UpdateRcvWnd(st)
           told == tells \o EntryTells(conn.fsm, NextState(conn.fsm, event), event)
<1>1. \/ sends # {} /\ ~WindowFits(after) /\ Fail("WINDOW", h)
      \/ sends # {} /\ conn.pair.remoteAddr = NoHost /\ Fail("NO_PEER", h)
      \/ Performs(h, p, event, sends, told, after, queue, gone)
  BY PerformDoes
<1>2. CASE sends # {} /\ ~WindowFits(after) /\ Fail("WINDOW", h)
  <2>1. ConnData(conn, h, world.par) /\ Sound(world.par[h])
    BY SoundHosts DEF DataInv, HostData, HostsInv
  <2>2. conn.fsm \notin {"SYN_SENT", "CLOSED"} /\ ~WindowFits(UpdateRcvWnd(conn.st))
    BY <1>2
  <2> HIDE DEF conn
  <2>3. \/ world.par[h].windowScalingFactor > -1
        \/ Scaled(world.par[h].advertisedWindow, 14) > RQ_MAX_WIN
    BY <2>1, <2>2, KnownWindow
  <2>4. Known("WINDOW", h)
    BY <2>3 DEF Known
  <2> QED
    BY <1>2, <2>4, KnownFailure DEF Fail
<1>3. CASE sends # {} /\ conn.pair.remoteAddr = NoHost /\ Fail("NO_PEER", h)
  <2>1. ListensOnly(conn)
    BY DEF HostsInv, HostOK, TablesOK
  <2>2. conn.fsm = "LISTEN" /\ p \in DOMAIN tables[h].conns
    BY <1>3, <2>1 DEF ListensOnly
  <2>3. PICK s \in wire : s.kind = "FIN" /\ s.dst = h /\ conn.pair.localPort = s.destPort
    BY <1>3, <2>2
  <2>4. Known("NO_PEER", h)
    BY <1>3, <2>2, <2>3 DEF Known
  <2> QED
    BY <1>3, <2>4, KnownFailure DEF Fail
<1>4. CASE Performs(h, p, event, sends, told, after, queue, gone)
  BY <1>4, GoesOn DEF Performs
<1> QED
  BY <1>1, <1>2, <1>3, <1>4

\* What is left to other properties.
LEMMA OthersFail ==
  ASSUME NEW h, NEW reason \in {"EVENT_WHILE_CLOSED", "APP_DOWN", "NOT_OPEN", "DUPLICATE_CLOSE"},
         Fail(reason, h)
  PROVE  FailsOnlyAsKnown'
<1>1. Known(reason, h)
  BY DEF Known
<1> QED
  BY <1>1, KnownFailure DEF Fail

LEMMA CloseFails ==
  ASSUME HostsInv, DataInv, Running, NEW h \in Host, NEW gate, NEW connId, NEW queue,
         Close(h, gate, connId, queue)
  PROVE  FailsOnlyAsKnown'
<1> DEFINE T == tables[h]
           p == FindConnForApp(T, gate, connId)
           conn == T.conns[p]
           early == conn.fsm \in {"LISTEN", "SYN_SENT"}
           sends == IF early THEN {} ELSE {"FIN"}
           armed == IF early THEN conn.timers ELSE conn.timers \cup {"REXMIT"}
           st == conn.st
           event == "CLOSE"
           gone == {}
<1>1. \/ error' = error
      \/ \E reason \in {"NOT_OPEN", "DUPLICATE_CLOSE", "EVENT_WHILE_CLOSED"} : Fail(reason, h)
      \/ /\ p # NoConn /\ conn.fsm # "CLOSED"
         /\ Perform(h, p, event, sends, <<>>, armed, st, queue, gone, TRUE)
  BY DEF Close
<1>2. ASSUME p # NoConn
      PROVE  p \in DOMAIN T.conns
  <2>1. <<gate, connId>> \in DOMAIN T.apps /\ p = T.apps[<<gate, connId>>]
    BY <1>2 DEF FindConnForApp
  <2>2. AppsAgree(T)
    BY DEF HostsInv, HostOK, TablesOK
  <2> HIDE DEF p
  <2> QED
    BY <2>1, <2>2 DEF AppsAgree
<1>3. ASSUME NEW reason \in {"NOT_OPEN", "DUPLICATE_CLOSE", "EVENT_WHILE_CLOSED"},
             Fail(reason, h)
      PROVE  FailsOnlyAsKnown'
  BY <1>3, OthersFail
<1>4. CASE /\ p # NoConn /\ conn.fsm # "CLOSED"
           /\ Perform(h, p, event, sends, <<>>, armed, st, queue, gone, TRUE)
  <2>1. /\ st = tables[h].conns[p].st
        /\ sends # {} => tables[h].conns[p].fsm \notin {"SYN_SENT", "CLOSED", "LISTEN"}
    BY <1>4
  <2> HIDE DEF p, sends, armed, st, event, gone
  <2> QED
    BY <1>2, <1>4, <2>1, PerformFails
<1> QED
  BY <1>1, <1>3, <1>4, GoesOn

\* A connection of h listens at its address alone.
ListensAt(T, h) ==
    \E p \in DOMAIN T.conns :
        T.conns[p].fsm = "LISTEN" /\ T.conns[p].pair.localAddr = h
        /\ T.conns[p].pair.remoteAddr = NoHost

\* The listening address is only taken when the listener has been given away before: the
\* connection has come back to LISTEN with an address, and its clone listens at it.
LEMMA AddressTaken ==
  ASSUME NEW T, NEW next \in Nat, TablesOK(T, next), NEW p \in DOMAIN T.conns,
         NEW h, NEW par, ConnData(T.conns[p], h, par), T.conns[p].fsm = "LISTEN",
         NEW pair, pair.remoteAddr # NoHost,
         InUse(UpdateSockPair(T, p, pair), Clone(T.conns[p], T.conns[p].pair.localPort).pair)
  PROVE  ListensAt(T, h)
<1> DEFINE conn == T.conns[p]
           key == Listening(conn.pair.localAddr, conn.pair.localPort)
<1>1. /\ PairsAgree(T) /\ \A q \in DOMAIN T.conns : ListensOnly(T.conns[q])
      /\ T = [conns |-> T.conns, apps |-> T.apps, pairs |-> T.pairs, ports |-> T.ports,
              lastPort |-> T.lastPort]
  BY DEF TablesOK, IsTables
<1>2. Clone(conn, conn.pair.localPort).pair = key
  BY DEF Clone, Connection
<1>3. key.remoteAddr = NoHost /\ key.localAddr = conn.pair.localAddr
  BY DEF Listening, SockPair
<1>4. UpdateSockPair(T, p, pair).pairs = Put(Drop(T.pairs, conn.pair), pair, p)
  BY <1>1 DEF UpdateSockPair
<1>5. key \in DOMAIN T.pairs /\ key # conn.pair
  <2>1. key \in DOMAIN Put(Drop(T.pairs, conn.pair), pair, p) /\ key # pair
    BY <1>2, <1>3, <1>4 DEF InUse
  <2> HIDE DEF key, conn
  <2> QED
    BY <2>1 DEF Put, Drop
<1>6. conn.pair.localAddr = h
  <2>1. conn.pair.localPort \notin Ephemeral
    BY <1>1 DEF ListensOnly, Waiting
  <2> HIDE DEF conn
  <2>2. ConnData(conn, h, par) /\ conn.pair # key
    BY <1>5 DEF conn
  <2> QED
    BY <2>1, <2>2 DEF ConnData
<1> DEFINE q == T.pairs[key]
<1>7. q \in DOMAIN T.conns /\ T.conns[q].pair = key
  BY <1>1, <1>5 DEF PairsAgree
<1>8. T.conns[q].fsm = "LISTEN"
  BY <1>1, <1>3, <1>7 DEF ListensOnly
<1> QED
  BY <1>3, <1>6, <1>7, <1>8 DEF ListensAt

LEMMA AcceptFails ==
  ASSUME HostsInv, DataInv, Running, NEW h \in Host, NEW s \in wire, s.kind = "SYN", s.dst = h,
         NEW p \in DOMAIN tables[h].conns,
         p = FindConnForSegment(tables[h], s.src, h, s.srcPort, s.destPort),
         tables[h].conns[p].fsm = "LISTEN",
         Accept(h, s, p)
  PROVE  FailsOnlyAsKnown'
<1> DEFINE T == tables[h]
           conn == T.conns[p]
           par == world.par[h]
           peer == world.par[s.src]
           pair == SockPair(h, s.src, s.destPort, s.srcPort)
           read == ReadOptions(UpdateSndWnd(Configure(conn.st, par), s.window), s.opts)
           clone == Clone(conn, s.destPort)
<1> HIDE DEF read, clone
<1>1. /\ TablesOK(T, nextId) /\ nextId \in Nat /\ world \in Scenarios /\ s.src \in Host
      /\ SegmentData(s, world.par) /\ ConnData(conn, h, world.par) /\ p # NoConn
  BY ConnsOf DEF HostsInv, HostOK, DataInv, HostData
<1>2. conn.pair.localPort = s.destPort /\ conn.pair.remoteAddr \in {s.src, NoHost}
  <2> HIDE DEF T
  <2> QED
    BY <1>1, FoundConn DEF T
<1>3. pair.remoteAddr = s.src /\ s.src # NoHost /\ s.destPort \notin Ephemeral
  <2>1. ListensOnly(conn)
    BY <1>1 DEF TablesOK
  <2> QED
    BY <1>1, <1>2, <2>1, AddressAssumption DEF SockPair, ListensOnly, Waiting
<1>4. \/ error' = error
      \/ InUse(UpdateSockPair(T, p, pair), clone.pair) /\ Fail("ADDRESS_IN_USE", h)
      \/ ~WindowFits(UpdateRcvWnd(read)) /\ Fail("WINDOW", h)
  BY DEF Accept, read, clone
<1>5. CASE InUse(UpdateSockPair(T, p, pair), clone.pair) /\ Fail("ADDRESS_IN_USE", h)
  <2>1. /\ p \in DOMAIN T.conns /\ T.conns[p].fsm = "LISTEN"
        /\ InUse(UpdateSockPair(T, p, pair), Clone(T.conns[p], T.conns[p].pair.localPort).pair)
    BY <1>2, <1>5 DEF clone
  <2>2. pair.remoteAddr # NoHost
    BY <1>3
  <2> HIDE DEF T, pair
  <2>3. ListensAt(T, h)
    BY <1>1, <2>1, <2>2, AddressTaken
  <2>4. Known("ADDRESS_IN_USE", h)
    BY <2>3 DEF Known, ListensAt, T
  <2> QED
    BY <1>5, <2>4, KnownFailure DEF Fail
<1>6. CASE ~WindowFits(UpdateRcvWnd(read)) /\ Fail("WINDOW", h)
  <2>1. Sound(par) /\ Sound(peer)
    BY <1>1, SoundHosts
  <2>2. /\ conn.st \in StateBlock
        /\ FreshState(conn.st) \/ ServerState(conn.st, par, peer)
    <3> HIDE DEF conn
    <3> QED
      BY <1>1, <1>2, <1>3 DEF ConnData
  <2>3. s.opts = SynOptions(SynState(peer), TRUE) /\ s.window = SynWindow(SynState(peer))
    BY <1>1 DEF SegmentData
  <2> HIDE DEF par, peer, conn
  <2>4. read \in StateBlock /\ ScalesOwn(read, par)
    BY <2>1, <2>2, <2>3, ServerAnswers DEF read
  <2>5. \/ par.windowScalingFactor > -1
        \/ Scaled(par.advertisedWindow, 14) > RQ_MAX_WIN
    BY <1>6, <2>1, <2>4, WindowFitsUnless
  <2>6. Known("WINDOW", h)
    BY <2>5 DEF Known, par
  <2> QED
    BY <1>6, <2>6, KnownFailure DEF Fail
<1> QED
  BY <1>4, <1>5, <1>6, GoesOn

LEMMA SynSentFails ==
  ASSUME HostsInv, DataInv, NEW h \in Host, NEW s \in wire, s.dst = h,
         NEW p \in DOMAIN tables[h].conns, RcvInSynSent(h, s, p)
  PROVE  FailsOnlyAsKnown'
<1> DEFINE T == tables[h]
           conn == T.conns[p]
           par == world.par[h]
           peer == world.par[s.src]
           pair == SockPair(h, s.src, s.destPort, s.srcPort)
           V == UpdateSockPair(T, p, pair)
           moved == V.conns[p]
           read == ReadOptions(UpdateSndWnd(moved.st, s.window), s.opts)
<1>1. /\ TablesOK(T, nextId) /\ nextId \in Nat /\ s.src \in Host /\ world \in Scenarios
      /\ SegmentData(s, world.par) /\ ConnData(conn, h, world.par)
      /\ "conns" \in DOMAIN T /\ DOMAIN conn = Fields /\ p # NoConn
  BY ConnsOf DEF HostsInv, HostOK, DataInv, HostData
<1>2. /\ Running /\ conn.fsm = "SYN_SENT"
      /\ p = FindConnForSegment(T, s.src, h, s.srcPort, s.destPort)
  BY DEF RcvInSynSent, Arrives
<1>3. conn.st = WriteSyn(SynState(par), TRUE)
  <2> HIDE DEF conn
  <2> QED
    BY <1>2, <1>1 DEF ConnData
<1> HIDE DEF pair
<1>4. moved.st = conn.st
  <2>1. p \in DOMAIN T.conns
    OBVIOUS
  <2> HIDE DEF T
  <2>2. moved = WithPair(conn, pair)
    BY <1>1, <2>1, MovedConns DEF conn
  <2> HIDE DEF moved
  <2> QED
    BY <1>1, <2>2 DEF WithPair, Fields
<1>5. \/ error' = error
      \/ s.kind = "SYNACK" /\ ~WindowFits(UpdateRcvWnd(read)) /\ Fail("WINDOW", h)
      \/ \E event, tells :
            Perform(h, p, event, {}, tells, moved.timers, moved.st, toApp[h], {s}, TRUE)
  BY DEF RcvInSynSent, pair
<1>6. CASE s.kind = "SYNACK" /\ ~WindowFits(UpdateRcvWnd(read)) /\ Fail("WINDOW", h)
  <2>1. Sound(par) /\ Sound(peer)
    BY <1>1, SoundHosts
  <2>2. s.opts = SynAckOptions(peer, par) /\ AnnouncedTo(s.window, peer, par)
    BY <1>1, <1>6 DEF SegmentData
  <2>3. moved.st = WriteSyn(SynState(par), TRUE)
    BY <1>3, <1>4
  <2> HIDE DEF par, peer, moved
  <2>4. read \in StateBlock /\ ScalesOwn(read, par)
    BY <2>1, <2>2, <2>3, ClientHears
  <2> HIDE DEF read
  <2>5. \/ par.windowScalingFactor > -1
        \/ Scaled(par.advertisedWindow, 14) > RQ_MAX_WIN
    BY <1>6, <2>1, <2>4, WindowFitsUnless
  <2>6. Known("WINDOW", h)
    BY <2>5 DEF Known, par
  <2> QED
    BY <1>6, <2>6, KnownFailure DEF Fail
<1>7. ASSUME NEW event, NEW tells,
             Perform(h, p, event, {}, tells, moved.timers, moved.st, toApp[h], {s}, TRUE)
      PROVE  FailsOnlyAsKnown'
  <2> DEFINE armed == moved.timers
             st == moved.st
             queue == toApp[h]
             gone == {s}
             sends == {}
  <2>1. /\ Perform(h, p, event, sends, tells, armed, st, queue, gone, TRUE)
        /\ st = tables[h].conns[p].st
        /\ sends # {} => tables[h].conns[p].fsm \notin {"SYN_SENT", "CLOSED"}
    BY <1>4, <1>7
  <2> HIDE DEF armed, st, queue, gone, sends
  <2> QED
    BY <1>2, <2>1, PerformFails
<1> QED
  BY <1>2, <1>5, <1>6, <1>7, GoesOn

LEMMA ElsewhereFails ==
  ASSUME HostsInv, DataInv, Running, NEW h \in Host, NEW s \in wire,
         NEW p \in DOMAIN tables[h].conns, RcvElsewhere(h, s, p)
  PROVE  FailsOnlyAsKnown'
<1> DEFINE conn == tables[h].conns[p]
           o == CASE s.kind = "FIN" -> FinOutcome(conn.fsm, conn.timers)
                  [] s.kind # "FIN" /\ conn.fsm = "ESTABLISHED" ->
                        Outcome("IGNORE", <<>>, <<>>, conn.timers)
                  [] OTHER -> OtherOutcome(conn.fsm, conn.timers)
           sends == {o.sends[k] : k \in 1 .. Len(o.sends)}
           event == o.event
           tells == o.tells
           armed == o.timers
           st == conn.st
           queue == toApp[h]
           gone == {s}
<1>1. /\ conn.fsm \notin {"SYN_SENT", "CLOSED"} /\ Arrives(h, s, p)
      /\ Perform(h, p, event, sends, tells, armed, st, queue, gone, TRUE)
  BY DEF RcvElsewhere
<1>2. conn.pair.localPort = s.destPort
  <2>1. TablesOK(tables[h], nextId) /\ nextId \in Nat /\ s.src \in Host /\ p # NoConn
    BY ConnsOf DEF HostsInv, HostOK
  <2>2. p = FindConnForSegment(tables[h], s.src, h, s.srcPort, s.destPort)
    BY <1>1 DEF Arrives
  <2> QED
    BY <2>1, <2>2, FoundConn
<1>3. sends # {} /\ conn.fsm = "LISTEN" => s.kind = "FIN"
  <2> SUFFICES ASSUME conn.fsm = "LISTEN", s.kind # "FIN"
               PROVE  sends = {}
    OBVIOUS
  <2>1. o = Outcome("IGNORE", <<>>, <<>>, conn.timers)
    BY DEF OtherOutcome
  <2>2. o.sends = <<>>
    BY <2>1 DEF Outcome
  <2> HIDE DEF o
  <2> QED
    BY <2>2
<1>4. s.dst = h /\ st = conn.st
  BY <1>1 DEF Arrives
<1>5. sends # {} /\ conn.fsm = "LISTEN" =>
         \E t \in wire : t.kind = "FIN" /\ t.dst = h /\ conn.pair.localPort = t.destPort
  BY <1>2, <1>3, <1>4
<1> HIDE DEF sends, event, tells, armed, st, queue, gone, o
<1> QED
  BY <1>1, <1>4, <1>5, PerformFails

LEMMA TimerFails ==
  ASSUME HostsInv, DataInv, NEW h \in Host, NEW p, TimerFires(h, p)
  PROVE  FailsOnlyAsKnown'
<1>1. p \in DOMAIN tables[h].conns /\ Running
  BY DEF TimerFires
<1>2. PICK event, tells, armed :
         Perform(h, p, event, {}, tells, armed, tables[h].conns[p].st, toApp[h], {}, FALSE)
  BY DEF TimerFires
<1> DEFINE st == tables[h].conns[p].st
           queue == toApp[h]
           none == {}
<1>3. /\ Perform(h, p, event, none, tells, armed, st, queue, none, FALSE)
      /\ st = tables[h].conns[p].st /\ none = {}
  BY <1>2
<1> HIDE DEF st, queue, none
<1> QED
  BY <1>1, <1>3, PerformFails

\* Segments.
LEMMA SegmentsFail ==
  ASSUME HostsInv, DataInv, NEW s \in wire,
         RcvSegment(s.dst, s) \/ RcvWhileDown(s) \/ LoseSegment(s)
  PROVE  FailsOnlyAsKnown'
<1> DEFINE h == s.dst
<1>1. h \in Host
  BY DEF HostsInv
<1>2. CASE Running /\ \E kinds : Answer(s, kinds)
  BY <1>2, GoesOn DEF Answer
<1>3. ASSUME NEW p \in DOMAIN tables[h].conns, RcvInListen(h, s, p)
      PROVE  FailsOnlyAsKnown'
  <2>1. /\ Running /\ tables[h].conns[p].fsm = "LISTEN"
        /\ (s.kind = "SYN" /\ Accept(h, s, p)) \/ Answer(s, {"RST"})
        /\ p = FindConnForSegment(tables[h], s.src, h, s.srcPort, s.destPort)
    BY <1>3 DEF RcvInListen, Arrives
  <2> QED
    BY <1>1, <1>2, <2>1, AcceptFails
<1>4. ASSUME NEW p \in DOMAIN tables[h].conns, RcvInSynSent(h, s, p)
      PROVE  FailsOnlyAsKnown'
  BY <1>1, <1>4, SynSentFails
<1>5. ASSUME NEW p \in DOMAIN tables[h].conns, RcvWhileClosed(h, s, p)
      PROVE  FailsOnlyAsKnown'
  BY <1>5, OthersFail DEF RcvWhileClosed
<1>6. ASSUME NEW p \in DOMAIN tables[h].conns, RcvElsewhere(h, s, p)
      PROVE  FailsOnlyAsKnown'
  <2>1. Running
    BY <1>6 DEF RcvElsewhere, Arrives
  <2> QED
    BY <1>1, <1>6, <2>1, ElsewhereFails
<1>7. CASE RcvUnknown(h, s) \/ RcvWhileDown(s) \/ LoseSegment(s)
  <2>1. Running /\ \E kinds : Answer(s, kinds)
    BY <1>7 DEF RcvUnknown, RcvWhileDown, LoseSegment, Arrives
  <2> QED
    BY <1>2, <2>1
<1> QED
  BY <1>3, <1>4, <1>5, <1>6, <1>7 DEF RcvSegment

\* Applications.  What a client is told is about its last connection.
LEMMA ClientToldOwn ==
  ASSUME HostsInv, TypesInv, AppsInv, NEW a \in DOMAIN world.apps, NEW h, h = a[1],
         Receives(h, a, {"client"})
  PROVE  Head(toApp[h]).connId = sockets[a].connId
<1> DEFINE Q == toApp[h]
<1>1. /\ h \in Host /\ Running /\ Q # <<>> /\ a = <<h, Head(Q).gate>> /\ AppKind(a) = "client"
      /\ Q \in Seq(Indications(nextId)) /\ nextId \in Nat
  BY AppsAre DEF Receives
<1>2. OneCall(tables[h].conns, Q, a[2], sockets[a])
  BY <1>1 DEF AppsInv, HostFits, AppKind
<1>3. Len(Q) \in Nat \ {0} /\ Head(Q) = Q[1]
  <2> HIDE DEF Q
  <2> QED
    BY <1>1, TailGives
<1>4. Q[1].gate = a[2]
  BY <1>1, <1>3
<1> HIDE DEF Q
<1> QED
  BY <1>2, <1>3, <1>4 DEF OneCall, Q

LEMMA AppsFail ==
  ASSUME HostsInv, TypesInv, DataInv, AppsInv, NEW a \in DOMAIN world.apps,
         ClientConnects(a) \/ StopTimePasses(a) \/ AppStep(a[1], a)
  PROVE  FailsOnlyAsKnown'
<1> DEFINE h == a[1]
           i == Head(toApp[h])
<1>1. h \in Host
  BY AppAt DEF HostsInv
<1>2. CASE ClientConnects(a)
  <2>1. Running /\ OpenActive(h, a[2], nextId, world.apps[a])
    BY <1>2 DEF ClientConnects
  <2> HIDE DEF h
  <2> QED
    BY <1>1, <2>1, OpenFails
<1>3. CASE StopTimePasses(a)
  BY <1>3, GoesOn DEF StopTimePasses
<1>4. CASE AppStep(h, a)
  <2>1. Running
    BY <1>4 DEF AppStep, ClientReceives, SinkReceives, EchoReceives, ThreadReceives, Receives
  <2>2. \/ Consume(h)
        \/ Close(h, i.gate, i.connId, Tail(toApp[h]))
        \/ ~up[h] /\ Fail("APP_DOWN", h)
        \/ Receives(h, a, {"client"}) /\ i.connId # sockets[a].connId
    BY <1>4 DEF AppStep, ClientReceives, SinkReceives, EchoReceives, ThreadReceives
  <2>3. CASE Consume(h)
    BY <2>1, <2>3, GoesOn DEF Consume
  <2>4. CASE Close(h, i.gate, i.connId, Tail(toApp[h]))
    <3> DEFINE gate == i.gate
               id == i.connId
               rest == Tail(toApp[h])
    <3>1. Close(h, gate, id, rest)
      BY <2>4
    <3> HIDE DEF gate, id, rest, h
    <3> QED
      BY <1>1, <2>1, <3>1, CloseFails
  <2>5. CASE ~up[h] /\ Fail("APP_DOWN", h)
    BY <2>5, OthersFail
  <2>6. CASE Receives(h, a, {"client"}) /\ i.connId # sockets[a].connId
    BY <2>6, ClientToldOwn
  <2> QED
    BY <2>2, <2>3, <2>4, <2>5, <2>6
<1> QED
  BY <1>2, <1>3, <1>4

\* A client whose host is down has cancelled its timer: it only sets it again when it is
\* told of a failure.
RetriesInv ==
    Running =>
        \A a \in DOMAIN world.apps :
            AppKind(a) = "client" /\ ~up[a[1]] /\ sockets[a].timer = "CONNECT" =>
                sockets[a].state \in {"SOCKERROR", "CLOSED"}

\* What becomes of one client; nothing is asked of the step once the simulation has ended.
LEMMA RetriesLater ==
  ASSUME RetriesInv, world' = world, Running' => Running,
         \A a \in DOMAIN world.apps :
            AppKind(a) = "client" /\ Running' =>
               \/ up'[a[1]] = TRUE
               \/ up'[a[1]] = up[a[1]] /\ sockets'[a] = sockets[a]
               \/ sockets'[a].timer # "CONNECT"
               \/ sockets'[a].state \in {"SOCKERROR", "CLOSED"}
  PROVE  RetriesInv'
  BY DEF RetriesInv, AppKind

LEMMA AppsRetry ==
  ASSUME HostsInv, TypesInv, AppsInv, RetriesInv, NEW b \in DOMAIN world.apps,
         ClientConnects(b) \/ StopTimePasses(b) \/ AppStep(b[1], b)
  PROVE  RetriesInv'
<1> DEFINE h == b[1]
           c == sockets[b]
           most == world.maxId
<1>1. /\ world \in Scenarios /\ DOMAIN sockets = DOMAIN world.apps
      /\ nextId \in Nat \ {0} /\ most \in Nat /\ h \in Host
  BY ScenariosAssumption, AppsAre
<1>2. ASSUME AppKind(b) = "client"
      PROVE  c \in SocketsOf(TRUE, most)
  <2>1. (AppKind(b) = "client") = TRUE
    BY <1>2
  <2> QED
    BY <2>1 DEF TypesInv
<1> HIDE DEF most
<1>3. ASSUME NEW new, Running, UNCHANGED <<world, up>>, AppKind(b) = "client",
             sockets' = [sockets EXCEPT ![b] = new],
             Running' =>
                (~up[h] /\ new.timer = "CONNECT" => new.state \in {"SOCKERROR", "CLOSED"})
      PROVE  RetriesInv'
  <2>1. sockets'[b] = new /\ \A a \in DOMAIN world.apps \ {b} : sockets'[a] = sockets[a]
    BY <1>1, <1>3
  <2> QED
    BY <1>3, <2>1, RetriesLater
<1>4. CASE ClientConnects(b)
  <2> DEFINE new == ClientConnecting(c, nextId)
  <2>1. /\ Running /\ AppKind(b) = "client" /\ nextId <= most
        /\ sockets' = [sockets EXCEPT ![b] = new]
    BY <1>4 DEF ClientConnects, most
  <2>2. UNCHANGED <<world, up>>
    BY <1>4 DEF ClientConnects, OpenActive, Fail
  <2>3. nextId \in 1 .. most
    BY <1>1, <2>1
  <2>4. new.timer # "CONNECT"
    BY <1>1, <1>2, <2>1, <2>3, ClientMoves
  <2> HIDE DEF new
  <2> QED
    BY <1>3, <2>1, <2>2, <2>4
<1>5. CASE StopTimePasses(b)
  <2> DEFINE new == [c EXCEPT !.over = TRUE]
  <2>1. /\ Running /\ AppKind(b) = "client" /\ sockets' = [sockets EXCEPT ![b] = new]
        /\ UNCHANGED <<world, up>>
    BY <1>5 DEF StopTimePasses
  <2>2. new.timer = c.timer /\ new.state = c.state
    BY <1>2, <2>1 DEF SocketsOf
  <2>3. ~up[h] /\ c.timer = "CONNECT" => c.state \in {"SOCKERROR", "CLOSED"}
    BY <2>1 DEF RetriesInv
  <2> HIDE DEF new
  <2> QED
    BY <1>3, <2>1, <2>2, <2>3
<1>6. CASE AppStep(h, b)
  <2> DEFINE Q == toApp[h]
             kind == Head(Q).kind
             new == ClientAfter(c, kind)
  <2>1. Receives(h, b, {"client", "sink", "echo", "threads"}) /\ UNCHANGED <<world, up>>
    BY <1>6, AppLeaves
  <2>2. /\ Running /\ Q # <<>> /\ b = <<h, Head(Q).gate>> /\ Q \in Seq(Indications(nextId))
    BY <2>1, AppsAre, <1>1 DEF Receives
  <2>3. CASE sockets' = sockets
    BY <2>1, <2>2, <2>3, RetriesLater
  <2>4. CASE AppKind(b) = "client" /\ sockets' = [sockets EXCEPT ![b] = new]
    <3>1. OneCall(tables[h].conns, Q, b[2], c)
      BY <1>1, <2>2, <2>4 DEF AppsInv, HostFits, AppKind
    <3>2. Len(Q) \in Nat \ {0} /\ Head(Q) = Q[1]
      <4> HIDE DEF Q
      <4> QED
        BY <1>1, <2>2, TailGives
    <3>3. kind \in Kinds /\ Q[1].gate = b[2] /\ 1 \in 1 .. Len(Q)
      <4>1. Head(Q) \in Indications(nextId)
        BY <1>1, <2>2, RestOfQueue
      <4>2. Head(Q).gate = b[2]
        BY <2>2
      <4> QED
        BY <3>2, <4>1, <4>2 DEF Indications
    <3>4. c.timer = "CONNECT" => kind = "CLOSED"
      <4> HIDE DEF Q
      <4> QED
        BY <3>1, <3>2, <3>3 DEF OneCall, NoMore
    <3>5. new.timer = "CONNECT" => new.state \in {"SOCKERROR", "CLOSED"}
      <4> HIDE DEF c, Q, kind
      <4> QED
        BY <1>1, <1>2, <2>4, <3>3, <3>4, CallsAfterFailure
    <3> HIDE DEF new
    <3> QED
      BY <1>3, <2>1, <2>2, <2>4, <3>5
  <2> QED
    BY <1>6, <2>3, <2>4, AppLeaves
<1> QED
  BY <1>4, <1>5, <1>6

LEMMA LifecycleRetries ==
  ASSUME HostsInv, TypesInv, AppsInv, RetriesInv, NEW h \in Host,
         Crash(h) \/ Shutdown(h) \/ Start(h)
  PROVE  RetriesInv'
<1>1. /\ Running /\ world' = world /\ world \in Scenarios /\ up \in [Host -> BOOLEAN]
      /\ \A a \in DOMAIN world.apps : a[1] \in Host
  BY AppsAre DEF Crash, Shutdown, Start, Operates, HostsInv
<1>2. CASE \E reason : reason # "none" /\ RefuseOperation(reason, h)
  <2>1. ~Running'
    BY <1>2 DEF RefuseOperation, Running
  <2> QED
    BY <2>1 DEF RetriesInv
<1>3. CASE ~\E reason : reason # "none" /\ RefuseOperation(reason, h)
  <2>1. \A a \in DOMAIN world.apps : a[1] # h => sockets'[a] = sockets[a]
    BY OperatedSockets
  <2>2. CASE Start(h)
    <3>1. up' = [up EXCEPT ![h] = TRUE]
      BY <1>3, <2>2 DEF Start
    <3>2. \A g \in Host : up'[g] = IF g = h THEN TRUE ELSE up[g]
      BY <1>1, <3>1
    <3> QED
      BY <1>1, <2>1, <3>2, RetriesLater
  <2>3. CASE Crash(h) \/ Shutdown(h)
    <3>1. GoesDown(h)
      BY <1>3, <2>3 DEF Crash, Shutdown
    <3>2. \A g \in Host \ {h} : up'[g] = up[g]
      BY <1>1, <3>1 DEF GoesDown
    <3>3. \A a \in DOMAIN world.apps :
             a[1] = h /\ AppKind(a) = "client" => sockets'[a].timer # "CONNECT"
      BY <2>3, <3>1, DownTimers
    <3> QED
      BY <1>1, <2>1, <3>2, <3>3, RetriesLater
  <2> QED
    BY <2>2, <2>3
<1> QED
  BY <1>2, <1>3

LEMMA RetriesHold == Spec => []RetriesInv
<1>1. ASSUME Init
      PROVE  RetriesInv
  <2>1. world \in Scenarios /\ \A h \in Host : up[h] = TRUE
    BY <1>1 DEF Init
  <2>2. \A a \in DOMAIN world.apps : a[1] \in Host
    BY <2>1, AppAt
  <2> QED
    BY <2>1, <2>2 DEF RetriesInv
<1>2. ASSUME HostsInv, TypesInv, AppsInv, RetriesInv, [Next]_vars
      PROVE  RetriesInv'
  <2>1. ASSUME NEW a \in DOMAIN world.apps,
               ClientConnects(a) \/ StopTimePasses(a) \/ AppStep(a[1], a)
        PROVE  RetriesInv'
    BY <1>2, <2>1, AppsRetry
  <2>2. ASSUME NEW h \in Host, Crash(h) \/ Shutdown(h) \/ Start(h)
        PROVE  RetriesInv'
    BY <1>2, <2>2, LifecycleRetries
  <2>3. ASSUME Running' => Running, UNCHANGED <<world, up, sockets>>
        PROVE  RetriesInv'
    BY <1>2, <2>3, RetriesLater
  <2>4. ASSUME NEW s \in wire, RcvSegment(s.dst, s) \/ RcvWhileDown(s) \/ LoseSegment(s)
        PROVE  RetriesInv'
    <3>1. Running
      BY <2>4 DEF RcvSegment, RcvUnknown, RcvInListen, RcvInSynSent, RcvWhileClosed,
                  RcvElsewhere, Arrives, RcvWhileDown, LoseSegment
    <3> QED
      BY <2>3, <2>4, <3>1, SegmentLeaves
  <2>5. ASSUME NEW h \in Host, NEW p \in Pointer, TimerFires(h, p)
        PROVE  RetriesInv'
    <3>1. Running /\ UNCHANGED <<world, up, sockets>>
      BY <2>5, HandlersLeave DEF TimerFires, appVars
    <3> QED
      BY <2>3, <3>1
  <2>6. ASSUME NEW h \in Host, NEW p \in Pointer, LastSymbol(h, p)
        PROVE  RetriesInv'
    BY <2>3, <2>6 DEF LastSymbol
  <2>7. CASE UNCHANGED vars
    BY <2>3, <2>7 DEF vars, Running
  <2> QED
    BY <1>2, <2>1, <2>2, <2>4, <2>5, <2>6, <2>7 DEF Next
<1> QED
  BY <1>1, <1>2, HostsHold, TypesHold, AppsHold, PTL DEF Spec

\* A timer is only missing where a client's time was over, and only set twice where the
\* client has been told of a failure while its host was down.
LEMMA LifecycleFails ==
  ASSUME HostsInv, AppsInv, RetriesInv, NEW h \in Host, Crash(h) \/ Shutdown(h) \/ Start(h)
  PROVE  FailsOnlyAsKnown'
<1>1. Running /\ world' = world
  BY DEF Crash, Shutdown, Start, Operates
<1>2. \/ error' = error
      \/ LacksTimer(h) /\ RefuseOperation("NO_TIMER", h)
      \/ ~up[h] /\ TimerTwice(h) /\ RefuseOperation("TIMER_TWICE", h)
  BY DEF Crash, Shutdown, Start, GoesDown
<1>3. CASE LacksTimer(h) /\ RefuseOperation("NO_TIMER", h)
  <2>1. \E a \in ClientsOf(h) : sockets[a].over
    BY <1>3 DEF LacksTimer, AppsInv, ClientsOf, AppsOf
  <2>2. (\E a \in ClientsOf(h) : sockets[a].over)'
    BY <1>1, <1>3, <2>1 DEF RefuseOperation, ClientsOf, AppsOf, AppKind
  <2>3. error'.reason = "NO_TIMER" /\ error'.at = h
    BY <1>3 DEF RefuseOperation
  <2> QED
    BY <2>2, <2>3 DEF FailsOnlyAsKnown
<1>4. CASE ~up[h] /\ TimerTwice(h) /\ RefuseOperation("TIMER_TWICE", h)
  <2>1. PICK a \in ClientsOf(h) : sockets[a].timer = "CONNECT"
    BY <1>4 DEF TimerTwice
  <2>2. sockets[a].state \in {"SOCKERROR", "CLOSED"}
    BY <1>1, <1>4, <2>1 DEF RetriesInv, ClientsOf, AppsOf
  <2>3. (\E b \in ClientsOf(h) :
            sockets[b].timer = "CONNECT" /\ sockets[b].state \in {"SOCKERROR", "CLOSED"})'
    BY <1>1, <1>4, <2>1, <2>2 DEF RefuseOperation, ClientsOf, AppsOf, AppKind
  <2>4. error'.reason = "TIMER_TWICE" /\ error'.at = h
    BY <1>4 DEF RefuseOperation
  <2> QED
    BY <2>3, <2>4 DEF FailsOnlyAsKnown
<1> QED
  BY <1>1, <1>2, <1>3, <1>4, GoesOn

LEMMA NextFails ==
  ASSUME HostsInv, TypesInv, DataInv, AppsInv, RetriesInv, FailsOnlyAsKnown, [Next]_vars
  PROVE  FailsOnlyAsKnown'
<1>1. ASSUME NEW a \in DOMAIN world.apps,
             ClientConnects(a) \/ StopTimePasses(a) \/ AppStep(a[1], a)
      PROVE  FailsOnlyAsKnown'
  BY <1>1, AppsFail
<1>2. ASSUME NEW s \in wire, RcvSegment(s.dst, s) \/ RcvWhileDown(s) \/ LoseSegment(s)
      PROVE  FailsOnlyAsKnown'
  BY <1>2, SegmentsFail
<1>3. ASSUME NEW h \in Host, Crash(h) \/ Shutdown(h) \/ Start(h)
      PROVE  FailsOnlyAsKnown'
  BY <1>3, LifecycleFails
<1>4. ASSUME NEW h \in Host, NEW p \in Pointer, LastSymbol(h, p) \/ TimerFires(h, p)
      PROVE  FailsOnlyAsKnown'
  BY <1>4, TimerFails, GoesOn DEF LastSymbol
<1>5. CASE UNCHANGED vars
  BY <1>5 DEF vars, FailsOnlyAsKnown, ClientsOf, AppsOf, AppKind
<1> QED
  BY <1>1, <1>2, <1>3, <1>4, <1>5 DEF Next

\* The simulation only ends for reasons the code gives it: no application is told about
\* another's connection, ports run out when live connections have them all, only a listener
\* has no peer to answer, and a client only starts with its timer set after a failure.
THEOREM FailuresHold == Spec => []FailsOnlyAsKnown
<1>1. ASSUME Init
      PROVE  FailsOnlyAsKnown
  <2>1. error.reason = "none"
    BY <1>1 DEF Init
  <2> QED
    BY <2>1 DEF FailsOnlyAsKnown
<1>2. /\ HostsInv /\ TypesInv /\ DataInv /\ AppsInv /\ RetriesInv /\ FailsOnlyAsKnown
      /\ [Next]_vars
      => FailsOnlyAsKnown'
  BY NextFails
<1> QED
  BY <1>1, <1>2, HostsHold, TypesHold, DataHolds, AppsHold, RetriesHold, PTL DEF Spec

=============================================================================
