---------------------------- MODULE HeaderOptions ----------------------------
(***************************************************************************)
(* The options and windows two RQConnections negotiate in SYN and SYN+ACK: *)
(* maximum segment size, window scale and timestamps, as a connection's    *)
(* state block keeps them.                                                 *)
(***************************************************************************)
EXTENDS Integers

\* The largest window of an unscaled header.
RQ_MAX_WIN == 65535

\* The state block of a connection that nobody configured, such as the clone of a listener.
Unconfigured ==
    [ws_support |-> FALSE, ws_manual_scale |-> -1, ts_support |-> FALSE,
     snd_mss |-> 0, maxRcvBuffer |-> 0, rcv_wnd |-> 0, snd_wnd |-> 0,
     snd_ws |-> FALSE, rcv_ws |-> FALSE, ws_enabled |-> FALSE,
     rcv_wnd_scale |-> 0, snd_wnd_scale |-> 0,
     snd_initial_ts |-> FALSE, rcv_initial_ts |-> FALSE, ts_enabled |-> FALSE]

\* configureStateVariables with the parameters of the host.
Configure(st, par) ==
    [st EXCEPT !.ws_support = par.windowScalingSupport,
               !.ws_manual_scale = par.windowScalingFactor,
               !.ts_support = par.timestampSupport,
               !.snd_mss = par.mss,
               !.maxRcvBuffer = par.advertisedWindow,
               !.rcv_wnd = par.advertisedWindow]

\* Of the host's module, in RaptorQ.ned; a scale of -1 is not set by hand.
Parameters ==
    [advertisedWindow : Nat \ {0}, mss : Nat \ {0}, windowScalingSupport : BOOLEAN,
     windowScalingFactor : Nat \cup {-1}, timestampSupport : BOOLEAN]

InvalidWindow(par) ==
    ~par.windowScalingSupport /\ (par.advertisedWindow > RQ_MAX_WIN \/ par.advertisedWindow <= 0)

----------------------------------------------------------------------------
\* writeHeaderOptions of a SYN (opening) or a SYN+ACK.

Scaled(window, scale) == IF scale = 0 THEN window ELSE window \div 2^scale

\* The scale that is set by hand, or the least that makes the buffer fit the header.
WindowScale(st) ==
    IF st.ws_manual_scale > -1 THEN st.ws_manual_scale
    ELSE CHOOSE s \in 0 .. 14 :
            /\ s = 14 \/ Scaled(st.maxRcvBuffer, s) <= RQ_MAX_WIN
            /\ \A r \in 0 .. s - 1 : Scaled(st.maxRcvBuffer, r) > RQ_MAX_WIN

WritesWS(st, opening) == st.ws_support /\ (st.rcv_ws \/ opening)
WritesTS(st, opening) == st.ts_support /\ (st.rcv_initial_ts \/ opening)

\* 0 and -1: the segment does not carry the option.
SynOptions(st, opening) ==
    [mss |-> st.snd_mss,
     ws |-> IF WritesWS(st, opening) THEN WindowScale(st) ELSE -1,
     ts |-> WritesTS(st, opening)]

AfterWS(st, opening) ==
    IF WritesWS(st, opening)
    THEN [st EXCEPT !.rcv_wnd_scale = WindowScale(st), !.snd_ws = TRUE, !.ws_enabled = st.rcv_ws]
    ELSE st

AfterTS(st, opening) ==
    IF WritesTS(st, opening)
    THEN [st EXCEPT !.snd_initial_ts = TRUE, !.ts_enabled = st.rcv_initial_ts]
    ELSE st

WriteSyn(st, opening) == AfterTS(AfterWS(st, opening), opening)

----------------------------------------------------------------------------
\* readHeaderOptions of a SYN in LISTEN and a SYN+ACK in SYN_SENT.

\* Wrong: the peer's size is taken as it is.
ReadMSSCopied(st, mss) == IF mss = 0 THEN st ELSE [st EXCEPT !.snd_mss = mss]

ReadMSS(st, mss) ==
    LET least == IF mss < st.snd_mss THEN mss ELSE st.snd_mss
    IN  IF mss = 0 THEN st
        ELSE [st EXCEPT !.snd_mss = IF least = 0 THEN 536 ELSE least]

\* Wrong: a scale above 14 is taken as it is.
ReadWSUncapped(st, ws) ==
    IF ws = -1 THEN st
    ELSE [st EXCEPT !.rcv_ws = TRUE,
                    !.ws_enabled = st.ws_support /\ st.snd_ws,
                    !.snd_wnd_scale = ws]

ReadWS(st, ws) ==
    IF ws = -1 THEN st
    ELSE [st EXCEPT !.rcv_ws = TRUE,
                    !.ws_enabled = st.ws_support /\ st.snd_ws,
                    !.snd_wnd_scale = IF ws > 14 THEN 14 ELSE ws]

\* Enabled timestamps are not expected in these states.
ReadTS(st, ts) ==
    IF ~ts \/ st.ts_enabled THEN st
    ELSE [st EXCEPT !.rcv_initial_ts = TRUE,
                    !.ts_enabled = st.ts_support /\ st.snd_initial_ts]

ReadOptions(st, opts) == ReadTS(ReadWS(ReadMSS(st, opts.mss), opts.ws), opts.ts)

----------------------------------------------------------------------------
\* Wrong: the upper limit is not observed.
UpdateRcvWndUnlimited(st) == [st EXCEPT !.rcv_wnd = st.maxRcvBuffer]

\* updateRcvWnd: nothing is ever buffered, so the window is the whole buffer.
UpdateRcvWnd(st) ==
    [st EXCEPT !.rcv_wnd =
        IF st.maxRcvBuffer > RQ_MAX_WIN /\ ~st.ws_enabled THEN RQ_MAX_WIN ELSE st.maxRcvBuffer]

\* The assertions on the scaled window.
WindowFits(st) ==
    LET scale == IF st.ws_enabled THEN st.rcv_wnd_scale ELSE 0
    IN  scale <= 14 /\ Scaled(st.rcv_wnd, scale) <= RQ_MAX_WIN

\* SYN and SYN+ACK carry the unscaled window, in 16 bits.
SynWindow(st) == st.rcv_wnd % (RQ_MAX_WIN + 1)

\* updateWndInfo of a SYN or SYN+ACK: not scaled either.
UpdateSndWnd(st, window) == [st EXCEPT !.snd_wnd = window]

=============================================================================
