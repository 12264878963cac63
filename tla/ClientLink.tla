----------------------------- MODULE ClientLink -----------------------------
(***************************************************************************)
(* How the desktop app stays connected: the handshake and its retries, the *)
(* status poll that declares the daemon gone, and the two self-reconnecting*)
(* subscriptions that live only while the app believes it is connected.    *)
(* Every call is a task of its own, so answers arrive in any order and     *)
(* after the state that asked for them has changed.                        *)
(***************************************************************************)
EXTENDS Integers, FiniteSets

CONSTANTS
    FailuresBeforeDead,  \* STATUS_FAILURES_BEFORE_DEAD
    BackoffSteps,        \* doublings from RECONNECT_INITIAL to RECONNECT_MAX
    Feeds,               \* the subscriptions: live, prompts
    MaxOutages           \* bound of the model: times the daemon goes

VARIABLES
    socket,      \* missing, stale, denied, up
    daemon,      \* DaemonState: connecting, connected, failed
    retry,       \* retry_at_ms is set
    failures,    \* status_failures
    handshakes,  \* handshakes under way
    doomed,      \* those of them sent to a daemon that is gone
    polls,       \* the status poll under way: none, sent, ok, err
    feed,        \* per subscription: off, connecting, subscribed, broken, waiting
    backoff,     \* per subscription
    trouble,     \* stream_trouble
    outages

linkStateVars == <<socket, daemon, retry, failures, handshakes, doomed, polls, feed, backoff, trouble, outages>>

LinkAt(d, calls) ==
    /\ socket = "missing" /\ daemon = d /\ retry = FALSE /\ failures = 0 /\ handshakes = calls /\ doomed = 0
    /\ polls = "none" /\ feed = [f \in Feeds |-> "off"] /\ backoff = [f \in Feeds |-> 0]
    /\ trouble = FALSE /\ outages = 0
LinkInit == LinkAt("connecting", 1)

\* connect_with_timeout: the socket answers only when the daemon listens.
Connects == socket = "up"

\* subscription(): the feeds run while connected; otherwise they are dropped.
FeedsFor(d) == [f \in Feeds |-> IF d # "connected" THEN "off" ELSE IF feed[f] = "off" THEN "connecting" ELSE feed[f]]
BackoffFor(d) == [f \in Feeds |-> IF d # "connected" THEN 0 ELSE backoff[f]]
Becomes(d) == daemon' = d /\ feed' = FeedsFor(d) /\ backoff' = BackoffFor(d)

\* mark_failed: the retry is set.
\* Faulty variant: only a connection that was up is retried.
MarkFailedOnce ==
    /\ Becomes("failed") /\ failures' = 0 /\ trouble' = FALSE
    /\ retry' = (daemon = "connected")
MarkFailed ==
    /\ Becomes("failed") /\ failures' = 0 /\ trouble' = FALSE
    /\ retry' = TRUE

\* connect_task, from the Reconnect button or a due RetryTick.
ConnectTask ==
    /\ daemon = "failed" \/ retry
    /\ daemon # "connected" /\ handshakes < 2
    /\ Becomes("connecting") /\ retry' = FALSE /\ handshakes' = handshakes + 1
    /\ UNCHANGED <<socket, failures, doomed, polls, trouble, outages>>
\* RetryTick with the retry due.
RetryTick ==
    /\ daemon # "connected" /\ retry
    /\ Becomes("connecting") /\ retry' = FALSE /\ handshakes' = handshakes + 1
    /\ UNCHANGED <<socket, failures, doomed, polls, trouble, outages>>

HandshakeOk ==
    /\ handshakes > doomed /\ Connects /\ handshakes' = handshakes - 1
    /\ Becomes("connected") /\ failures' = 0 /\ retry' = FALSE /\ trouble' = FALSE
    /\ UNCHANGED <<socket, doomed, polls, outages>>
\* HandshakeDone(Err): whatever the app has become since.
HandshakeErr ==
    /\ handshakes' = handshakes - 1
    /\ \/ doomed > 0 /\ doomed' = doomed - 1
       \/ handshakes > doomed /\ ~Connects /\ UNCHANGED doomed
    /\ MarkFailed
    /\ UNCHANGED <<socket, polls, outages>>

\* StatusTick, while connected; one poll is under way at a time here.
StatusTick ==
    /\ daemon = "connected" /\ polls = "none" /\ polls' = "sent"
    /\ UNCHANGED <<socket, daemon, retry, failures, handshakes, doomed, feed, backoff, trouble, outages>>
PollAnswered ==
    /\ polls = "sent"
    /\ polls' = IF Connects THEN "ok" ELSE "err"
    /\ UNCHANGED <<socket, daemon, retry, failures, handshakes, doomed, feed, backoff, trouble, outages>>
\* StatusLoaded: two misses in a row and the daemon is gone.
StatusLoaded ==
    /\ polls \in {"ok", "err"} /\ polls' = "none"
    /\ \/ /\ polls = "ok" /\ failures' = 0 /\ trouble' = FALSE
          /\ UNCHANGED <<daemon, retry, feed, backoff>>
       \/ /\ polls = "err" /\ failures + 1 < FailuresBeforeDead /\ failures' = failures + 1
          /\ UNCHANGED <<daemon, retry, feed, backoff, trouble>>
       \/ /\ polls = "err" /\ failures + 1 >= FailuresBeforeDead /\ MarkFailed
    /\ UNCHANGED <<socket, handshakes, doomed, outages>>

(***************************************************************************)
(* stream_resilient.                                                       *)
(***************************************************************************)
\* next_backoff: doubled up to the maximum.
NextBackoff(b) == IF b < BackoffSteps THEN b + 1 ELSE b

\* pump_once: connected and subscribed; Connected is emitted.
PumpConnects(f) ==
    /\ feed[f] = "connecting" /\ Connects
    /\ feed' = [feed EXCEPT ![f] = "subscribed"] /\ trouble' = FALSE
    /\ UNCHANGED <<socket, daemon, retry, failures, handshakes, doomed, polls, backoff, outages>>
\* Lost before or after the subscription came up, which resets the backoff.
PumpLost(f) ==
    /\ (feed[f] = "broken" \/ (feed[f] = "connecting" /\ ~Connects))
    /\ feed' = [feed EXCEPT ![f] = "waiting"] /\ trouble' = TRUE
    /\ backoff' = [backoff EXCEPT ![f] = NextBackoff(IF feed[f] = "broken" THEN 0 ELSE backoff[f])]
    /\ UNCHANGED <<socket, daemon, retry, failures, handshakes, doomed, polls, outages>>
BackoffOver(f) ==
    /\ feed[f] = "waiting" /\ feed' = [feed EXCEPT ![f] = "connecting"]
    /\ UNCHANGED <<socket, daemon, retry, failures, handshakes, doomed, polls, backoff, trouble, outages>>

\* The daemon comes up, and goes: cleanly, crashed, or closed to this user.
\* Connections that were up and calls under way are gone with it.
DaemonUp ==
    /\ socket # "up" /\ socket' = "up"
    /\ UNCHANGED <<daemon, retry, failures, handshakes, doomed, polls, feed, backoff, trouble, outages>>
DaemonGoes ==
    /\ socket = "up" /\ outages < MaxOutages /\ outages' = outages + 1
    /\ socket' \in {"missing", "stale", "denied"}
    /\ feed' = [f \in Feeds |-> IF feed[f] = "subscribed" THEN "broken" ELSE feed[f]]
    /\ doomed' = handshakes /\ polls' = IF polls = "sent" THEN "err" ELSE polls
    /\ UNCHANGED <<daemon, retry, failures, handshakes, backoff, trouble>>

LinkNext ==
    \/ ConnectTask \/ RetryTick \/ HandshakeOk \/ HandshakeErr \/ StatusTick \/ PollAnswered \/ StatusLoaded
    \/ DaemonUp \/ DaemonGoes
    \/ \E f \in Feeds : PumpConnects(f) \/ PumpLost(f) \/ BackoffOver(f)

\* Timers fire and calls end: every request has a deadline.  The user is not
\* assumed to press Reconnect, nor the daemon to come back.
LinkFairness ==
    /\ WF_linkStateVars(RetryTick) /\ WF_linkStateVars(HandshakeOk \/ HandshakeErr)
    /\ WF_linkStateVars(StatusTick) /\ WF_linkStateVars(PollAnswered) /\ WF_linkStateVars(StatusLoaded)
    /\ \A f \in Feeds : WF_linkStateVars(PumpConnects(f)) /\ WF_linkStateVars(PumpLost(f)) /\ WF_linkStateVars(BackoffOver(f))

(***************************************************************************)
(* Property.                                                               *)
(***************************************************************************)
\* Once the daemon stays up the app is connected again, with both feeds
\* subscribed and no trouble shown, without anyone pressing Reconnect.
FollowsTheDaemon ==
    <>[](socket = "up") => <>[](daemon = "connected" /\ ~trouble /\ \A f \in Feeds : feed[f] = "subscribed")
=============================================================================
