------------------------------ MODULE RelayTree ------------------------------
(* How one track finds its way through a tree of relays: announce,           *)
(* subscribe, the pull-through subscription a relay opens to its upstream    *)
(* for a track it lacks, and the reconnect loops of every client (relay.go,  *)
(* moqclient/pub.go, moqclient/sub.go, loadgen.Manager.session).  What flows *)
(* once a session is served is module Track's matter.                        *)
(*                                                                           *)
(* A client is whoever dials a relay: a publisher, a viewer, or a relay with *)
(* an upstream.  All three have the same life: dial, write the requests,     *)
(* read the answer, serve until the connection fails, wait, dial again.      *)
EXTENDS Naturals, FiniteSets

CONSTANTS Relay, Publisher, Viewer,
          Dials,     \* Dials[c]: the relay c is configured with (RELAY_ADDR, UPSTREAM)
          MaxCrash,  \* bound: relay processes killed
          MaxBreak,  \* bound: connections lost otherwise
          MaxLeave   \* bound: publishers stopped for good

Client == DOMAIN Dials
HasUpstream(r) == r \in Client   \* r.upstream # ""

ASSUME TreeAssumption ==
    /\ Publisher \cup Viewer \subseteq Client
    /\ Client \subseteq Publisher \cup Viewer \cup Relay
    /\ Dials \in [Client -> Relay]
    /\ Relay \cap (Publisher \cup Viewer) = {} /\ Publisher \cap Viewer = {}
    /\ {MaxCrash, MaxBreak, MaxLeave} \subseteq Nat

VARIABLES up,        \* up[r]: the relay process runs
          sourced,   \* track.sourced at r
          loops,     \* loops[r]: upstreamLoop goroutines of the track at r
          client,    \* "off", "dial", "asking", "active", "backoff", "left"
          link,      \* link[c]: the connection c dialled: "none", "up", "broken"
          session,   \* its handler at the relay: "none", "accepted", "serving"
          crashes, breaks, leaves   \* how much of each bound is used up

clientVars == <<client, link, session>>
relayVars  == <<up, sourced, loops>>
boundVars  == <<crashes, breaks, leaves>>
treeVars == <<relayVars, clientVars, boundVars>>

TreeInit ==
    /\ up = [r \in Relay |-> TRUE]
    /\ sourced = [r \in Relay |-> FALSE]
    /\ loops = [r \in Relay |-> 0]
    /\ client = [c \in Client |-> IF c \in Relay THEN "off" ELSE "dial"]
    /\ link = [c \in Client |-> "none"]
    /\ session = [c \in Client |-> "none"]
    /\ crashes = 0 /\ breaks = 0 /\ leaves = 0
-----------------------------------------------------------------------------
(* The client's side.                                                        *)

\* The dial succeeds and setup and request are written behind it.
Dial(c) == /\ client[c] = "dial"
           /\ up[Dials[c]]
           /\ client' = [client EXCEPT ![c] = "asking"]
           /\ link' = [link EXCEPT ![c] = "up"]
           /\ session' = [session EXCEPT ![c] = "accepted"]
           /\ UNCHANGED <<relayVars, boundVars>>

DialFails(c) == /\ client[c] = "dial"
                /\ ~up[Dials[c]]
                /\ client' = [client EXCEPT ![c] = "backoff"]
                /\ UNCHANGED <<link, session, relayVars, boundVars>>

\* The answer is read; its type is not looked at.
Answered(c) == /\ client[c] = "asking"
               /\ link[c] = "up"
               /\ session[c] = "serving"
               /\ client' = [client EXCEPT ![c] = "active"]
               /\ UNCHANGED <<link, session, relayVars, boundVars>>

\* An operation on the connection failed: the session function returns an error.
Fails(c) == /\ client[c] \in {"asking", "active"}
            /\ link[c] = "broken"
            /\ client' = [client EXCEPT ![c] = "backoff"]
            /\ link' = [link EXCEPT ![c] = "none"]
            /\ UNCHANGED <<session, relayVars, boundVars>>

\* Mutant: upstreamLoop gives up after a failed session.
RetryNever(c) == /\ client[c] = "backoff"
                 /\ c \notin Relay
                 /\ client' = [client EXCEPT ![c] = "dial"]
                 /\ UNCHANGED <<link, session, relayVars, boundVars>>

\* Two seconds later the loop goes round, for ever.
Retry(c) == /\ client[c] = "backoff"
            /\ client' = [client EXCEPT ![c] = "dial"]
            /\ UNCHANGED <<link, session, relayVars, boundVars>>

-----------------------------------------------------------------------------
(* The relay's side: handleSession, in a goroutine per connection.           *)

\* handlePublisher: the track is marked sourced and the announce acknowledged.
Announce(c) == /\ c \in Publisher
               /\ session[c] = "accepted"
               /\ link[c] = "up"
               /\ session' = [session EXCEPT ![c] = "serving"]
               /\ sourced' = [sourced EXCEPT ![Dials[c]] = TRUE]
               /\ UNCHANGED <<up, loops, client, link, boundVars>>

\* Mutant: the flag is tested and not set.
EnsureUnmarked(r, ss) ==
    IF ~sourced[r] /\ HasUpstream(r)
    THEN /\ loops' = [loops EXCEPT ![r] = @ + 1]
         /\ client' = [client EXCEPT ![r] = "dial"]
         /\ session' = ss
         /\ UNCHANGED sourced
    ELSE /\ session' = ss
         /\ UNCHANGED <<sourced, loops, client>>

\* ensureSourced at r, on behalf of a subscriber whose sessions become ss.
EnsureSourced(r, ss) ==
    IF ~sourced[r] /\ HasUpstream(r)
    THEN /\ sourced' = [sourced EXCEPT ![r] = TRUE]
         /\ loops' = [loops EXCEPT ![r] = @ + 1]
         /\ client' = [client EXCEPT ![r] = "dial"]
         /\ session' = ss
    ELSE /\ session' = ss
         /\ UNCHANGED <<sourced, loops, client>>

\* Mutant: a relay that subscribes is expected to find the track.
SubscribeViewers(c) ==
    /\ c \notin Publisher
    /\ session[c] = "accepted"
    /\ link[c] = "up"
    /\ IF c \in Viewer
       THEN EnsureSourced(Dials[c], [session EXCEPT ![c] = "serving"])
       ELSE /\ session' = [session EXCEPT ![c] = "serving"]
            /\ UNCHANGED <<sourced, loops, client>>
    /\ UNCHANGED <<up, link, boundVars>>

\* handleSubscriber, for a viewer and for a downstream relay alike.
Subscribe(c) == /\ c \notin Publisher
                /\ session[c] = "accepted"
                /\ link[c] = "up"
                /\ EnsureSourced(Dials[c], [session EXCEPT ![c] = "serving"])
                /\ UNCHANGED <<up, link, boundVars>>

\* The handler notices that its connection is gone.
SessionEnds(c) == /\ session[c] # "none"
                  /\ link[c] # "up"
                  /\ session' = [session EXCEPT ![c] = "none"]
                  /\ UNCHANGED <<client, link, relayVars, boundVars>>
-----------------------------------------------------------------------------
(* What goes wrong.                                                          *)

Break(c) == /\ breaks < MaxBreak
            /\ link[c] = "up"
            /\ link' = [link EXCEPT ![c] = "broken"]
            /\ breaks' = breaks + 1
            /\ UNCHANGED <<client, session, relayVars, crashes, leaves>>

\* A relay process is killed: its tracks, its loops and its handlers are gone,
\* and so is every connection to it and the one to its own upstream.
Crash(r) ==
    /\ crashes < MaxCrash
    /\ up[r]
    /\ crashes' = crashes + 1
    /\ up' = [up EXCEPT ![r] = FALSE]
    /\ sourced' = [sourced EXCEPT ![r] = FALSE]
    /\ loops' = [loops EXCEPT ![r] = 0]
    /\ client' = [c \in Client |-> IF c = r THEN "off" ELSE client[c]]
    /\ link' = [c \in Client |-> IF c = r THEN "none"
                                 ELSE IF Dials[c] = r /\ link[c] = "up" THEN "broken"
                                 ELSE link[c]]
    /\ session' = [c \in Client |-> IF Dials[c] = r THEN "none" ELSE session[c]]
    /\ UNCHANGED <<breaks, leaves>>

Restart(r) == /\ ~up[r]
              /\ up' = [up EXCEPT ![r] = TRUE]
              /\ UNCHANGED <<sourced, loops, clientVars, boundVars>>

\* A publisher is stopped for good.
Leave(p) == /\ leaves < MaxLeave
            /\ client[p] = "active"
            /\ client' = [client EXCEPT ![p] = "left"]
            /\ link' = [link EXCEPT ![p] = "none"]
            /\ leaves' = leaves + 1
            /\ UNCHANGED <<session, relayVars, crashes, breaks>>
-----------------------------------------------------------------------------
ClientStep(c) == Dial(c) \/ DialFails(c) \/ Answered(c) \/ Fails(c) \/ Retry(c)
ServerStep(c) == Announce(c) \/ Subscribe(c) \/ SessionEnds(c)

TreeNext ==
    \/ \E c \in Client : ClientStep(c) \/ ServerStep(c) \/ Break(c)
    \/ \E r \in Relay : Crash(r) \/ Restart(r)
    \/ \E p \in Publisher : Leave(p)

Safety == TreeInit /\ [][TreeNext]_treeVars

\* Loops and handlers are goroutines; a killed container is started again.
TreeFairness ==
    /\ \A c \in Client : WF_treeVars(ClientStep(c)) /\ WF_treeVars(ServerStep(c))
    /\ \A r \in Relay : WF_treeVars(Restart(r))

TreeSpec == Safety /\ TreeFairness
-----------------------------------------------------------------------------
TreeTypeOK ==
    /\ up \in [Relay -> BOOLEAN]
    /\ sourced \in [Relay -> BOOLEAN]
    /\ loops \in [Relay -> Nat]
    /\ client \in [Client -> {"off", "dial", "asking", "active", "backoff", "left"}]
    /\ link \in [Client -> {"none", "up", "broken"}]
    /\ session \in [Client -> {"none", "accepted", "serving"}]
    /\ \A c \in Client : link[c] # "none" => client[c] \in {"asking", "active"}
    /\ crashes \in 0..MaxCrash /\ breaks \in 0..MaxBreak /\ leaves \in 0..MaxLeave

Served(c) == link[c] = "up" /\ session[c] = "serving"

LoopIsClient == \A r \in Relay :
    /\ loops[r] <= 1
    /\ HasUpstream(r) => (loops[r] = 1 <=> client[r] # "off")

\* However many subscribers arrive together, and however often relays restart, a
\* track has at most one upstreamLoop, and has one exactly when its client is
\* running (relay.go:397-406): objects are not ingested twice.
OnePull == TreeTypeOK /\ LoopIsClient

\* Pull-through (relay.go:9): while a relay that has an upstream and no publisher
\* of its own serves a subscriber, its upstream loop is running, whatever was
\* killed before.
ServedIsPulled ==
    \A c \in Client \ Publisher :
        LET r == Dials[c] IN
        Served(c) /\ HasUpstream(r) /\ (\A p \in Publisher : Dials[p] # r)
            => loops[r] = 1

\* The track's groups reach relay r: from a publisher of its own, or from its
\* upstream, where they do.
Reached == LET f[r \in Relay] ==
                   \/ \E p \in Publisher : Dials[p] = r /\ client[p] = "active" /\ Served(p)
                   \/ HasUpstream(r) /\ client[r] = "active" /\ Served(r) /\ f[Dials[r]]
           IN f

Watching(v) == client[v] = "active" /\ Served(v) /\ Reached[Dials[v]]

\* "Killing any container mid-run heals" (docs/07-lessons-learned.md:56): after
\* the last failure every viewer comes to receive the track and keeps it, unless
\* it is no longer published.
Heals == <>[](\/ \A p \in Publisher : client[p] = "left"
              \/ \A v \in Viewer : Watching(v))
=============================================================================
